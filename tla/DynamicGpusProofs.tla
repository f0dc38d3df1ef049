------------------------ MODULE DynamicGpusProofs ------------------------
(* Theorems about the allocation of DynamicGpus, for any number of GPUs,   *)
(* tasks and queues and any unit.                                          *)
EXTENDS DynamicGpus, FiniteSetTheorems, WellFoundedInduction, TLAPS

\* A queue names one fraction of a GPU, or whole GPUs: `some=0.25-0.5' does
\* neither, and what is left of a GPU is then given away as a whole.
FixedShares == \A q \in Queues : MinGpu(q) >= Unit \/ MinGpu(q) = MaxGpu(q)

\* The letters never run out: 26, and fractions of no less than a 26th.
EnoughLetters == \A q \in Queues : MaxGpu(q) < Unit => Letters * MaxGpu(q) >= Unit

Dependable == Prompt /\ FixedShares /\ EnoughLetters

-----------------------------------------------------------------------------
(* Units of slots.                                                         *)

LEMMA SlotType ==
  ASSUME NEW s \in Slots
  PROVE  s.gpu \in Gpus /\ s.size \in 1..Unit /\ s.letter \in 0..Letters
  BY DEF Slots

\* There are finitely many slots, and finitely many units in them.
LEMMA UnitsFinite ==
  ASSUME NEW S \in SUBSET Slots
  PROVE  IsFiniteSet(S) /\ IsFiniteSet(Units(S)) /\ SumSizes(S) \in Nat
  <1> DEFINE T == (Gpus \X (1..Unit)) \X (0..Letters)
             f == [s \in Slots |-> <<<<s.gpu, s.size>>, s.letter>>]
  <1>1. IsFiniteSet(T)
    <2>1. IsFiniteSet(1..Unit)
      BY ConstantsAssumption, FS_Interval
    <2>2. IsFiniteSet(0..Letters)
      BY ConstantsAssumption, FS_Interval
    <2>3. IsFiniteSet(Gpus \X (1..Unit))
      BY <2>1, ConstantsAssumption, FS_Product
    <2> QED BY <2>2, <2>3, FS_Product
  <1>2. f \in Injection(Slots, T)
    BY DEF Injection, IsInjective, Slots
  <1>3. IsFiniteSet(Slots)
    BY <1>1, <1>2, FS_Injection
  <1>4. IsFiniteSet(S)
    BY <1>3, FS_Subset
  <1>5. IsFiniteSet(S \X (1..Unit))
    <2>1. IsFiniteSet(1..Unit)
      BY ConstantsAssumption, FS_Interval
    <2> QED BY <1>4, <2>1, FS_Product
  <1>6. Units(S) \subseteq S \X (1..Unit)
    BY DEF Units
  <1>7. IsFiniteSet(Units(S))
    BY <1>5, <1>6, FS_Subset
  <1> QED BY <1>4, <1>7, FS_CardinalityType DEF SumSizes

LEMMA SumOfEmpty == SumSizes({}) = 0
  <1>1. Units({}) = {}
    BY DEF Units
  <1> QED BY <1>1, FS_EmptySet DEF SumSizes

LEMMA SumOfSubset ==
  ASSUME NEW S \in SUBSET Slots, NEW T \in SUBSET S
  PROVE  SumSizes(T) <= SumSizes(S)
  <1>1. Units(T) \subseteq Units(S)
    BY DEF Units
  <1> QED BY <1>1, UnitsFinite, FS_Subset DEF SumSizes

LEMMA SumOfUnion ==
  ASSUME NEW S \in SUBSET Slots, NEW T \in SUBSET Slots, S \cap T = {}
  PROVE  SumSizes(S \cup T) = SumSizes(S) + SumSizes(T)
  <1>1. Units(S \cup T) = Units(S) \cup Units(T)
    BY DEF Units
  <1>2. Units(S) \cap Units(T) = {}
    BY DEF Units
  <1>3. IsFiniteSet(Units(S)) /\ IsFiniteSet(Units(T))
    BY UnitsFinite
  <1>4. Cardinality(Units(S) \cap Units(T)) = 0
    BY <1>2, FS_EmptySet
  <1>5. SumSizes(S) \in Nat /\ SumSizes(T) \in Nat
    BY UnitsFinite
  <1>6. Cardinality(Units(S) \cup Units(T)) =
          Cardinality(Units(S)) + Cardinality(Units(T)) - Cardinality(Units(S) \cap Units(T))
    BY <1>3, FS_Union
  <1>7. SumSizes(S \cup T) = Cardinality(Units(S) \cup Units(T))
    BY <1>1 DEF SumSizes
  <1>8. SumSizes(S \cup T) = SumSizes(S) + SumSizes(T) - 0
    BY <1>4, <1>6, <1>7 DEF SumSizes
  <1> QED BY <1>5, <1>8

\* Slots of one size have that many units each.
LEMMA SumOfEqual ==
  ASSUME NEW S \in SUBSET Slots, NEW n \in 1..Unit, \A s \in S : s.size = n
  PROVE  SumSizes(S) = Cardinality(S) * n
  <1>1. Units(S) = S \X (1..n)
    BY ConstantsAssumption DEF Units
  <1>2. IsFiniteSet(1..n) /\ Cardinality(1..n) = n
    BY FS_Interval
  <1> QED BY <1>1, <1>2, UnitsFinite, FS_Product DEF SumSizes

LEMMA SumOfOne ==
  ASSUME NEW s \in Slots
  PROVE  SumSizes({s}) = s.size
  <1>1. s.size \in 1..Unit
    BY SlotType
  <1>2. Cardinality({s}) = 1
    BY FS_Singleton
  <1>3. SumSizes({s}) = Cardinality({s}) * s.size
    BY <1>1, SumOfEqual
  <1> QED BY <1>1, <1>2, <1>3

LEMMA SumOfMember ==
  ASSUME NEW S \in SUBSET Slots, NEW s \in S
  PROVE  SumSizes(S) >= s.size /\ s.size >= 1
  <1>1. s \in Slots /\ {s} \in SUBSET S
    OBVIOUS
  <1>2. SumSizes({s}) <= SumSizes(S) /\ SumSizes({s}) = s.size
    BY <1>1, SumOfSubset, SumOfOne
  <1> QED BY <1>1, <1>2, SlotType, UnitsFinite, ConstantsAssumption

-----------------------------------------------------------------------------
(* What the daemon chooses.                                                *)

LEMMA LeastNatural ==
  ASSUME NEW S \in SUBSET Nat, S # {}
  PROVE  \E x \in S : \A y \in S : x <= y
  <1>1. \A x, y \in S : y < x \/ x <= y
    OBVIOUS
  <1>2. \E x \in S : \A y \in S : <<y, x>> \notin OpToRel(<, Nat)
    BY NatLessThanWellFounded, WFMin
  <1>3. \A x, y \in S : y < x => <<y, x>> \in OpToRel(<, Nat)
    BY DEF OpToRel
  <1> QED BY <1>1, <1>2, <1>3, Zenon

LEMMA LeastInteger ==
  ASSUME NEW S \in SUBSET Int, S # {}, NEW b \in Int, \A x \in S : b <= x
  PROVE  \E x \in S : \A y \in S : x <= y
  <1> DEFINE T == {x - b : x \in S}
  <1>1. T \in SUBSET Nat
    OBVIOUS
  <1>2. T # {}
    OBVIOUS
  <1>3. \E z \in T : \A y \in T : z <= y
    <2> HIDE DEF T
    <2> QED BY <1>1, <1>2, LeastNatural
  <1>4. PICK x \in S : \A y \in T : x - b <= y
    BY <1>3
  <1>5. \A y \in S : x - b <= y - b
    BY <1>4
  <1> QED BY <1>4, <1>5

LEMMA GreatestInteger ==
  ASSUME NEW S \in SUBSET Int, S # {}, NEW b \in Int, \A x \in S : x <= b
  PROVE  \E x \in S : \A y \in S : x >= y
  <1> DEFINE T == {b - x : x \in S}
  <1>1. T \in SUBSET Nat
    OBVIOUS
  <1>2. T # {}
    OBVIOUS
  <1>3. \E z \in T : \A y \in T : z <= y
    <2> HIDE DEF T
    <2> QED BY <1>1, <1>2, LeastNatural
  <1>4. PICK x \in S : \A y \in T : b - x <= y
    BY <1>3
  <1>5. \A y \in S : b - x <= b - y
    BY <1>4
  <1> QED BY <1>4, <1>5

\* The first elements of a set of indexes, as many as one likes.
LEMMA FirstFew ==
  ASSUME NEW W \in SUBSET Nat, IsFiniteSet(W), NEW n \in 0..Cardinality(W)
  PROVE  \E S \in SUBSET W :
            Cardinality(S) = n /\ \A g \in S, h \in W \ S : g < h
  <1> DEFINE First(S, k) == Cardinality(S) = k /\ \A g \in S, h \in W \ S : g < h
             Bad == {k \in 0..Cardinality(W) : \A S \in SUBSET W : ~First(S, k)}
  <1>1. Cardinality(W) \in Nat
    BY FS_CardinalityType
  <1>2. SUFFICES ASSUME Bad # {} PROVE FALSE
    BY <1>2
  <1>3. PICK k \in Bad : \A j \in Bad : k <= j
    <2>1. Bad \in SUBSET Nat
      BY <1>1
    <2> HIDE DEF Bad
    <2> QED BY <1>2, <2>1, LeastNatural
  <1>4. First({}, 0)
    BY FS_EmptySet
  <1>5. k # 0 /\ k - 1 \in 0..Cardinality(W) /\ k \in 1..Cardinality(W)
    BY <1>1, <1>3, <1>4
  <1>6. PICK S \in SUBSET W : First(S, k - 1)
    BY <1>3, <1>5
  <1>7. IsFiniteSet(S) /\ Cardinality(S) = k - 1
    BY <1>6, FS_Subset
  <1>8. W \ S # {}
    <2>1. Cardinality(S) # Cardinality(W)
      BY <1>1, <1>5, <1>7
    <2>2. S # W
      BY <2>1
    <2> QED BY <1>6, <2>2
  <1>9. PICK m \in W \ S : \A h \in W \ S : m <= h
    <2> DEFINE V == W \ S
    <2>1. V \in SUBSET Nat /\ V # {}
      BY <1>8
    <2> HIDE DEF V
    <2>2. \E m \in V : \A h \in V : m <= h
      BY <2>1, LeastNatural
    <2> QED BY <2>2 DEF V
  <1>10. Cardinality(S \cup {m}) = k
    <2>1. m \notin S
      BY <1>9
    <2>2. Cardinality(S \cup {m}) = Cardinality(S) + 1
      BY <1>7, <2>1, FS_AddElement
    <2> QED BY <1>5, <1>7, <2>2
  <1>11. \A g \in S \cup {m}, h \in W \ (S \cup {m}) : g < h
    BY <1>6, <1>9
  <1>12. S \cup {m} \in SUBSET W
    BY <1>9
  <1> HIDE DEF First
  <1>13. First(S \cup {m}, k)
    BY <1>10, <1>11 DEF First
  <1> QED BY <1>3, <1>12, <1>13

LEMMA GreatestNatural ==
  ASSUME NEW S \in SUBSET Nat, IsFiniteSet(S), S # {}
  PROVE  \E x \in S : \A y \in S : x >= y
  <1>1. Cardinality(S) \in Nat \ {0}
    BY FS_CardinalityType, FS_EmptySet
  <1>2. PICK T \in SUBSET S :
           Cardinality(T) = Cardinality(S) - 1 /\ \A g \in T, h \in S \ T : g < h
    BY <1>1, FirstFew
  <1>3. IsFiniteSet(S \ T) /\ Cardinality(S \ T) = Cardinality(S) - Cardinality(S \cap T)
    BY FS_Difference
  <1>4. S \cap T = T
    OBVIOUS
  <1>5. Cardinality(S \ T) = 1
    <2>1. Cardinality(S \ T) = Cardinality(S) - Cardinality(T)
      BY <1>3, <1>4
    <2> QED BY <1>1, <1>2, <2>1
  <1>6. PICK x : S \ T = {x}
    BY <1>3, <1>5, FS_Singleton
  <1>7. x \in S /\ \A y \in S : y = x \/ y \in T
    BY <1>6
  <1> QED BY <1>2, <1>6, <1>7

-----------------------------------------------------------------------------
(* The inductive invariant.                                                *)

\* The daemon holds a task while it allocates and runs it, and only one whose
\* queue's minimum is there.
Control ==
    /\ held # NoTask <=> pc \in {"alloc", "launch", "boot"}
    /\ pc \in {"pull", "alloc"} => ~NotEnough(qi)
    /\ \A g \in DOMAIN available : available[g] <= Unit

\* A task in a queue is in that one only and has nothing yet.
Fresh(t) == child[t] = "none" /\ slots[t] = {}

QueuesApart ==
    /\ \A q, r \in Queues : \A t \in queue[q] :
         Fresh(t) /\ t # held /\ (t \in queue[r] => q = r)
    /\ pc = "alloc" => Fresh(held)
    /\ pc = "launch" => child[held] = "none"

\* The tasks that need the GPUs they were given.
Engaged == Live \cup (IF pc = "launch" THEN {held} ELSE {})

\* Everything this pass has counted as in use.
Used == (UNION seen) \cup reserved

\* A name has a letter if and only if it is a fraction's.
Proper(S) == \A s \in S : IsWhole(s) <=> s.letter = 0

ProperNames ==
    /\ Proper((UNION known) \cup Used)
    /\ \A t \in Tasks : Proper(slots[t])

\* A task that needs its GPUs is on record for them, unless a stop missed it,
\* and either its worker is known to the server or its reservation stands.
Covered(t) ==
    /\ slots[t] # {}
    /\ t \notin missed => \A s \in slots[t] : s \in DOMAIN owner /\ owner[s] = t
    /\ slots[t] \in known \/ slots[t] \subseteq reserved \ expired

AllCovered ==
    /\ \A t \in Engaged : Covered(t)
    /\ pc = "launch" => slots[held] \notin known
    /\ pc = "setup" => Live \subseteq missed

\* No worker that the server lists has a part of the slots of a task.
KnownApart ==
    \A t \in Engaged : \A w \in known : w = slots[t] \/ w \cap slots[t] = {}

\* Between the answer of the server and its use: a worker of the answer that
\* has slots of a task is that task's, and is still known; what was registered
\* meanwhile has a reservation.
AnswerHolds ==
    pc = "account" =>
        /\ \A t \in Live : \A w \in seen :
             (w = slots[t] /\ w \in known) \/ w \cap slots[t] = {}
        /\ UNION known \subseteq (UNION seen) \cup (reserved \ expired)

Passing == {"props", "peek", "pull", "alloc", "launch", "boot"}

\* In a pass everything that the server lists or a task has was counted, and a
\* GPU has available what is not in use.
Accounted ==
    pc \in Passing =>
        /\ UNION known \subseteq Used
        /\ \A t \in Holding : slots[t] \subseteq Used
        /\ {s \in Used : ~IsWhole(s)} \subseteq allocated
        /\ allocated \subseteq Used
        /\ \A g \in DOMAIN available :
             available[g] = Unit - SumSizes(On(g, Used)) /\ available[g] >= 0
        /\ \A g \in Gpus \ DOMAIN available : SumSizes(On(g, Used)) >= Unit

\* All that the tasks have of a GPU.
Taking(g) == On(g, UNION {slots[t] : t \in Holding})
GpusHold == \A g \in Gpus : SumSizes(Taking(g)) <= Unit

Inv ==
    /\ TypeOK /\ Control /\ QueuesApart
    /\ ProperNames /\ AllCovered /\ SuffixesDiffer /\ KnownApart
    /\ AnswerHolds /\ Accounted /\ GpusHold /\ EnoughGpus

-----------------------------------------------------------------------------
(* The queues and the shares the daemon takes for them.                    *)

LEMMA UsedType ==
  ASSUME TypeOK
  PROVE  /\ UNION known \in SUBSET Slots /\ UNION seen \in SUBSET Slots
         /\ Used \in SUBSET Slots /\ reserved \in SUBSET Slots
  <1>1. UNION known \in SUBSET Slots
    BY DEF TypeOK
  <1>2. UNION seen \in SUBSET Slots
    BY DEF TypeOK
  <1>3. reserved \in SUBSET Slots
    BY DEF TypeOK
  <1> QED BY <1>1, <1>2, <1>3 DEF Used

LEMMA QueueFacts ==
  /\ 1 \in Queues
  /\ \A q \in Queues :
       /\ MinGpu(q) \in Nat \ {0} /\ MaxGpu(q) \in Nat \ {0} /\ MinGpu(q) <= MaxGpu(q)
       /\ MaxGpu(q) > Unit => MaxGpu(q) % Unit = 0
  <1>1. MinMax \in Seq((Nat \ {0}) \X (Nat \ {0})) /\ MinMax # <<>>
    BY ConstantsAssumption
  <1>2. Len(MinMax) \in Nat /\ Len(MinMax) # 0 /\ Queues = 1..Len(MinMax)
    BY <1>1 DEF Queues
  <1>3. \A q \in Queues : MinMax[q] \in (Nat \ {0}) \X (Nat \ {0})
    BY <1>1, <1>2
  <1>4. \A q \in Queues : MinMax[q][1] <= MinMax[q][2] /\ (MinMax[q][2] > Unit => MinMax[q][2] % Unit = 0)
    <2>1. ASSUME NEW q \in Queues
          PROVE  /\ MinMax[q][1] <= MinMax[q][2]
                 /\ \A i \in 1..2 : MinMax[q][i] > Unit => MinMax[q][i] % Unit = 0
      BY ConstantsAssumption DEF Queues
    <2> QED BY <2>1
  <1> QED BY <1>2, <1>3, <1>4 DEF MinGpu, MaxGpu

\* What was found enough before the pull: a GPU with the queue's minimum, or
\* whole GPUs that have it together.
LEMMA EnoughThere ==
  ASSUME TypeOK, Control, NEW q \in Queues, ~NotEnough(q)
  PROVE  \/ \E g \in DOMAIN available : available[g] >= MinGpu(q)
         \/ Whole # {} /\ Cardinality(Whole) * Unit >= MinGpu(q)
  <1> DEFINE X == {available[g] : g \in DOMAIN available} \cup {Cardinality(Whole) * Unit}
             b == Unit + Cardinality(Whole) * Unit
  <1>1. IsFiniteSet(Whole) /\ Cardinality(Whole) \in Nat
    <2>1. Whole \subseteq Gpus
      BY DEF Whole, TypeOK
    <2>2. IsFiniteSet(Whole)
      BY <2>1, ConstantsAssumption, FS_Subset
    <2> QED BY <2>2, FS_CardinalityType
  <1>2. Cardinality(Whole) * Unit \in Nat /\ Unit \in Nat
    BY <1>1, ConstantsAssumption
  <1>3. X \in SUBSET Int /\ X # {} /\ b \in Int /\ \A x \in X : x <= b
    <2>1. \A g \in DOMAIN available : available[g] \in Int /\ available[g] <= Unit
      BY ConstantsAssumption DEF TypeOK, Control
    <2>2. b \in Int /\ b >= Unit /\ b >= Cardinality(Whole) * Unit
      BY <1>2
    <2> HIDE DEF b
    <2>3. \A x \in X : x \in Int /\ x <= b
      BY <1>2, <2>1, <2>2
    <2> QED BY <2>2, <2>3
  <1>4. \E x \in X : \A y \in X : x >= y
    <2> HIDE DEF X, b
    <2> QED BY <1>3, GreatestInteger
  <1>5. MostAvailable \in X /\ MostAvailable = Max(X)
    <2>1. Max(X) \in X
      <3> HIDE DEF X
      <3> QED BY <1>4 DEF Max
    <2> QED BY <2>1 DEF MostAvailable
  <1>6. MinGpu(q) <= MostAvailable
    <2>1. MinGpu(q) \in Nat
      BY QueueFacts
    <2> QED BY <1>3, <1>5, <2>1 DEF NotEnough
  <1>7. CASE MostAvailable \in {available[g] : g \in DOMAIN available}
    <2>1. PICK g \in DOMAIN available : MostAvailable = available[g]
      BY <1>7
    <2>2. MostAvailable \in Int /\ MinGpu(q) \in Nat
      BY <1>3, <1>5, QueueFacts
    <2> QED BY <1>6, <2>1, <2>2
  <1>8. CASE MostAvailable = Cardinality(Whole) * Unit
    <2>1. MinGpu(q) \in Nat \ {0}
      BY QueueFacts
    <2>2. Cardinality(Whole) * Unit >= MinGpu(q)
      BY <1>2, <1>6, <1>8, <2>1
    <2>3. Cardinality(Whole) # 0
      BY <1>2, <2>1, <2>2
    <2>4. Whole # {}
      BY <2>3, FS_EmptySet
    <2> QED BY <2>2, <2>4
  <1> QED BY <1>5, <1>7, <1>8

\* Whole GPUs for a queue of whole GPUs: the first ones, as many as the queue
\* may take and no fewer than it must.
LEMMA WholeTaken ==
  ASSUME TypeOK, Control, NEW q \in Queues, ~NotEnough(q), MaxGpu(q) >= Unit, Whole # {}
  PROVE  /\ FirstWhole(q) \in SUBSET Whole /\ FirstWhole(q) # {}
         /\ Cardinality(FirstWhole(q)) \in Nat
         /\ Cardinality(FirstWhole(q)) * Unit >= MinGpu(q)
         /\ Cardinality(FirstWhole(q)) * Unit <= MaxGpu(q)
  <1> DEFINE c == Cardinality(Whole)
             d == MaxGpu(q) \div Unit
             n == Min({d, c})
  <1>1. Whole \subseteq Gpus /\ IsFiniteSet(Whole) /\ c \in Nat \ {0}
    <2>1. Whole \subseteq Gpus
      BY DEF Whole, TypeOK
    <2>2. IsFiniteSet(Whole)
      BY <2>1, ConstantsAssumption, FS_Subset
    <2> QED BY <2>1, <2>2, FS_CardinalityType, FS_EmptySet
  <1>2. d \in Nat \ {0} /\ d * Unit = MaxGpu(q)
    <2>1. MaxGpu(q) \in Nat \ {0} /\ Unit \in Nat \ {0}
      BY QueueFacts, ConstantsAssumption
    <2>2. CASE MaxGpu(q) = Unit
      <3>1. d = 1
        BY <2>1, <2>2
      <3> QED BY <2>1, <2>2, <3>1
    <2>3. CASE MaxGpu(q) > Unit
      <3>1. MaxGpu(q) % Unit = 0
        BY <2>3, QueueFacts
      <3> QED BY <2>1, <2>3, <3>1
    <2> QED BY <2>1, <2>2, <2>3
  <1>3. n \in {d, c} /\ n <= d /\ n <= c
    <2> HIDE DEF c, d
    <2>1. \E x \in {d, c} : \A y \in {d, c} : x <= y
      BY <1>1, <1>2
    <2> QED BY <2>1 DEF Min
  <1>4. n \in 0..Cardinality(Whole)
    BY <1>1, <1>2, <1>3
  <1>5. FirstWhole(q) \in SUBSET Whole /\ Cardinality(FirstWhole(q)) = n
    <2>1. Whole \in SUBSET Nat
      BY <1>1, ConstantsAssumption
    <2> HIDE DEF n
    <2>2. \E S \in SUBSET Whole : Cardinality(S) = n /\ \A g \in S, h \in Whole \ S : g < h
      BY <1>1, <1>4, <2>1, FirstFew
    <2> QED BY <2>2 DEF FirstWhole, n
  <1> HIDE DEF c, d, n
  <1>6. n \in Nat \ {0} /\ Unit \in Nat \ {0} /\ MaxGpu(q) \in Nat /\ MinGpu(q) \in Nat
    BY <1>1, <1>2, <1>3, QueueFacts, ConstantsAssumption
  <1>7. n * Unit <= d * Unit
    BY <1>2, <1>3, <1>6
  <1>8. n * Unit >= MinGpu(q)
    <2>1. CASE n = d
      BY <1>2, <1>6, <2>1, QueueFacts
    <2>2. CASE n = c
      <3>1. CASE c * Unit >= MinGpu(q)
        BY <2>2, <3>1
      <3>2. CASE \E g \in DOMAIN available : available[g] >= MinGpu(q)
        <4>1. Unit >= MinGpu(q)
          BY <1>6, <3>2 DEF TypeOK
        <4>2. n * Unit >= Unit
          BY <1>6
        <4>3. n * Unit \in Int
          BY <1>6
        <4> QED BY <1>6, <4>1, <4>2, <4>3
      <3> QED BY <3>1, <3>2, EnoughThere DEF c
    <2> QED BY <1>3, <2>1, <2>2
  <1>9. FirstWhole(q) # {}
    BY <1>5, <1>6, FS_EmptySet
  <1> QED BY <1>2, <1>5, <1>6, <1>7, <1>8, <1>9

\* A share of one GPU: the one chosen has it.
LEMMA FitTaken ==
  ASSUME TypeOK, NEW q \in Queues, NEW g \in BestFit(q)
  PROVE  g \in DOMAIN available /\ available[g] >= Request(q)
  <1> DEFINE fit == {h \in DOMAIN available : available[h] >= MinGpu(q) /\ available[h] >= Request(q)}
             X == {available[h] : h \in fit}
  <1>1. fit # {} /\ fit \subseteq Gpus
    BY DEF BestFit, TypeOK
  <1>2. X \in SUBSET Int /\ X # {} /\ -Unit \in Int /\ \A x \in X : -Unit <= x
    <2>1. \A h \in fit : available[h] \in Int /\ -Unit <= available[h]
      BY ConstantsAssumption DEF TypeOK
    <2>2. -Unit \in Int
      BY ConstantsAssumption
    <2> HIDE DEF fit
    <2> QED BY <1>1, <2>1, <2>2
  <1>3. \E x \in X : \A y \in X : x <= y
    <2> HIDE DEF X
    <2> QED BY <1>2, LeastInteger
  <1>4. PICK v \in X : \A y \in X : v <= y
    BY <1>3
  <1> DEFINE low == {h \in fit : available[h] = v}
  <1>5. low \in SUBSET Nat /\ low # {}
    <2>1. low \subseteq fit
      OBVIOUS
    <2>2. low # {}
      BY <1>4
    <2> HIDE DEF low
    <2> QED BY <1>1, <2>1, <2>2, ConstantsAssumption
  <1>6. \E m \in low : \A h \in low : m <= h
    <2> HIDE DEF low
    <2> QED BY <1>5, LeastNatural
  <1>7. \E m \in fit : \A h \in fit : available[m] < available[h] \/ (available[m] = available[h] /\ m <= h)
    <2>1. PICK m \in low : \A h \in low : m <= h
      BY <1>6
    <2>2. \A h \in fit : available[h] \in Int /\ v <= available[h]
      BY <1>2, <1>4
    <2>3. m \in fit /\ available[m] = v
      BY <2>1
    <2>4. ASSUME NEW h \in fit
          PROVE  available[m] < available[h] \/ (available[m] = available[h] /\ m <= h)
      <3>1. CASE available[h] = v
        BY <2>1, <2>3, <3>1
      <3>2. CASE available[h] # v
        <4>1. v \in Int
          BY <1>2, <1>4
        <4> HIDE DEF fit, low
        <4> QED BY <2>2, <2>3, <3>2, <4>1
      <3> QED BY <3>1, <3>2
    <2> QED BY <2>3, <2>4
  <1>8. g \in fit
    <2>1. g = CHOOSE m \in fit : \A h \in fit : available[m] < available[h] \/ (available[m] = available[h] /\ m <= h)
      BY <1>1 DEF BestFit
    <2> HIDE DEF fit
    <2> QED BY <1>7, <2>1
  <1> QED BY <1>8

LEMMA RequestIs ==
  ASSUME NEW q \in Queues
  PROVE  /\ MaxGpu(q) < Unit => Request(q) = MaxGpu(q)
         /\ MaxGpu(q) >= Unit => Request(q) = Unit
  <1>1. MaxGpu(q) \in Nat /\ Unit \in Nat
    BY QueueFacts, ConstantsAssumption
  <1> QED BY <1>1 DEF Request, Min

\* Of queues with fixed shares nothing is ever taken in part.
LEMMA NothingPartial ==
  ASSUME TypeOK, Control, FixedShares, NEW q \in Queues, ~NotEnough(q),
         MaxGpu(q) < Unit \/ Whole = {}
  PROVE  BestFit(q) # {} /\ MaxGpu(q) < Unit
  <1>1. MinGpu(q) \in Nat \ {0} /\ MaxGpu(q) \in Nat /\ Unit \in Nat /\ MinGpu(q) <= MaxGpu(q)
    BY QueueFacts, ConstantsAssumption
  <1>2. \A g \in DOMAIN available : available[g] \in Int
    BY ConstantsAssumption DEF TypeOK
  <1>3. CASE MaxGpu(q) >= Unit
    <2>1. MinGpu(q) >= Unit /\ Whole = {}
      BY <1>1, <1>3 DEF FixedShares
    <2>2. \E g \in DOMAIN available : available[g] >= MinGpu(q)
      BY <2>1, EnoughThere
    <2>3. PICK g \in DOMAIN available : available[g] >= MinGpu(q)
      BY <2>2
    <2>4. g \in Whole
      BY <1>1, <1>2, <2>1, <2>3 DEF Whole
    <2> QED BY <2>1, <2>4
  <1>4. CASE MaxGpu(q) < Unit
    <2>1. MinGpu(q) = MaxGpu(q) /\ Request(q) = MaxGpu(q)
      BY <1>1, <1>4, RequestIs DEF FixedShares
    <2>2. \E g \in DOMAIN available : available[g] >= MinGpu(q)
      <3>1. ASSUME Whole # {} PROVE \E g \in DOMAIN available : available[g] >= MinGpu(q)
        <4>1. PICK g \in Whole : TRUE
          BY <3>1
        <4>2. g \in DOMAIN available /\ available[g] >= Unit
          BY <4>1 DEF Whole
        <4> QED BY <1>1, <1>2, <1>4, <4>2
      <3> QED BY <3>1, EnoughThere
    <2>3. BestFit(q) # {}
      BY <2>1, <2>2 DEF BestFit
    <2> QED BY <1>4, <2>3
  <1> QED BY <1>1, <1>3, <1>4

\* A GPU with that much left has a letter left for it: with all of them in
\* use nothing would be left.
LEMMA LetterLeft ==
  ASSUME TypeOK, Accounted, pc \in Passing, EnoughLetters,
         NEW q \in Queues, MaxGpu(q) < Unit,
         NEW g \in DOMAIN available, available[g] >= MaxGpu(q)
  PROVE  /\ Named(g, MaxGpu(q)) \in Slots \ Used
         /\ Named(g, MaxGpu(q)).gpu = g
         /\ Named(g, MaxGpu(q)).size = MaxGpu(q)
         /\ Named(g, MaxGpu(q)).letter # 0
  <1> DEFINE n == MaxGpu(q)
             N(x) == [gpu |-> g, size |-> n, letter |-> x]
             free == {x \in 1..Letters : N(x) \notin allocated}
             All == {N(x) : x \in 1..Letters}
  <1>1. n \in Nat \ {0} /\ n < Unit /\ Unit \in Nat /\ n \in 1..Unit /\ Letters \in Nat /\ g \in Gpus
    BY QueueFacts, ConstantsAssumption DEF TypeOK
  <1>2. \A x \in 1..Letters : N(x) \in Slots
    BY <1>1 DEF Slots
  <1>3. Used \in SUBSET Slots /\ On(g, Used) \in SUBSET Slots
    BY UsedType DEF On
  <1>4. allocated \subseteq Used /\ {s \in Used : ~IsWhole(s)} \subseteq allocated
        /\ available[g] = Unit - SumSizes(On(g, Used))
    BY DEF Accounted
  <1>5. free # {}
    <2> SUFFICES ASSUME free = {} PROVE FALSE
      OBVIOUS
    <2>1. All \in SUBSET On(g, Used) /\ All \in SUBSET Slots
      <3>1. ASSUME NEW x \in 1..Letters PROVE N(x) \in On(g, Used)
        <4>1. N(x) \in allocated
          OBVIOUS
        <4> QED BY <1>4, <4>1 DEF On
      <3> QED BY <1>3, <3>1
    <2>2. Cardinality(All) = Letters
      <3> DEFINE f == [x \in 1..Letters |-> N(x)]
      <3>1. f \in Bijection(1..Letters, All)
        BY DEF Bijection, Injection, IsInjective, Surjection
      <3>2. IsFiniteSet(1..Letters) /\ Cardinality(1..Letters) = Letters
        <4>1. IsFiniteSet(1..Letters)
          BY <1>1, FS_Interval
        <4>2. CASE Letters = 0
          <5>1. 1..Letters = {}
            BY <4>2
          <5> QED BY <4>2, <5>1, FS_EmptySet
        <4>3. CASE Letters >= 1
          <5>1. Cardinality(1..Letters) = Letters - 1 + 1
            BY <1>1, <4>3, FS_Interval
          <5> QED BY <1>1, <4>1, <5>1
        <4> QED BY <1>1, <4>2, <4>3
      <3>3. ExistsBijection(1..Letters, All)
        BY <3>1 DEF ExistsBijection
      <3> HIDE DEF All, f
      <3> QED BY <3>2, <3>3, FS_Bijection
    <2>3. SumSizes(All) = Cardinality(All) * n
      <3>1. \A s \in All : s.size = n
        OBVIOUS
      <3> HIDE DEF All, n
      <3> QED BY <1>1, <2>1, <3>1, SumOfEqual
    <2> HIDE DEF All
    <2>4. SumSizes(All) <= SumSizes(On(g, Used))
      BY <1>3, <2>1, SumOfSubset
    <2>5. Letters * n >= Unit
      BY <1>1 DEF EnoughLetters
    <2>6. SumSizes(On(g, Used)) \in Nat
      BY <1>3, UnitsFinite
    <2>7. SumSizes(All) = Letters * n
      BY <2>2, <2>3
    <2>8. SumSizes(All) >= Unit
      BY <2>5, <2>7
    <2> HIDE DEF n
    <2>9. available[g] >= n
      BY DEF n
    <2> QED BY <1>1, <1>4, <2>4, <2>6, <2>7, <2>8, <2>9
  <1>6. Min(free) \in free
    <2>1. free \in SUBSET Nat
      BY <1>1
    <2> HIDE DEF free
    <2>2. \E x \in free : \A y \in free : x <= y
      BY <1>5, <2>1, LeastNatural
    <2> QED BY <2>2 DEF Min
  <1>7. Named(g, n) = N(Min(free))
    BY <1>5 DEF Named
  <1>8. Min(free) \in 1..Letters /\ N(Min(free)) \notin allocated
    BY <1>6
  <1> HIDE DEF free
  <1>9. N(Min(free)) \notin Used
    <2>1. ~IsWhole(N(Min(free)))
      BY <1>1 DEF IsWhole
    <2> QED BY <1>4, <1>8, <2>1
  <1> QED BY <1>1, <1>2, <1>7, <1>8, <1>9

-----------------------------------------------------------------------------
(* The invariant is inductive: one lemma for each action.                  *)

\* Slots that nothing counted uses, granted to the task held, from GPUs that
\* have that much left.
LEMMA GrantStep ==
  ASSUME Inv, NEW S \in SUBSET Slots, NEW left, pc = "alloc",
         Grant(S, left), UNCHANGED <<queue, known, qi, seen, faults>>,
         S # {}, S \cap Used = {}, Proper(S),
         SumSizes(S) >= MinGpu(qi), SumSizes(S) <= MaxGpu(qi),
         DOMAIN left \subseteq DOMAIN available,
         \A s \in S : s.gpu \in DOMAIN available,
         \A g \in DOMAIN available : SumSizes(On(g, S)) <= available[g],
         \A g \in DOMAIN left : left[g] = available[g] - SumSizes(On(g, S)),
         \A g \in DOMAIN available \ DOMAIN left : SumSizes(On(g, S)) >= Unit
  PROVE  Inv'
  <1> USE DEF Inv
  <1>1. /\ held \in Tasks /\ pc' = "launch" /\ held' = held /\ child' = child
        /\ child[held] = "none" /\ slots[held] = {}
        /\ slots' = [slots EXCEPT ![held] = S]
    BY DEF Grant, Control, TypeOK, QueuesApart, Fresh
  <1>2. slots'[held] = S /\ \A t \in Tasks : t # held => slots'[t] = slots[t]
    BY <1>1 DEF TypeOK
  <1>3. Live' = Live /\ Holding' = Holding /\ held \notin Live /\ Engaged' = Live \cup {held}
        /\ Holding = Live \cup {held} /\ Engaged = Live
    BY <1>1 DEF Live, Holding, Engaged
  <1>4. /\ reserved' = reserved \cup S /\ expired' = expired \ S
        /\ Used' = Used \cup S /\ known' = known /\ seen' = seen
    BY DEF Grant, Used
  <1>5. UNION known \subseteq Used /\ \A t \in Holding : slots[t] \subseteq Used
    BY DEF Accounted, Passing
  <1>6. TypeOK'
    <2>1. \A g \in DOMAIN left : left[g] \in -Unit..Unit
      <3>1. ASSUME NEW g \in DOMAIN left PROVE left[g] \in -Unit..Unit
        <4>1. available[g] \in -Unit..Unit /\ SumSizes(On(g, S)) <= available[g]
              /\ left[g] = available[g] - SumSizes(On(g, S))
          BY DEF TypeOK
        <4>2. SumSizes(On(g, S)) \in Nat /\ Unit \in Nat
          BY UnitsFinite, ConstantsAssumption DEF On
        <4> QED BY <4>1, <4>2
      <3> QED BY <3>1
    <2>2. slots' \in [Tasks -> SUBSET Slots]
      BY <1>1 DEF TypeOK
    <2>3. allocated' \subseteq Slots /\ reserved' \subseteq Slots /\ expired' \subseteq reserved'
      BY DEF TypeOK, Grant
    <2>4. DOMAIN owner' \subseteq Slots /\ \A s \in DOMAIN owner' : owner'[s] \in Tasks
      BY <1>1 DEF TypeOK, Grant
    <2>5. published' \in BOOLEAN
      BY DEF Grant
    <2>6. pc' \in PCs
      BY <1>1 DEF PCs
    <2>7. DOMAIN available' \subseteq Gpus /\ \A g \in DOMAIN available' : available'[g] \in -Unit..Unit
      BY <2>1 DEF TypeOK, Grant
    <2>8. missed' \subseteq Tasks
      BY DEF TypeOK, Grant
    <2> QED BY <1>1, <2>2, <2>3, <2>4, <2>5, <2>6, <2>7, <2>8 DEF TypeOK
  <1>7. Control'
    <2>1. \A g \in DOMAIN available' : available'[g] <= Unit
      BY <1>6, ConstantsAssumption DEF TypeOK
    <2> QED BY <1>1, <2>1 DEF Control
  <1>8. QueuesApart'
    <2>1. queue' = queue
      OBVIOUS
    <2>2. \A q \in Queues : \A t \in queue[q] : t \in Tasks /\ t # held
      BY DEF QueuesApart, TypeOK
    <2> QED BY <1>1, <1>2, <2>1, <2>2 DEF QueuesApart, Fresh
  <1>9. ProperNames'
    BY <1>2, <1>4 DEF ProperNames, Proper
  <1>10. \A t \in Live : Covered(t)'
    <2> TAKE t \in Live
    <2>1. t # held /\ t \in Tasks /\ Covered(t)
      BY <1>3 DEF AllCovered, Live
    <2>2. slots[t] \cap S = {}
      BY <1>3, <1>5
    <2>3. t \notin missed' => \A s \in slots[t] : s \in DOMAIN owner' /\ owner'[s] = t
      BY <2>1, <2>2 DEF Covered, Grant
    <2> QED BY <1>2, <1>4, <2>1, <2>3 DEF Covered
  <1>11. Covered(held)'
    <2>1. \A s \in S : s \in DOMAIN owner' /\ owner'[s] = held
      BY DEF Grant
    <2> QED BY <1>1, <1>2, <1>4, <2>1 DEF Covered
  <1>12. AllCovered'
    <2>1. S \notin known
      BY <1>5
    <2> QED BY <1>1, <1>2, <1>3, <1>4, <1>10, <1>11, <2>1 DEF AllCovered
  <1>13. SuffixesDiffer'
    BY <1>2, <1>3, <1>5 DEF SuffixesDiffer, Holding
  <1>14. KnownApart'
    <2>1. ASSUME NEW t \in Live, NEW w \in known PROVE w = slots'[t] \/ w \cap slots'[t] = {}
      BY <1>2, <1>3 DEF KnownApart, Live
    <2>2. ASSUME NEW w \in known PROVE w \cap slots'[held] = {}
      BY <1>2, <1>5
    <2> QED BY <1>3, <1>4, <2>1, <2>2 DEF KnownApart
  <1>15. AnswerHolds'
    BY <1>1 DEF AnswerHolds
  <1>16. ASSUME NEW g \in Gpus
         PROVE  /\ SumSizes(On(g, Used \cup S)) = SumSizes(On(g, Used)) + SumSizes(On(g, S))
                /\ SumSizes(On(g, Used')) = SumSizes(On(g, Used)) + SumSizes(On(g, S))
                /\ SumSizes(On(g, Used)) \in Nat /\ SumSizes(On(g, S)) \in Nat
                /\ On(g, Used \cup S) \in SUBSET Slots
    <2>1. On(g, Used) \in SUBSET Slots /\ On(g, S) \in SUBSET Slots
      BY UsedType DEF On
    <2>2. On(g, Used) \cap On(g, S) = {} /\ On(g, Used \cup S) = On(g, Used) \cup On(g, S)
      BY DEF On
    <2>3. On(g, Used') = On(g, Used \cup S)
      BY <1>4
    <2>4. SumSizes(On(g, Used)) \in Nat /\ SumSizes(On(g, S)) \in Nat
      BY <2>1, UnitsFinite
    <2>5. SumSizes(On(g, Used \cup S)) = SumSizes(On(g, Used)) + SumSizes(On(g, S))
      BY <2>1, <2>2, SumOfUnion
    <2>6. SumSizes(On(g, Used')) = SumSizes(On(g, Used \cup S))
      BY <2>3
    <2> QED BY <2>1, <2>2, <2>4, <2>5, <2>6
  <1>17. Accounted'
    <2>1. \A t \in Holding : slots'[t] \subseteq Used'
      BY <1>2, <1>4, <1>5 DEF Holding
    <2>2. {s \in Used' : ~IsWhole(s)} \subseteq allocated' /\ allocated' \subseteq Used'
      BY <1>4 DEF Accounted, Passing, Grant
    <2>3. ASSUME NEW g \in DOMAIN available'
          PROVE  available'[g] = Unit - SumSizes(On(g, Used')) /\ available'[g] >= 0
      <3>1. g \in DOMAIN available /\ g \in Gpus /\ g \in DOMAIN left
        BY DEF Grant, TypeOK
      <3>2. available'[g] = available[g] - SumSizes(On(g, S)) /\ SumSizes(On(g, S)) <= available[g]
        BY <3>1 DEF Grant
      <3>3. available[g] = Unit - SumSizes(On(g, Used))
        BY <3>1 DEF Accounted, Passing
      <3> QED BY <1>16, <3>1, <3>2, <3>3, ConstantsAssumption
    <2>4. ASSUME NEW g \in Gpus \ DOMAIN available'
          PROVE  SumSizes(On(g, Used')) >= Unit
      <3>1. CASE g \in DOMAIN available
        <4>1. SumSizes(On(g, S)) >= Unit
          BY <3>1 DEF Grant
        <4> QED BY <1>16, <4>1, ConstantsAssumption
      <3>2. CASE g \notin DOMAIN available
        <4>1. SumSizes(On(g, Used)) >= Unit
          BY <3>2 DEF Accounted, Passing
        <4> QED BY <1>16, <4>1, ConstantsAssumption
      <3> QED BY <3>1, <3>2
    <2>5. UNION known' \subseteq Used'
      BY <1>4, <1>5
    <2> QED BY <1>3, <2>1, <2>2, <2>3, <2>4, <2>5 DEF Accounted
  <1>18. GpusHold'
    <2>1. ASSUME NEW g \in Gpus PROVE SumSizes(Taking(g)') <= Unit
      <3>1. CASE g \in DOMAIN available
        <4>1. Taking(g)' \in SUBSET On(g, Used \cup S)
          BY <1>2, <1>3, <1>5 DEF Taking, On, Holding
        <4>2. SumSizes(Taking(g)') <= SumSizes(On(g, Used \cup S))
          BY <1>16, <4>1, SumOfSubset
        <4>3. available[g] = Unit - SumSizes(On(g, Used)) /\ SumSizes(On(g, S)) <= available[g]
          BY <3>1 DEF Accounted, Passing
        <4>4. SumSizes(Taking(g)') \in Nat
          BY <1>16, <4>1, UnitsFinite
        <4> QED BY <1>16, <4>2, <4>3, <4>4, ConstantsAssumption
      <3>2. CASE g \notin DOMAIN available
        <4>1. On(g, S) = {}
          BY <3>2 DEF On
        <4>2. Taking(g)' \in SUBSET Taking(g)
          BY <1>1, <1>2, <1>3, <4>1 DEF Taking, On, Holding
        <4>3. Taking(g) \in SUBSET Slots
          BY DEF Taking, On, Holding, TypeOK
        <4>4. SumSizes(Taking(g)') <= SumSizes(Taking(g)) /\ SumSizes(Taking(g)) <= Unit
          BY <4>2, <4>3, SumOfSubset DEF GpusHold
        <4>5. SumSizes(Taking(g)') \in Nat /\ SumSizes(Taking(g)) \in Nat
          BY <4>2, <4>3, UnitsFinite
        <4> QED BY <4>4, <4>5, ConstantsAssumption
      <3> QED BY <3>1, <3>2
    <2>2. \A g \in Gpus : SumSizes(Taking(g))' = SumSizes(Taking(g)')
      BY DEF SumSizes, Units
    <2> QED BY <2>1, <2>2 DEF GpusHold
  <1>19. EnoughGpus'
    BY <1>1, <1>2 DEF EnoughGpus
  <1> QED BY <1>6, <1>7, <1>8, <1>9, <1>12, <1>13, <1>14, <1>15, <1>17, <1>18, <1>19

\* The daemon moves on with no task in hand and leaves all else alone.
LEMMA MoveStep ==
  ASSUME Inv, held' = NoTask, qi' \in Queues, faults' \in 0..MaxFaults,
         pc' \in {"top", "props", "peek", "pull"},
         pc' # "top" => pc \in Passing,
         pc' = "pull" => qi' = qi /\ ~NotEnough(qi),
         UNCHANGED <<serverVars, seen, available, ledgerVars, childVars>>
  PROVE  Inv'
  <1> USE DEF Inv, serverVars, ledgerVars, childVars
  <1>1. NoTask \notin Tasks
    BY ConstantsAssumption
  <1>2. Live' = Live /\ Holding' = Live /\ Engaged' = Live
        /\ Live \subseteq Holding /\ Live \subseteq Engaged /\ Used' = Used
    BY <1>1 DEF Live, Holding, Engaged, Used
  <1>3. TypeOK'
    BY DEF TypeOK, PCs
  <1>4. Control'
    <2>1. MostAvailable' = MostAvailable
      <3>1. Whole' = Whole /\ available' = available
        BY DEF Whole
      <3> QED BY <3>1 DEF MostAvailable
    <2>2. pc' = "pull" => ~NotEnough(qi)'
      BY <2>1 DEF NotEnough, MinGpu
    <2> QED BY <2>2 DEF Control
  <1>5. QueuesApart'
    <2>1. \A q \in Queues : queue[q] \subseteq Tasks
      BY DEF TypeOK
    <2> QED BY <1>1, <2>1 DEF QueuesApart, Fresh
  <1>6. ProperNames'
    BY <1>2 DEF ProperNames, Proper
  <1>7. AllCovered'
    BY <1>2 DEF AllCovered, Covered
  <1>8. SuffixesDiffer' /\ KnownApart'
    BY <1>2 DEF SuffixesDiffer, KnownApart
  <1>9. AnswerHolds'
    BY DEF AnswerHolds
  <1>10. Accounted'
    BY <1>2 DEF Accounted, Passing, On, SumSizes, Units, IsWhole
  <1>11. GpusHold'
    <2>1. ASSUME NEW g \in Gpus PROVE SumSizes(Taking(g)') <= Unit
      <3>1. Taking(g)' \in SUBSET Taking(g) /\ Taking(g) \in SUBSET Slots
        BY <1>2 DEF Taking, On, Holding, TypeOK
      <3>2. SumSizes(Taking(g)') <= SumSizes(Taking(g)) /\ SumSizes(Taking(g)) <= Unit
        BY <3>1, SumOfSubset DEF GpusHold
      <3>3. SumSizes(Taking(g)') \in Nat /\ SumSizes(Taking(g)) \in Nat
        BY <3>1, UnitsFinite
      <3> QED BY <3>2, <3>3, ConstantsAssumption
    <2>2. \A g \in Gpus : SumSizes(Taking(g))' = SumSizes(Taking(g)')
      BY DEF SumSizes, Units
    <2> QED BY <2>1, <2>2 DEF GpusHold
  <1>12. EnoughGpus'
    BY DEF EnoughGpus
  <1> QED BY <1>3, <1>4, <1>5, <1>6, <1>7, <1>8, <1>9, <1>10, <1>11, <1>12

\* What is left of the holders keeps the bound.
LEMMA HoldsLess ==
  ASSUME TypeOK, GpusHold, \A g \in Gpus : Taking(g)' \in SUBSET Taking(g)
  PROVE  GpusHold'
  <1>1. ASSUME NEW g \in Gpus PROVE SumSizes(Taking(g)') <= Unit
    <2>1. Taking(g)' \in SUBSET Taking(g) /\ Taking(g) \in SUBSET Slots
      BY DEF Taking, On, Holding, TypeOK
    <2>2. SumSizes(Taking(g)') <= SumSizes(Taking(g)) /\ SumSizes(Taking(g)) <= Unit
      BY <2>1, SumOfSubset DEF GpusHold
    <2>3. SumSizes(Taking(g)') \in Nat /\ SumSizes(Taking(g)) \in Nat
      BY <2>1, UnitsFinite
    <2> QED BY <2>2, <2>3, ConstantsAssumption
  <1>2. \A g \in Gpus : SumSizes(Taking(g))' = SumSizes(Taking(g)')
    BY DEF SumSizes, Units
  <1> QED BY <1>1, <1>2 DEF GpusHold

\* The daemon leaves its loop: the containers it leaves alive are those that
\* docker did not stop, now or before, as it has a record of each.
LEMMA CrashStep ==
  ASSUME Inv, Crash, qi' \in Queues, faults' \in 0..MaxFaults, published' \in BOOLEAN,
         queue' \in [Queues -> SUBSET Tasks], \A q \in Queues : queue'[q] \subseteq queue[q],
         UNCHANGED <<known, seen, available, allocated, reserved, expired, slots>>
  PROVE  Inv'
  <1> USE DEF Inv
  <1>1. NoTask \notin Tasks /\ pc' = "setup" /\ held' = NoTask /\ owner' = <<>>
    BY ConstantsAssumption DEF Crash
  <1>2. PICK left \in SUBSET Recorded :
          /\ child' = [t \in Tasks |-> IF t \in Recorded \ left THEN "shut" ELSE child[t]]
          /\ missed' = missed \cup left
    BY DEF Crash
  <1>3. /\ Recorded \subseteq Live /\ Live \subseteq Tasks
        /\ \A t \in Tasks : t \notin Live => child'[t] = child[t]
    BY <1>2 DEF Recorded, Live
  <1>4. Live' \subseteq Live /\ Live' \subseteq missed'
    <2>1. Live' \subseteq Live
      BY <1>3 DEF Live
    <2>2. ASSUME NEW t \in Live', t \notin missed
          PROVE  t \in left
      <3>1. t \in Live /\ t \in Tasks /\ Covered(t)
        BY <1>3, <2>1 DEF AllCovered, Engaged
      <3>2. t \in Recorded
        BY <2>2, <3>1 DEF Covered, Recorded
      <3>3. child'[t] # "shut"
        BY DEF Live
      <3> QED BY <1>2, <3>1, <3>2, <3>3
    <2> QED BY <1>2, <2>1, <2>2
  <1>5. Holding' = Live' /\ Engaged' = Live' /\ Used' = Used
        /\ Live' \subseteq Holding /\ Live' \subseteq Engaged
    BY <1>1, <1>4 DEF Holding, Engaged, Used, Live
  <1>6. TypeOK'
    <2>1. child' \in [Tasks -> ChildStates]
      BY <1>2 DEF TypeOK, ChildStates
    <2>2. DOMAIN owner' = {}
      BY <1>1
    <2>3. missed' \subseteq Tasks
      BY <1>2, <1>3 DEF TypeOK
    <2> QED BY <1>1, <2>1, <2>2, <2>3 DEF TypeOK, PCs
  <1>7. Control'
    BY <1>1 DEF Control
  <1>8. QueuesApart'
    <2>1. \A q \in Queues : queue'[q] \subseteq Tasks
      OBVIOUS
    <2>2. \A q \in Queues : \A t \in queue'[q] : t \notin Live
      BY <2>1 DEF QueuesApart, Fresh, Live
    <2> QED BY <1>1, <1>3, <2>1, <2>2 DEF QueuesApart, Fresh
  <1>9. ProperNames'
    BY <1>5 DEF ProperNames, Proper
  <1>10. AllCovered'
    <2>1. \A t \in Live' : Covered(t)'
      BY <1>4, <1>5 DEF AllCovered, Covered
    <2> QED BY <1>1, <1>4, <1>5, <2>1 DEF AllCovered
  <1>11. SuffixesDiffer' /\ KnownApart'
    BY <1>5 DEF SuffixesDiffer, KnownApart
  <1>12. AnswerHolds' /\ Accounted' /\ EnoughGpus'
    BY <1>1 DEF AnswerHolds, Accounted, Passing, EnoughGpus
  <1>13. GpusHold'
    <2>1. \A g \in Gpus : Taking(g)' \in SUBSET Taking(g)
      BY <1>5 DEF Taking, On
    <2> QED BY <2>1, HoldsLess
  <1> QED BY <1>6, <1>7, <1>8, <1>9, <1>10, <1>11, <1>12, <1>13

LEMMA AllocateStep ==
  ASSUME Inv, Dependable, Allocate
  PROVE  Inv'
  <1> USE DEF Inv
  <1>1. pc = "alloc" /\ qi \in Queues /\ ~NotEnough(qi) /\ UNCHANGED <<queue, known, qi, seen>>
    BY DEF Allocate, Control, TypeOK
  <1>2. CASE FractionFails(qi)
    <2>1. Crash /\ faults' \in 0..MaxFaults
      BY <1>2, ConstantsAssumption DEF FractionFails, Fault, TypeOK
    <2> QED BY <1>1, <1>2, <2>1, CrashStep DEF FractionFails, TypeOK
  <1>3. ASSUME NEW g \in DOMAIN available
        PROVE  available[g] \in Int /\ available[g] <= Unit /\ available[g] >= 0 /\ g \in Gpus
               /\ available[g] = Unit - SumSizes(On(g, Used))
    BY <1>1, ConstantsAssumption DEF TypeOK, Accounted, Passing
  <1>4. CASE TakeWhole(qi) /\ UNCHANGED faults
    <2> DEFINE G == FirstWhole(qi)
               S == {WholeSlot(g) : g \in G}
               left == [g \in DOMAIN available \ G |-> available[g]]
    <2>1. Grant(S, left) /\ MaxGpu(qi) >= Unit /\ Whole # {}
      BY <1>4 DEF TakeWhole
    <2>2. /\ G \in SUBSET Whole /\ G # {} /\ Cardinality(G) \in Nat
          /\ Cardinality(G) * Unit >= MinGpu(qi) /\ Cardinality(G) * Unit <= MaxGpu(qi)
      BY <1>1, <2>1, WholeTaken
    <2>3. Whole \subseteq DOMAIN available /\ Whole \subseteq Gpus
      BY DEF Whole, TypeOK
    <2>4. S \in SUBSET Slots /\ S # {}
      <3>1. \A g \in Gpus : WholeSlot(g) \in Slots
        BY ConstantsAssumption DEF WholeSlot, Slots
      <3>2. G \subseteq Gpus /\ G # {}
        BY <2>2, <2>3
      <3> HIDE DEF G
      <3> QED BY <3>1, <3>2
    <2>5. Proper(S)
      BY DEF WholeSlot, Proper, IsWhole
    <2>6. SumSizes(S) = Cardinality(G) * Unit
      <3> DEFINE f == [g \in G |-> WholeSlot(g)]
      <3>1. f \in Bijection(G, S)
        BY DEF Bijection, Injection, IsInjective, Surjection, WholeSlot
      <3>2. ExistsBijection(G, S)
        BY <3>1 DEF ExistsBijection
      <3>3. IsFiniteSet(G)
        <4>1. G \subseteq Gpus
          BY <2>2, <2>3
        <4> QED BY <4>1, ConstantsAssumption, FS_Subset
      <3>4. \A s \in S : s.size = Unit
        BY DEF WholeSlot
      <3> HIDE DEF S, G, f
      <3>5. Cardinality(S) = Cardinality(G)
        BY <3>2, <3>3, FS_Bijection
      <3>6. Unit \in 1..Unit
        BY ConstantsAssumption
      <3>7. SumSizes(S) = Cardinality(S) * Unit
        BY <2>4, <3>4, <3>6, SumOfEqual
      <3> QED BY <3>5, <3>7
    <2>7. \A g \in G : /\ g \in DOMAIN available /\ available[g] = Unit
                       /\ SumSizes(On(g, Used)) = 0 /\ On(g, Used) = {}
      <3> TAKE g \in G
      <3>1. g \in DOMAIN available /\ available[g] >= Unit
        BY <2>2 DEF Whole
      <3>2. On(g, Used) \in SUBSET Slots /\ SumSizes(On(g, Used)) \in Nat
        BY UsedType, UnitsFinite DEF On
      <3>3. available[g] = Unit /\ SumSizes(On(g, Used)) = 0
        BY <1>3, <3>1, <3>2, ConstantsAssumption
      <3>4. ASSUME NEW s \in On(g, Used) PROVE FALSE
        <4>1. SumSizes(On(g, Used)) >= s.size /\ s.size >= 1
          BY <3>2, SumOfMember
        <4>2. s.size \in Int
          BY <3>2, SlotType
        <4> QED BY <3>3, <4>1, <4>2
      <3> QED BY <3>1, <3>3, <3>4
    <2>8. S \cap Used = {}
      BY <2>7 DEF On, WholeSlot
    <2>9. \A s \in S : s.gpu \in DOMAIN available
      BY <2>7 DEF WholeSlot
    <2>10. \A g \in G : SumSizes(On(g, S)) = Unit
      <3> TAKE g \in G
      <3>1. On(g, S) = {WholeSlot(g)} /\ WholeSlot(g) \in Slots /\ WholeSlot(g).size = Unit
        BY <2>4 DEF On, WholeSlot
      <3> QED BY <3>1, SumOfOne
    <2>11. \A g \in DOMAIN available \ G : SumSizes(On(g, S)) = 0
      <3> TAKE g \in DOMAIN available \ G
      <3>1. On(g, S) = {}
        BY DEF On, WholeSlot
      <3> QED BY <3>1, SumOfEmpty
    <2>12. \A g \in DOMAIN available : SumSizes(On(g, S)) <= available[g]
      <3> TAKE g \in DOMAIN available
      <3> HIDE DEF S, G
      <3>1. CASE g \in G
        BY <1>3, <2>7, <2>10, <3>1
      <3>2. CASE g \notin G
        BY <1>3, <2>11, <3>2
      <3> QED BY <3>1, <3>2
    <2>13. /\ DOMAIN left \subseteq DOMAIN available
           /\ \A g \in DOMAIN left : left[g] = available[g] - SumSizes(On(g, S))
           /\ \A g \in DOMAIN available \ DOMAIN left : SumSizes(On(g, S)) >= Unit
      BY <1>3, <2>10, <2>11, ConstantsAssumption
    <2> HIDE DEF S, G, left
    <2>14. SumSizes(S) >= MinGpu(qi) /\ SumSizes(S) <= MaxGpu(qi)
      BY <2>2, <2>6
    <2> QED BY <1>1, <1>4, <2>1, <2>4, <2>5, <2>8, <2>9, <2>12, <2>13, <2>14, GrantStep
  <1>5. ~TakePartial(qi)
    BY <1>1, NothingPartial DEF TakePartial, Dependable
  <1>6. CASE TakeFraction(qi) /\ UNCHANGED faults
    <2>1. PICK g \in BestFit(qi) :
             Grant(SlotsOfShare(g, Request(qi)), Reduced(g, Request(qi)))
      BY <1>6 DEF TakeFraction
    <2>2. MaxGpu(qi) < Unit /\ Request(qi) = MaxGpu(qi)
      BY <1>1, <1>6, NothingPartial, RequestIs DEF TakeFraction, Dependable
    <2> DEFINE n == MaxGpu(qi)
               s == Named(g, n)
               left == Reduced(g, n)
    <2>3. g \in DOMAIN available /\ available[g] >= n
      BY <1>1, <2>1, <2>2, FitTaken
    <2>4. s \in Slots \ Used /\ s.gpu = g /\ s.size = n /\ s.letter # 0
      BY <1>1, <2>2, <2>3, LetterLeft DEF Dependable, Passing
    <2>5. Grant({s}, left)
      BY <2>1, <2>2 DEF SlotsOfShare
    <2>6. n \in Nat \ {0} /\ MinGpu(qi) \in Nat /\ MinGpu(qi) <= n /\ Unit \in Nat /\ n < Unit
      BY <1>1, <2>2, QueueFacts, ConstantsAssumption
    <2>7. SumSizes({s}) = n
      <3> HIDE DEF s, n
      <3> QED BY <2>4, SumOfOne
    <2>8. DOMAIN left = DOMAIN available
      BY DEF Reduced
    <2>9. \A h \in DOMAIN available : SumSizes(On(h, {s})) = IF h = g THEN n ELSE 0
      <3> HIDE DEF s, n
      <3>1. On(g, {s}) = {s}
        BY <2>4 DEF On
      <3>2. \A h \in DOMAIN available : h # g => On(h, {s}) = {}
        BY <2>4 DEF On
      <3> QED BY <2>7, <3>1, <3>2, SumOfEmpty
    <2>10. \A h \in DOMAIN available : left[h] = IF h = g THEN available[h] - n ELSE available[h]
      BY DEF Reduced
    <2> HIDE DEF s, n, left
    <2>11. \A h \in DOMAIN available : SumSizes(On(h, {s})) <= available[h]
      BY <1>3, <2>3, <2>6, <2>9
    <2>12. \A h \in DOMAIN left : left[h] = available[h] - SumSizes(On(h, {s}))
      BY <1>3, <2>6, <2>8, <2>9, <2>10
    <2>13. Proper({s})
      BY <2>4, <2>6 DEF Proper, IsWhole
    <2>14. {s} \in SUBSET Slots /\ {s} # {} /\ {s} \cap Used = {} /\ \A x \in {s} : x.gpu \in DOMAIN available
      BY <2>3, <2>4
    <2>15. SumSizes({s}) >= MinGpu(qi) /\ SumSizes({s}) <= MaxGpu(qi)
      BY <2>6, <2>7 DEF n
    <2> QED BY <1>1, <1>6, <2>5, <2>8, <2>11, <2>12, <2>13, <2>14, <2>15, GrantStep
  <1> QED BY <1>2, <1>4, <1>5, <1>6 DEF Allocate

\* The passes start over from the names of the server's workers and the
\* reservations that stand.
LEMMA AccountStep ==
  ASSUME Inv, AccountReservations
  PROVE  Inv'
  <1> USE DEF Inv
  <1> DEFINE used(g) == Registered(g) + SumSizes(On(g, StillPending))
             counted == (UNION seen) \cup StillPending
  <1>1. /\ pc = "account" /\ held = NoTask /\ pc' \in {"top", "props"} /\ qi' \in Queues
        /\ UNCHANGED <<serverVars, held, seen, owner, childVars, faults>>
        /\ reserved' = StillPending /\ expired' = {} /\ allocated' = counted
    <2>1. pc = "account" /\ held = NoTask
      BY DEF AccountReservations, Control
    <2>2. pc' \in {"top", "props"} /\ qi' \in Queues
      BY QueueFacts DEF AccountReservations, EnterPass, TypeOK
    <2> QED BY <2>1, <2>2 DEF AccountReservations
  <1>2. StillPending \in SUBSET Slots /\ counted \in SUBSET Slots /\ Used' = counted
        /\ StillPending \subseteq reserved \ expired /\ StillPending \cap UNION seen = {}
    <2>1. StillPending \in SUBSET Slots /\ UNION seen \in SUBSET Slots
      BY UsedType DEF StillPending
    <2>2. Used' = counted
      BY <1>1 DEF Used
    <2> HIDE DEF counted
    <2>3. counted \in SUBSET Slots
      BY <2>1 DEF counted
    <2> QED BY <2>1, <2>2, <2>3 DEF StillPending
  <1>3. /\ Live' = Live /\ Holding' = Live /\ Engaged' = Live /\ Holding = Live /\ Engaged = Live
        /\ slots' = slots /\ child' = child /\ known' = known /\ queue' = queue
    <2>1. NoTask \notin Tasks /\ child' = child /\ pc # "launch" /\ pc' # "launch"
      BY <1>1, ConstantsAssumption DEF childVars
    <2> QED BY <1>1, <2>1 DEF childVars, serverVars, Live, Holding, Engaged
  <1>4. ASSUME NEW g \in Gpus
        PROVE  /\ used(g) < Unit => used(g) = SumSizes(On(g, counted))
               /\ used(g) >= Unit => SumSizes(On(g, counted)) >= Unit
               /\ used(g) \in Nat /\ SumSizes(On(g, counted)) \in Nat
    <2> DEFINE mine == On(g, UNION seen)
               pending == On(g, StillPending)
    <2>1. mine \in SUBSET Slots /\ pending \in SUBSET Slots /\ mine \cap pending = {}
          /\ On(g, counted) = mine \cup pending
      BY <1>2, UsedType DEF On
    <2>2. SumSizes(On(g, counted)) = SumSizes(mine) + SumSizes(pending)
          /\ SumSizes(mine) \in Nat /\ SumSizes(pending) \in Nat
      <3> HIDE DEF mine, pending, counted
      <3> QED BY <2>1, SumOfUnion, UnitsFinite
    <2>3. CASE \E s \in mine : IsWhole(s)
      <3>1. PICK s \in mine : IsWhole(s)
        BY <2>3
      <3>2. Registered(g) = Unit
        BY <2>3 DEF Registered
      <3>3. SumSizes(mine) >= s.size
        <4> HIDE DEF mine
        <4> QED BY <2>1, <3>1, SumOfMember
      <3>4. SumSizes(mine) >= Unit
        BY <3>1, <3>3 DEF IsWhole
      <3> HIDE DEF mine, counted
      <3>5. used(g) = Unit + SumSizes(pending)
        BY <3>2
      <3> HIDE DEF pending, used
      <3> QED BY <2>2, <3>4, <3>5, ConstantsAssumption
    <2>4. CASE ~\E s \in mine : IsWhole(s)
      <3>1. {s \in mine : s.letter # 0} = mine
        <4>1. \A s \in mine : s \in UNION seen
          BY DEF On
        <4>2. \A s \in UNION seen : IsWhole(s) <=> s.letter = 0
          BY DEF ProperNames, Proper, Used
        <4> HIDE DEF mine
        <4> QED BY <2>4, <4>1, <4>2
      <3>2. Registered(g) = SumSizes(mine)
        BY <2>4, <3>1 DEF Registered
      <3> HIDE DEF mine, counted
      <3>3. used(g) = SumSizes(mine) + SumSizes(pending)
        BY <3>2
      <3> HIDE DEF pending, used
      <3> QED BY <2>2, <3>3, ConstantsAssumption
    <2> QED BY <2>3, <2>4
  <1> DEFINE free == {g \in Gpus : used(g) < Unit}
  <1>5. available' = [g \in free |-> Unit - used(g)]
    BY DEF AccountReservations
  <1> HIDE DEF used
  <1>6. DOMAIN available' = free
        /\ \A g \in free : /\ available'[g] = Unit - SumSizes(On(g, counted))
                           /\ available'[g] \in 0..Unit
    <2>1. \A g \in free : available'[g] = Unit - used(g) /\ g \in Gpus
      BY <1>5
    <2> HIDE DEF counted
    <2> QED BY <1>4, <1>5, <2>1, ConstantsAssumption
  <1>7. TypeOK'
    <2>1. DOMAIN available' \subseteq Gpus /\ \A g \in DOMAIN available' : available'[g] \in -Unit..Unit
      <3>1. \A x \in 0..Unit : x \in -Unit..Unit
        BY ConstantsAssumption
      <3>2. free \subseteq Gpus
        OBVIOUS
      <3> HIDE DEF free, counted
      <3> QED BY <1>6, <3>1, <3>2
    <2> HIDE DEF counted, free
    <2> QED BY <1>1, <1>2, <2>1 DEF TypeOK, PCs, serverVars, childVars
  <1>8. Control'
    <2>1. \A g \in DOMAIN available' : available'[g] <= Unit
      <3>1. \A x \in 0..Unit : x <= Unit
        OBVIOUS
      <3> HIDE DEF free, counted
      <3> QED BY <1>6, <3>1
    <2> QED BY <1>1, <2>1 DEF Control
  <1> HIDE DEF free
  <1>9. QueuesApart'
    BY <1>1, <1>3 DEF QueuesApart, Fresh
  <1>10. ProperNames'
    <2>1. \A s \in counted : s \in Used
      BY <1>2 DEF Used
    <2> HIDE DEF counted
    <2> QED BY <1>2, <1>3, <2>1 DEF ProperNames, Proper
  <1>11. ASSUME NEW t \in Live
         PROVE  /\ slots[t] \in known \/ slots[t] \subseteq StillPending
                /\ slots[t] \subseteq counted
    <2>1. slots[t] \in known \/ slots[t] \subseteq reserved \ expired
      BY <1>3 DEF AllCovered, Covered
    <2>2. CASE slots[t] \in known
      <3>1. slots[t] \subseteq UNION known
        BY <2>2
      <3>2. UNION known \subseteq (UNION seen) \cup (reserved \ expired)
        BY <1>1 DEF AnswerHolds
      <3>3. (UNION seen) \cup (reserved \ expired) \subseteq counted
        BY DEF StillPending
      <3> HIDE DEF counted
      <3> QED BY <2>2, <3>1, <3>2, <3>3
    <2>3. CASE slots[t] \notin known
      <3>1. \A w \in seen : w \cap slots[t] = {}
        BY <1>1, <2>3 DEF AnswerHolds
      <3>2. slots[t] \cap UNION seen = {}
        BY <3>1
      <3> QED BY <2>1, <2>3, <3>2 DEF StillPending
    <2> QED BY <2>2, <2>3
  <1>12. AllCovered'
    <2>1. ASSUME NEW t \in Live PROVE Covered(t)'
      <3>1. Covered(t)
        BY <1>3 DEF AllCovered
      <3>2. missed' = missed
        BY DEF AccountReservations, childVars
      <3> QED BY <1>1, <1>3, <1>11, <3>1, <3>2 DEF Covered
    <2> QED BY <1>1, <1>3, <2>1 DEF AllCovered
  <1>13. SuffixesDiffer' /\ KnownApart'
    BY <1>3 DEF SuffixesDiffer, KnownApart
  <1>14. AnswerHolds' /\ EnoughGpus'
    BY <1>1 DEF AnswerHolds, EnoughGpus
  <1>15. Accounted'
    <2>1. UNION known' \subseteq Used'
      <3>1. UNION known \subseteq (UNION seen) \cup (reserved \ expired)
        BY <1>1 DEF AnswerHolds
      <3>2. (UNION seen) \cup (reserved \ expired) \subseteq counted
        BY DEF StillPending
      <3> HIDE DEF counted
      <3> QED BY <1>2, <1>3, <3>1, <3>2
    <2> HIDE DEF counted
    <2>2. \A t \in Holding' : slots'[t] \subseteq Used'
      BY <1>2, <1>3, <1>11
    <2>3. {s \in Used' : ~IsWhole(s)} \subseteq allocated' /\ allocated' \subseteq Used'
      BY <1>1, <1>2
    <2>4. ASSUME NEW g \in DOMAIN available'
          PROVE  available'[g] = Unit - SumSizes(On(g, Used')) /\ available'[g] >= 0
      <3>1. On(g, Used') = On(g, counted)
        BY <1>2
      <3>2. available'[g] = Unit - SumSizes(On(g, counted)) /\ available'[g] >= 0
        BY <1>6, ConstantsAssumption
      <3> QED BY <3>1, <3>2
    <2>5. ASSUME NEW g \in Gpus \ DOMAIN available'
          PROVE  SumSizes(On(g, Used')) >= Unit
      <3>1. used(g) >= Unit
        BY <1>4, <1>6, ConstantsAssumption DEF free
      <3>2. SumSizes(On(g, counted)) >= Unit
        BY <1>4, <3>1
      <3> QED BY <1>2, <3>2
    <2> QED BY <2>1, <2>2, <2>3, <2>4, <2>5 DEF Accounted
  <1>16. GpusHold'
    <2>1. \A g \in Gpus : Taking(g)' = Taking(g)
      BY <1>3 DEF Taking, On
    <2>2. \A g \in Gpus : SumSizes(Taking(g))' = SumSizes(Taking(g)')
      BY DEF SumSizes, Units
    <2> QED BY <2>1, <2>2 DEF GpusHold
  <1> QED BY <1>7, <1>8, <1>9, <1>10, <1>12, <1>13, <1>14, <1>15, <1>16

LEMMA SetupStep ==
  ASSUME Inv, Setup
  PROVE  Inv'
  <1>1. held = NoTask /\ held' = held /\ qi' = qi /\ pc' = "top" /\ faults' = faults
    BY DEF Inv, Setup, Control
  <1>2. qi' \in Queues /\ faults' \in 0..MaxFaults
    BY <1>1 DEF Inv, TypeOK
  <1> QED BY <1>1, <1>2, MoveStep DEF Setup

\* The answer of the server: what it lists now is known, and what it does not
\* list yet stands in the ledger.
LEMMA QueryStep ==
  ASSUME Inv, QueryWorkers
  PROVE  Inv'
  <1> USE DEF Inv
  <1>1. pc = "top" /\ held = NoTask /\ held' = held /\ qi' = qi /\ qi \in Queues
    BY DEF QueryWorkers, Control, TypeOK
  <1>2. CASE Fault /\ UNCHANGED <<seen, pc>>
    <2>1. faults' \in 0..MaxFaults
      BY <1>2, ConstantsAssumption DEF Fault, TypeOK
    <2> QED BY <1>1, <1>2, <2>1, MoveStep DEF QueryWorkers
  <1>3. CASE seen' = known /\ pc' = "account" /\ UNCHANGED faults
    <2> USE DEF serverVars, ledgerVars, childVars
    <2>1. UNCHANGED <<serverVars, available, ledgerVars, childVars>>
      BY DEF QueryWorkers
    <2>2. Live' = Live /\ Holding' = Holding /\ Engaged' = Engaged /\ Engaged = Live
      BY <1>1, <1>3, <2>1 DEF Live, Holding, Engaged
    <2>3. TypeOK'
      BY <1>1, <1>3, <2>1 DEF TypeOK, PCs
    <2>4. Control'
      BY <1>1, <1>3, <2>1 DEF Control
    <2>5. QueuesApart'
      BY <1>1, <1>3, <2>1 DEF QueuesApart, Fresh
    <2>6. ProperNames'
      BY <1>3, <2>1 DEF ProperNames, Proper, Used
    <2>7. AllCovered'
      BY <1>3, <2>1, <2>2 DEF AllCovered, Covered
    <2>8. SuffixesDiffer' /\ KnownApart'
      BY <2>1, <2>2 DEF SuffixesDiffer, KnownApart
    <2>9. AnswerHolds'
      BY <1>3, <2>1, <2>2 DEF AnswerHolds, KnownApart
    <2>10. Accounted' /\ EnoughGpus'
      BY <1>3 DEF Accounted, Passing, EnoughGpus
    <2>11. GpusHold'
      <3>1. \A g \in Gpus : Taking(g)' = Taking(g)
        BY <2>1, <2>2 DEF Taking, On
      <3>2. \A g \in Gpus : SumSizes(Taking(g))' = SumSizes(Taking(g)')
        BY DEF SumSizes, Units
      <3> QED BY <3>1, <3>2 DEF GpusHold
    <2> QED BY <2>3, <2>4, <2>5, <2>6, <2>7, <2>8, <2>9, <2>10, <2>11
  <1> QED BY <1>2, <1>3 DEF QueryWorkers

LEMMA PropertiesStep ==
  ASSUME Inv, GetProperties
  PROVE  Inv'
  <1>1. pc = "props" /\ held = NoTask /\ qi' = qi /\ qi \in Queues
        /\ UNCHANGED <<serverVars, qi, seen, available, allocated, reserved, expired, slots>>
    BY DEF Inv, GetProperties, Control, TypeOK
  <1>2. CASE pc' = "peek" /\ UNCHANGED <<held, child, missed, owner, faults>>
    <2>1. faults' \in 0..MaxFaults /\ held' = NoTask /\ pc \in Passing
      BY <1>1, <1>2 DEF Inv, TypeOK, Passing
    <2> QED BY <1>1, <1>2, <2>1, MoveStep DEF ledgerVars, childVars
  <1>3. CASE Fault /\ Crash
    <2>1. faults' \in 0..MaxFaults /\ published' \in BOOLEAN
      BY <1>1, <1>3, ConstantsAssumption DEF Inv, TypeOK, Fault, serverVars
    <2> QED BY <1>1, <1>3, <2>1, CrashStep DEF Inv, TypeOK, serverVars
  <1> QED BY <1>2, <1>3 DEF GetProperties

LEMMA PeekStep ==
  ASSUME Inv, Peek
  PROVE  Inv'
  <1>1. /\ pc = "peek" /\ held = NoTask /\ qi \in Queues /\ pc \in Passing
        /\ UNCHANGED <<serverVars, seen, available, allocated, reserved, expired, slots>>
        /\ faults \in 0..MaxFaults /\ published' \in BOOLEAN
    BY DEF Inv, Peek, Control, TypeOK, Passing, serverVars
  <1>2. CASE Fault /\ pc' = "top" /\ UNCHANGED <<qi, held, child, missed, owner>>
    <2>1. faults' \in 0..MaxFaults
      BY <1>1, <1>2, ConstantsAssumption DEF Fault
    <2> QED BY <1>1, <1>2, <2>1, MoveStep DEF ledgerVars, childVars
  <1>3. CASE NextQueue /\ UNCHANGED <<held, child, missed, owner, faults>>
    <2>1. qi' \in Queues /\ pc' \in {"peek", "top"}
      BY <1>1, <1>3 DEF NextQueue
    <2> QED BY <1>1, <1>3, <2>1, MoveStep DEF ledgerVars, childVars
  <1>4. CASE Crash /\ UNCHANGED <<qi, faults>>
    BY <1>1, <1>4, CrashStep DEF Inv, TypeOK, serverVars
  <1>5. CASE pc' = (IF NotEnough(qi) THEN "top" ELSE "pull") /\ UNCHANGED <<qi, held, child, missed, owner, faults>>
    <2>1. pc' \in {"top", "pull"} /\ (pc' = "pull" => qi' = qi /\ ~NotEnough(qi))
      BY <1>5
    <2> QED BY <1>1, <1>5, <2>1, MoveStep DEF ledgerVars, childVars
  <1> QED BY <1>2, <1>3, <1>4, <1>5 DEF Peek

LEMMA ReturnStep ==
  ASSUME Inv, pc \in {"launch", "boot"}, AfterRun, faults' \in 0..MaxFaults,
         UNCHANGED <<serverVars, seen, available, ledgerVars, childVars>>
  PROVE  Inv'
  <1>1. held' = NoTask /\ pc' \in {"top", "props"} /\ qi' \in Queues /\ pc \in Passing
    BY DEF Inv, TypeOK, AfterRun, Passing
  <1> QED BY <1>1, MoveStep

LEMMA RunReturnsStep ==
  ASSUME Inv, RunReturns
  PROVE  Inv'
  <1>1. faults' \in 0..MaxFaults
    BY DEF Inv, TypeOK, RunReturns
  <1> QED BY <1>1, ReturnStep DEF RunReturns

\* The container of the task held comes alive.
LEMMA LaunchStep ==
  ASSUME Inv, Launch
  PROVE  Inv'
  <1>1. /\ pc = "launch" /\ held \in Tasks /\ held # NoTask /\ child[held] = "none" /\ qi \in Queues
        /\ UNCHANGED <<serverVars, seen, available, allocated, reserved, expired, slots>>
        /\ faults \in 0..MaxFaults /\ published' \in BOOLEAN
    BY DEF Inv, Launch, Control, TypeOK, QueuesApart, serverVars
  <1>2. CASE Fault /\ AfterRun /\ UNCHANGED <<child, missed, owner>>
    <2>1. faults' \in 0..MaxFaults
      BY <1>1, <1>2, ConstantsAssumption DEF Fault
    <2> QED BY <1>1, <1>2, <2>1, ReturnStep DEF ledgerVars, childVars
  <1>3. CASE Fault /\ Crash /\ UNCHANGED qi
    <2>1. faults' \in 0..MaxFaults
      BY <1>1, <1>3, ConstantsAssumption DEF Fault
    <2> QED BY <1>1, <1>3, <2>1, CrashStep DEF Inv, TypeOK, serverVars
  <1>4. CASE child' = [child EXCEPT ![held] = "boot"] /\ pc' = "boot"
             /\ UNCHANGED <<qi, held, missed, owner, faults>>
    <2> USE DEF Inv, serverVars
    <2>1. Live' = Live \cup {held} /\ Holding' = Holding /\ Engaged' = Engaged
          /\ Engaged = Live \cup {held} /\ Holding = Live \cup {held} /\ Used' = Used
      BY <1>1, <1>4 DEF Live, Holding, Engaged, TypeOK, Used
    <2>2. \A t \in Tasks : t # held => child'[t] = child[t]
      BY <1>4 DEF TypeOK
    <2>3. TypeOK'
      <3>1. child' \in [Tasks -> ChildStates]
        BY <1>4 DEF TypeOK, ChildStates
      <3> QED BY <1>1, <1>4, <3>1 DEF TypeOK, PCs
    <2>4. Control'
      BY <1>1, <1>4 DEF Control
    <2>5. QueuesApart'
      <3>1. \A q \in Queues : queue[q] \subseteq Tasks
        BY DEF TypeOK
      <3> QED BY <1>1, <1>4, <2>2, <3>1 DEF QueuesApart, Fresh
    <2>6. ProperNames'
      BY <1>1, <2>1 DEF ProperNames, Proper
    <2>7. AllCovered'
      BY <1>1, <1>4, <2>1 DEF AllCovered, Covered
    <2>8. SuffixesDiffer' /\ KnownApart'
      BY <1>1, <2>1 DEF SuffixesDiffer, KnownApart
    <2>9. AnswerHolds' /\ EnoughGpus'
      BY <1>4 DEF AnswerHolds, EnoughGpus
    <2>10. Accounted'
      BY <1>1, <1>4, <2>1 DEF Accounted, Passing, On, SumSizes, Units, IsWhole
    <2>11. GpusHold'
      <3>1. \A g \in Gpus : Taking(g)' = Taking(g)
        BY <1>1, <2>1 DEF Taking, On
      <3>2. \A g \in Gpus : SumSizes(Taking(g))' = SumSizes(Taking(g)')
        BY DEF SumSizes, Units
      <3> QED BY <3>1, <3>2 DEF GpusHold
    <2> QED BY <2>3, <2>4, <2>5, <2>6, <2>7, <2>8, <2>9, <2>10, <2>11
  <1> QED BY <1>2, <1>3, <1>4 DEF Launch

\* A task that has nothing yet leaves its queue, and the daemon moves on or
\* holds it from now on.
LEMMA PullStep ==
  ASSUME Inv, pc = "pull", NEW t \in queue[qi],
         queue' = [queue EXCEPT ![qi] = @ \ {t}], faults' \in 0..MaxFaults,
         UNCHANGED <<known, published, seen, available, ledgerVars, slots, missed>>,
         \/ held' = t /\ pc' = "alloc" /\ UNCHANGED <<qi, child>>
         \/ /\ held' = held /\ child' = [child EXCEPT ![t] = "done"]
            /\ pc' \in {"peek", "top"} /\ qi' \in Queues
  PROVE  Inv'
  <1> USE DEF Inv, ledgerVars
  <1>1. /\ held = NoTask /\ NoTask \notin Tasks /\ t \in Tasks /\ Fresh(t) /\ pc \in Passing
        /\ ~NotEnough(qi) /\ qi \in Queues
    BY ConstantsAssumption DEF Control, QueuesApart, TypeOK, Passing
  <1>2. /\ slots' = slots /\ \A u \in Tasks : u # t => child'[u] = child[u]
        /\ child' \in [Tasks -> ChildStates] /\ child'[t] \in {"none", "done"} /\ pc' # "launch"
        /\ pc' \in {"alloc", "peek", "top"} /\ qi' \in Queues
    <2>1. child \in [Tasks -> ChildStates] /\ child[t] = "none" /\ slots' = slots
      BY <1>1 DEF TypeOK, Fresh
    <2>2. CASE held' = t /\ pc' = "alloc" /\ UNCHANGED <<qi, child>>
      BY <1>1, <2>1, <2>2
    <2>3. CASE /\ held' = held /\ child' = [child EXCEPT ![t] = "done"]
               /\ pc' \in {"peek", "top"} /\ qi' \in Queues
      <3>1. "done" \in ChildStates
        BY DEF ChildStates
      <3> QED BY <1>1, <2>1, <2>3, <3>1
    <2> QED BY <2>2, <2>3
  <1>3. Live' = Live /\ Engaged' = Engaged /\ Engaged = Live /\ t \notin Live /\ Used' = Used
    BY <1>1, <1>2 DEF Live, Engaged, Fresh, Used
  <1>4. Holding = Live /\ (Holding' = Live \/ Holding' = Live \cup {t})
        /\ \A u \in Holding' : u \in Live \/ slots[u] = {}
    BY <1>1, <1>3 DEF Holding, Live, Fresh
  <1>5. TypeOK'
    <2>1. queue' \in [Queues -> SUBSET Tasks]
      BY DEF TypeOK
    <2> QED BY <1>1, <1>2, <2>1 DEF TypeOK, PCs
  <1>6. Control'
    <2>1. MostAvailable' = MostAvailable
      <3>1. Whole' = Whole /\ available' = available
        BY DEF Whole
      <3> QED BY <3>1 DEF MostAvailable
    <2>2. pc' = "alloc" => ~NotEnough(qi)'
      BY <1>1, <2>1 DEF NotEnough, MinGpu
    <2> QED BY <1>1, <1>2, <2>2 DEF Control
  <1>7. QueuesApart'
    <2>1. \A q \in Queues : queue'[q] \subseteq queue[q] /\ t \notin queue'[q] /\ queue[q] \subseteq Tasks
      BY <1>1 DEF TypeOK, QueuesApart
    <2>2. \A q \in Queues : \A u \in queue'[q] : u # t /\ child'[u] = child[u] /\ u # held'
      BY <1>1, <1>2, <2>1
    <2>3. pc' = "alloc" => Fresh(held)'
      BY <1>1, <1>2 DEF Fresh
    <2> QED BY <1>2, <2>1, <2>2, <2>3 DEF QueuesApart, Fresh
  <1>8. ProperNames'
    BY <1>2, <1>3 DEF ProperNames, Proper
  <1>9. AllCovered'
    BY <1>2, <1>3 DEF AllCovered, Covered
  <1>10. SuffixesDiffer'
    BY <1>2, <1>4 DEF SuffixesDiffer
  <1>11. KnownApart'
    BY <1>2, <1>3 DEF KnownApart
  <1>12. AnswerHolds' /\ EnoughGpus'
    BY <1>2 DEF AnswerHolds, EnoughGpus
  <1>13. Accounted'
    <2>1. \A u \in Holding' : slots'[u] \subseteq Used'
      BY <1>1, <1>2, <1>3, <1>4 DEF Accounted
    <2> QED BY <1>1, <1>3, <2>1 DEF Accounted, On, SumSizes, Units, IsWhole
  <1>14. GpusHold'
    <2>1. \A g \in Gpus : Taking(g)' \in SUBSET Taking(g)
      BY <1>2, <1>4 DEF Taking, On
    <2> QED BY <2>1, HoldsLess
  <1> QED BY <1>5, <1>6, <1>7, <1>8, <1>9, <1>10, <1>11, <1>12, <1>13, <1>14

LEMMA GetNextStep ==
  ASSUME Inv, GetNextTask
  PROVE  Inv'
  <1>1. /\ pc = "pull" /\ held = NoTask /\ qi \in Queues /\ pc \in Passing
        /\ UNCHANGED <<known, published, seen, available, allocated, reserved, expired, slots>>
        /\ faults \in 0..MaxFaults
    BY DEF Inv, GetNextTask, Control, TypeOK, Passing
  <1>2. Fault => faults' \in 0..MaxFaults
    BY <1>1, ConstantsAssumption DEF Fault
  <1>3. NextQueue => qi' \in Queues /\ pc' \in {"peek", "top"}
    BY <1>1 DEF NextQueue
  <1>4. ASSUME NEW t \in queue[qi], queue' = [queue EXCEPT ![qi] = @ \ {t}],
               held' = t /\ pc' = "alloc" /\ UNCHANGED <<qi, child, missed, owner, faults>>
        PROVE  Inv'
    BY <1>1, <1>4, PullStep DEF ledgerVars
  <1>5. ASSUME NEW t \in queue[qi], queue' = [queue EXCEPT ![qi] = @ \ {t}],
               Fault, child' = [child EXCEPT ![t] = "done"], NextQueue,
               UNCHANGED <<held, missed, owner>>
        PROVE  Inv'
    BY <1>1, <1>2, <1>3, <1>5, PullStep DEF ledgerVars
  <1>6. ASSUME NEW t \in queue[qi], queue' = [queue EXCEPT ![qi] = @ \ {t}],
               Fault, Crash, UNCHANGED qi
        PROVE  Inv'
    <2>1. /\ queue' \in [Queues -> SUBSET Tasks] /\ published' \in BOOLEAN
          /\ \A q \in Queues : queue'[q] \subseteq queue[q]
      BY <1>1, <1>6 DEF Inv, TypeOK
    <2> QED BY <1>1, <1>2, <1>6, <2>1, CrashStep
  <1>7. CASE /\ NextQueue /\ UNCHANGED <<queue, held, child, missed, owner>>
             /\ UNCHANGED faults \/ Fault
    BY <1>1, <1>2, <1>3, <1>7, MoveStep DEF serverVars, ledgerVars, childVars
  <1> QED BY <1>4, <1>5, <1>6, <1>7 DEF GetNextTask

-----------------------------------------------------------------------------
(* The containers, the users and the server's list.                        *)

\* A task that is waiting changes its queue or leaves it.
LEMMA EntryStep ==
  ASSUME Inv, NEW t \in Tasks, NEW q \in Queues, Enqueue(t, q) \/ Taken(t, q)
  PROVE  Inv'
  <1> USE DEF Inv, ledgerVars
  <1>1. /\ Fresh(t) /\ t # held /\ slots' = slots /\ missed' = missed
        /\ UNCHANGED <<known, published, pc, qi, held, seen, available, ledgerVars, faults>>
    BY DEF Enqueue, Taken, New, QueuesApart, Fresh, childVars
  <1>2. \A u \in Tasks : u # t => child'[u] = child[u]
    BY DEF Enqueue, Taken, childVars, TypeOK
  <1>3. child' \in [Tasks -> ChildStates] /\ child'[t] \in {"none", "done"}
    <2>1. child \in [Tasks -> ChildStates] /\ child[t] = "none"
      BY <1>1 DEF TypeOK, Fresh
    <2>2. CASE Enqueue(t, q)
      BY <2>1, <2>2 DEF Enqueue, childVars
    <2>3. CASE Taken(t, q)
      <3>1. child' = [child EXCEPT ![t] = "done"] /\ "done" \in ChildStates
        BY <2>3 DEF Taken, ChildStates
      <3> QED BY <2>1, <3>1
    <2> QED BY <2>2, <2>3
  <1>4. Live' = Live /\ Holding' = Holding /\ Engaged' = Engaged /\ Used' = Used
    BY <1>1, <1>2, <1>3 DEF Live, Holding, Engaged, Fresh, Used
  <1>5. TypeOK'
    <2>1. queue' \in [Queues -> SUBSET Tasks]
      BY DEF Enqueue, Taken, TypeOK
    <2> QED BY <1>1, <1>3, <2>1 DEF TypeOK
  <1>6. Control'
    <2>1. MostAvailable' = MostAvailable
      <3>1. Whole' = Whole /\ available' = available
        BY <1>1 DEF Whole
      <3> QED BY <3>1 DEF MostAvailable
    <2>2. NotEnough(qi)' <=> NotEnough(qi)
      BY <1>1, <2>1 DEF NotEnough, MinGpu
    <2> QED BY <1>1, <2>2 DEF Control
  <1>7. QueuesApart'
    <2>1. CASE Enqueue(t, q)
      <3>1. queue' = [queue EXCEPT ![q] = @ \cup {t}] /\ child' = child /\ \A r \in Queues : t \notin queue[r]
        BY <2>1 DEF Enqueue, New, childVars
      <3>2. \A r \in Queues : queue'[r] = IF r = q THEN queue[r] \cup {t} ELSE queue[r]
        BY <3>1 DEF TypeOK
      <3> QED BY <1>1, <3>1, <3>2 DEF QueuesApart, Fresh
    <2>2. CASE Taken(t, q)
      <3>1. queue' = [queue EXCEPT ![q] = @ \ {t}] /\ t \in queue[q]
        BY <2>2 DEF Taken
      <3>2. \A r \in Queues : queue'[r] \subseteq queue[r] /\ t \notin queue'[r] /\ queue[r] \subseteq Tasks
        BY <3>1 DEF TypeOK, QueuesApart
      <3>3. pc \in {"alloc", "launch"} => held \in Tasks
        BY DEF Control, TypeOK
      <3> QED BY <1>1, <1>2, <3>2, <3>3 DEF QueuesApart, Fresh
    <2> QED BY <2>1, <2>2
  <1>8. ProperNames'
    BY <1>1, <1>4 DEF ProperNames, Proper
  <1>9. AllCovered'
    BY <1>1, <1>4 DEF AllCovered, Covered
  <1>10. SuffixesDiffer' /\ KnownApart'
    BY <1>1, <1>4 DEF SuffixesDiffer, KnownApart
  <1>11. AnswerHolds'
    BY <1>1, <1>4 DEF AnswerHolds
  <1>12. EnoughGpus'
    BY <1>1 DEF EnoughGpus, SumSizes, Units, MinGpu, MaxGpu
  <1>13. Accounted'
    BY <1>1, <1>4 DEF Accounted, On, SumSizes, Units, IsWhole
  <1>14. GpusHold'
    <2>1. \A g \in Gpus : Taking(g)' \in SUBSET Taking(g)
      BY <1>1, <1>4 DEF Taking, On
    <2> QED BY <2>1, HoldsLess
  <1> QED BY <1>5, <1>6, <1>7, <1>8, <1>9, <1>10, <1>11, <1>12, <1>13, <1>14

\* What a container or the clock does leaves the daemon where it is: its part
\* of the invariant holds on.
LEMMA DaemonWaits ==
  ASSUME Inv, UNCHANGED <<queue, published, pc, qi, held, seen, available,
                          allocated, reserved, owner, slots, faults>>,
         child' \in [Tasks -> ChildStates],
         \A t \in Tasks : t \notin Live => child'[t] = child[t],
         \A t \in Live : child'[t] # "none",
         Live' \subseteq Live
  PROVE  /\ Control' /\ QueuesApart' /\ SuffixesDiffer' /\ GpusHold' /\ EnoughGpus'
         /\ Holding' \subseteq Holding /\ Engaged' \subseteq Engaged /\ Used' = Used
  <1> USE DEF Inv
  <1>1. Holding' \subseteq Holding /\ Engaged' \subseteq Engaged /\ Used' = Used
    BY DEF Holding, Engaged, Used
  <1>2. Control'
    <2>1. MostAvailable' = MostAvailable
      <3>1. Whole' = Whole /\ available' = available
        BY DEF Whole
      <3> QED BY <3>1 DEF MostAvailable
    <2>2. NotEnough(qi)' <=> NotEnough(qi)
      BY <2>1 DEF NotEnough, MinGpu
    <2> QED BY <2>2 DEF Control
  <1>3. QueuesApart'
    <2>1. \A t \in Tasks : child[t] = "none" => child'[t] = "none"
      BY DEF Live
    <2>2. \A q \in Queues : queue[q] \subseteq Tasks
      BY DEF TypeOK
    <2>3. pc \in {"alloc", "launch"} => held \in Tasks
      BY DEF Control, TypeOK
    <2> QED BY <2>1, <2>2, <2>3 DEF QueuesApart, Fresh
  <1>4. SuffixesDiffer'
    BY <1>1 DEF SuffixesDiffer
  <1>5. GpusHold'
    <2>1. \A g \in Gpus : Taking(g)' \in SUBSET Taking(g)
      BY <1>1 DEF Taking, On
    <2> QED BY <2>1, HoldsLess
  <1>6. EnoughGpus'
    BY DEF EnoughGpus, SumSizes, Units, MinGpu, MaxGpu
  <1> QED BY <1>1, <1>2, <1>3, <1>4, <1>5, <1>6

LEMMA TakesOverStep ==
  ASSUME Inv, NEW t \in Tasks, TakesOver(t)
  PROVE  Inv'
  <1> USE DEF serverVars, ledgerVars
  <1>1. /\ t \in Live /\ child' \in [Tasks -> ChildStates] /\ child'[t] = "run"
        /\ \A u \in Tasks : u # t => child'[u] = child[u]
    BY DEF Inv, TakesOver, TypeOK, ChildStates, Live
  <1>2. Live' = Live
    BY <1>1 DEF Live
  <1>3. /\ Control' /\ QueuesApart' /\ SuffixesDiffer' /\ GpusHold' /\ EnoughGpus'
        /\ Holding' \subseteq Holding /\ Engaged' \subseteq Engaged /\ Used' = Used
    <2>1. \A u \in Live : child'[u] # "none"
      BY <1>1 DEF Live
    <2> QED BY <1>1, <1>2, <2>1, DaemonWaits DEF TakesOver
  <1> USE DEF Inv
  <1>4. UNCHANGED <<serverVars, pc, qi, held, seen, available, ledgerVars, slots, missed, faults>>
    BY DEF TakesOver
  <1>5. TypeOK'
    BY <1>1, <1>4 DEF TypeOK
  <1>6. ProperNames'
    BY <1>3, <1>4 DEF ProperNames, Proper
  <1>7. AllCovered'
    BY <1>2, <1>3, <1>4 DEF AllCovered, Covered
  <1>8. KnownApart'
    BY <1>3, <1>4 DEF KnownApart
  <1>9. AnswerHolds'
    BY <1>2, <1>4 DEF AnswerHolds
  <1>10. Accounted'
    BY <1>3, <1>4 DEF Accounted, On, SumSizes, Units, IsWhole
  <1> QED BY <1>3, <1>5, <1>6, <1>7, <1>8, <1>9, <1>10

\* A worker registers: it has slots of its own, and they were counted.
LEMMA RegisterStep ==
  ASSUME Inv, NEW t \in Tasks, Register(t)
  PROVE  Inv'
  <1> USE DEF Inv, ledgerVars, childVars
  <1>1. /\ t \in Live /\ t \in Engaged /\ t \in Holding /\ slots[t] \notin known
        /\ known' = known \cup {slots[t]} /\ slots[t] \subseteq Slots
        /\ UNCHANGED <<queue, published, pc, qi, held, seen, available, ledgerVars, childVars, faults>>
    BY DEF Register, Engaged, Holding, TypeOK
  <1>2. Live' = Live /\ Holding' = Holding /\ Engaged' = Engaged /\ Used' = Used
    BY <1>1 DEF Live, Holding, Engaged, Used
  <1>3. Control' /\ QueuesApart' /\ SuffixesDiffer' /\ GpusHold' /\ EnoughGpus'
    <2>1. child' = child /\ child' \in [Tasks -> ChildStates]
      BY <1>1 DEF TypeOK
    <2>2. \A u \in Live : child'[u] # "none"
      BY <2>1 DEF Live
    <2> QED BY <1>1, <1>2, <2>1, <2>2, DaemonWaits
  <1>4. slots[t] # {} /\ slots[t] \subseteq reserved \ expired
    BY <1>1 DEF AllCovered, Covered
  <1>5. \A u \in Engaged : u # t => slots[u] \cap slots[t] = {}
    <2>1. \A u \in Engaged : u \in Holding
      BY DEF Engaged, Holding, Control, TypeOK, Live
    <2> QED BY <1>1, <2>1 DEF SuffixesDiffer
  <1>6. TypeOK'
    BY <1>1 DEF TypeOK
  <1>7. ProperNames'
    BY <1>1, <1>2 DEF ProperNames, Proper
  <1>8. AllCovered'
    <2>1. pc = "launch" => slots[held] \notin known'
      <3>1. ASSUME pc = "launch" PROVE slots[held] # slots[t]
        <4>1. child[held] = "none" /\ held \in Engaged
          BY <3>1 DEF QueuesApart, Engaged
        <4>2. held # t
          BY <1>1, <4>1 DEF Live
        <4> QED BY <1>4, <1>5, <4>1, <4>2
      <3> QED BY <1>1, <3>1 DEF AllCovered
    <2>2. \A u \in Engaged : Covered(u)'
      BY <1>1 DEF AllCovered, Covered
    <2> QED BY <1>1, <1>2, <2>1, <2>2 DEF AllCovered
  <1>9. KnownApart'
    <2>1. ASSUME NEW u \in Engaged, NEW w \in known' PROVE w = slots[u] \/ w \cap slots[u] = {}
      BY <1>1, <1>5 DEF KnownApart
    <2> QED BY <1>1, <1>2, <2>1 DEF KnownApart
  <1>10. AnswerHolds'
    BY <1>1, <1>2, <1>4 DEF AnswerHolds
  <1>11. Accounted'
    <2>1. pc \in Passing => UNION known' \subseteq Used
      BY <1>1 DEF Accounted
    <2> QED BY <1>1, <1>2, <2>1 DEF Accounted, On, SumSizes, Units, IsWhole
  <1> QED BY <1>3, <1>6, <1>7, <1>8, <1>9, <1>10, <1>11

\* A container ends, with or without its agent's last word to the server.
LEMMA EndStep ==
  ASSUME Inv, NEW t \in Tasks, End(t)
  PROVE  Inv'
  <1> USE DEF Inv, ledgerVars
  <1>1. /\ t \in Live /\ known' \subseteq known /\ \A w \in known : w # slots[t] => w \in known'
        /\ child' = [child EXCEPT ![t] = "done"]
        /\ UNCHANGED <<queue, published, pc, qi, held, seen, available, ledgerVars, slots,
                       missed, faults>>
    BY DEF End
  <1>2. /\ child' \in [Tasks -> ChildStates] /\ child'[t] = "done"
        /\ \A u \in Tasks : u # t => child'[u] = child[u]
    BY <1>1 DEF TypeOK, ChildStates
  <1>3. Live' = Live \ {t}
    BY <1>2 DEF Live
  <1>4. /\ Control' /\ QueuesApart' /\ SuffixesDiffer' /\ GpusHold' /\ EnoughGpus'
        /\ Holding' \subseteq Holding /\ Engaged' \subseteq Engaged /\ Used' = Used
    <2>1. \A u \in Live : child'[u] # "none"
      BY <1>2 DEF Live
    <2>2. \A u \in Tasks : u \notin Live => child'[u] = child[u]
      BY <1>1, <1>2
    <2> QED BY <1>1, <1>2, <1>3, <2>1, <2>2, DaemonWaits
  <1>5. \A u \in Engaged' : u \in Engaged /\ u # t
    <2>1. pc = "launch" => held # t
      BY <1>1 DEF QueuesApart, Live
    <2> QED BY <1>1, <1>3, <2>1 DEF Engaged
  <1>6. \A u \in Engaged' : slots[u] # slots[t]
    <2>1. ASSUME NEW u \in Engaged' PROVE slots[u] # slots[t]
      <3>1. u \in Holding /\ t \in Holding /\ u \in Tasks /\ u # t /\ slots[u] # {}
        <4>1. u \in Engaged /\ u # t
          BY <1>5
        <4> QED BY <1>1, <4>1 DEF Holding, Engaged, AllCovered, Covered, Control, TypeOK, Live
      <3> QED BY <3>1 DEF SuffixesDiffer
    <2> QED BY <2>1
  <1>7. TypeOK'
    BY <1>1, <1>2 DEF TypeOK
  <1>8. ProperNames'
    BY <1>1, <1>4 DEF ProperNames, Proper
  <1>9. AllCovered'
    <2>1. ASSUME NEW u \in Engaged' PROVE Covered(u)'
      <3>1. Covered(u) /\ slots[u] # slots[t]
        BY <1>5, <1>6 DEF AllCovered
      <3> QED BY <1>1, <3>1 DEF Covered
    <2> QED BY <1>1, <1>3, <2>1 DEF AllCovered
  <1>10. KnownApart'
    BY <1>1, <1>5 DEF KnownApart
  <1>11. AnswerHolds'
    <2>1. ASSUME pc = "account", NEW u \in Live', NEW w \in seen
          PROVE  (w = slots[u] /\ w \in known') \/ w \cap slots[u] = {}
      <3>1. u \in Live /\ u \in Engaged'
        BY <1>1, <1>3, <2>1 DEF Engaged
      <3> QED BY <1>1, <1>6, <2>1, <3>1 DEF AnswerHolds
    <2>2. UNION known' \subseteq UNION known
      BY <1>1
    <2> QED BY <1>1, <2>1, <2>2 DEF AnswerHolds
  <1>12. Accounted'
    <2>1. UNION known' \subseteq UNION known
      BY <1>1
    <2> QED BY <1>1, <1>4, <2>1 DEF Accounted, On, SumSizes, Units, IsWhole
  <1> QED BY <1>4, <1>7, <1>8, <1>9, <1>10, <1>11, <1>12

\* The server forgets a worker: none that a prompt container keeps up.
LEMMA ForgetStep ==
  ASSUME Inv, Prompt, NEW v \in known, Forget(v)
  PROVE  Inv'
  <1> USE DEF Inv, ledgerVars, childVars
  <1>1. /\ known' = known \ {v} /\ \A t \in Live : slots[t] # v
        /\ UNCHANGED <<queue, published, pc, qi, held, seen, available, ledgerVars, childVars, faults>>
    BY DEF Forget
  <1>2. Live' = Live /\ Holding' = Holding /\ Engaged' = Engaged /\ Used' = Used
    BY <1>1 DEF Live, Holding, Engaged, Used
  <1>3. Control' /\ QueuesApart' /\ SuffixesDiffer' /\ GpusHold' /\ EnoughGpus'
    <2>1. child' = child /\ child' \in [Tasks -> ChildStates]
      BY <1>1 DEF TypeOK
    <2>2. \A u \in Live : child'[u] # "none"
      BY <2>1 DEF Live
    <2> QED BY <1>1, <1>2, <2>1, <2>2, DaemonWaits
  <1>4. TypeOK'
    BY <1>1 DEF TypeOK
  <1>5. ProperNames'
    BY <1>1, <1>2 DEF ProperNames, Proper
  <1>6. AllCovered'
    <2>1. \A t \in Engaged : slots[t] # v
      BY <1>1 DEF Engaged, AllCovered
    <2>2. \A t \in Engaged : Covered(t)'
      BY <1>1, <2>1 DEF AllCovered, Covered
    <2> QED BY <1>1, <1>2, <2>2 DEF AllCovered
  <1>7. KnownApart' /\ AnswerHolds'
    BY <1>1, <1>2 DEF KnownApart, AnswerHolds
  <1>8. Accounted'
    <2>1. UNION known' \subseteq UNION known
      BY <1>1
    <2> QED BY <1>1, <1>2, <2>1 DEF Accounted, On, SumSizes, Units, IsWhole
  <1> QED BY <1>3, <1>4, <1>5, <1>6, <1>7, <1>8

\* A reservation expires: the worker it stands for has registered.
LEMMA ExpireStep ==
  ASSUME Inv, Prompt, NEW s \in reserved, Expire(s)
  PROVE  Inv'
  <1> USE DEF Inv, serverVars, childVars
  <1>1. /\ expired' = expired \cup {s}
        /\ \A t \in Holding : s \in slots[t] => slots[t] \in known
        /\ pc = "account" => \A w \in known \ seen : s \notin w
        /\ UNCHANGED <<serverVars, pc, qi, held, seen, available, allocated, reserved, owner,
                       childVars, faults>>
    BY DEF Expire
  <1>2. Live' = Live /\ Holding' = Holding /\ Engaged' = Engaged /\ Used' = Used
    BY <1>1 DEF Live, Holding, Engaged, Used
  <1>3. Control' /\ QueuesApart' /\ SuffixesDiffer' /\ GpusHold' /\ EnoughGpus'
    <2>1. child' = child /\ child' \in [Tasks -> ChildStates]
      BY <1>1 DEF TypeOK
    <2>2. \A u \in Live : child'[u] # "none"
      BY <2>1 DEF Live
    <2> QED BY <1>1, <1>2, <2>1, <2>2, DaemonWaits
  <1>4. TypeOK'
    BY <1>1 DEF TypeOK
  <1>5. ProperNames'
    BY <1>1, <1>2 DEF ProperNames, Proper
  <1>6. AllCovered'
    <2>1. \A t \in Engaged : t \in Holding
      BY DEF Engaged, Holding, Control, TypeOK, Live
    <2>2. ASSUME NEW t \in Engaged PROVE Covered(t)'
      <3>1. Covered(t) /\ (s \in slots[t] => slots[t] \in known)
        BY <1>1, <2>1 DEF AllCovered
      <3> QED BY <1>1, <3>1 DEF Covered
    <2> QED BY <1>1, <1>2, <2>2 DEF AllCovered
  <1>7. KnownApart' /\ AnswerHolds'
    BY <1>1, <1>2 DEF KnownApart, AnswerHolds
  <1>8. Accounted'
    BY <1>1, <1>2 DEF Accounted, On, SumSizes, Units, IsWhole
  <1> QED BY <1>3, <1>4, <1>5, <1>6, <1>7, <1>8

LEMMA InvInit == Init => Inv
  <1> SUFFICES ASSUME Init PROVE Inv
    OBVIOUS
  <1> USE DEF Init
  <1>1. NoTask \notin Tasks
    BY ConstantsAssumption
  <1>2. Live = {} /\ Holding = {} /\ Engaged = {} /\ Used = {}
    BY <1>1 DEF Live, Holding, Engaged, Used
  <1>3. TypeOK
    <2>1. DOMAIN available = {} /\ DOMAIN owner = {}
      OBVIOUS
    <2>2. faults \in 0..MaxFaults
      BY ConstantsAssumption
    <2> QED BY <2>1, <2>2, QueueFacts DEF TypeOK, PCs, ChildStates
  <1>4. Control
    BY DEF Control
  <1>5. QueuesApart /\ ProperNames
    BY <1>2 DEF QueuesApart, ProperNames, Proper
  <1>6. AllCovered /\ SuffixesDiffer /\ KnownApart
    BY <1>2 DEF AllCovered, SuffixesDiffer, KnownApart
  <1>7. AnswerHolds /\ Accounted /\ EnoughGpus
    BY DEF AnswerHolds, Accounted, Passing, EnoughGpus
  <1>8. GpusHold
    <2>1. \A g \in Gpus : Taking(g) = {}
      BY <1>2 DEF Taking, On
    <2>2. \A g \in Gpus : SumSizes(Taking(g)) = 0
      BY <2>1, SumOfEmpty
    <2> HIDE DEF Init
    <2>3. Unit \in Nat
      BY ConstantsAssumption
    <2>4. 0 =< Unit
      BY <2>3
    <2> QED BY <2>2, <2>4 DEF GpusHold
  <1> QED BY <1>3, <1>4, <1>5, <1>6, <1>7, <1>8 DEF Inv

LEMMA InvStutter ==
  ASSUME Inv, UNCHANGED vars
  PROVE  Inv'
  <1> USE DEF Inv, vars, serverVars, ledgerVars, childVars
  <1>1. Live' = Live /\ Holding' = Holding /\ Engaged' = Engaged /\ Used' = Used
    BY DEF Live, Holding, Engaged, Used
  <1>2. Control' /\ QueuesApart' /\ SuffixesDiffer' /\ GpusHold' /\ EnoughGpus'
    <2>1. child' \in [Tasks -> ChildStates]
      BY DEF TypeOK
    <2>2. \A u \in Live : child'[u] # "none"
      BY DEF Live
    <2> QED BY <1>1, <2>1, <2>2, DaemonWaits
  <1>3. TypeOK' /\ ProperNames'
    BY <1>1 DEF TypeOK, ProperNames, Proper
  <1>4. AllCovered' /\ KnownApart' /\ AnswerHolds'
    BY <1>1 DEF AllCovered, Covered, KnownApart, AnswerHolds
  <1>5. Accounted'
    BY <1>1 DEF Accounted, On, SumSizes, Units, IsWhole
  <1> QED BY <1>2, <1>3, <1>4, <1>5

\* Allocation stays sound for queues with fixed shares, letters enough and
\* containers that register in time.
THEOREM AllocationInvariant == Dependable => (Spec => []Inv)
  <1> SUFFICES ASSUME Dependable PROVE Spec => []Inv
    OBVIOUS
  <1>1. Prompt
    BY DEF Dependable
  <1>2. Inv /\ [Next]_vars => Inv'
    <2> SUFFICES ASSUME Inv, [Next]_vars PROVE Inv'
      OBVIOUS
    <2>1. CASE Daemon
      BY <2>1, SetupStep, QueryStep, AccountStep, PropertiesStep, PeekStep, GetNextStep,
         AllocateStep, LaunchStep, RunReturnsStep DEF Daemon
    <2>2. ASSUME NEW t \in Tasks, TakesOver(t) \/ Register(t) \/ End(t) PROVE Inv'
      BY <2>2, TakesOverStep, RegisterStep, EndStep
    <2>3. ASSUME NEW t \in Tasks, NEW q \in Queues, Enqueue(t, q) \/ Taken(t, q) PROVE Inv'
      BY <2>3, EntryStep
    <2>4. ASSUME NEW w \in known, Forget(w) PROVE Inv'
      BY <1>1, <2>4, ForgetStep
    <2>5. ASSUME NEW s \in reserved, Expire(s) PROVE Inv'
      BY <1>1, <2>5, ExpireStep
    <2>6. CASE UNCHANGED vars
      BY <2>6, InvStutter
    <2> QED BY <2>1, <2>2, <2>3, <2>4, <2>5, <2>6 DEF Next
  <1> QED BY <1>2, InvInit, PTL DEF Spec

-----------------------------------------------------------------------------
(* What the invariant says of the allocation.                              *)

\* Of tasks that have no slot in common, the units of each are those of all.
LEMMA UnitsOfHolders ==
  ASSUME TypeOK, SuffixesDiffer, GpusHold
  PROVE  NoOverPull
  <1> SUFFICES ASSUME NEW g \in Gpus
               PROVE  Cardinality(UNION {{t} \X Units(On(g, slots[t])) : t \in Holding}) <= Unit
    BY DEF NoOverPull
  <1> DEFINE A == UNION {{t} \X Units(On(g, slots[t])) : t \in Holding}
             B == Units(Taking(g))
             f == [a \in A |-> a[2]]
  <1>1. \A a \in A : a[1] \in Holding /\ a[2] \in Units(On(g, slots[a[1]])) /\ a = <<a[1], a[2]>>
    OBVIOUS
  <1>2. \A t \in Holding : Units(On(g, slots[t])) \subseteq B
    BY DEF Units, Taking, On
  <1>3. \A t, u \in Holding : t # u => Units(On(g, slots[t])) \cap Units(On(g, slots[u])) = {}
    BY DEF Units, On, SuffixesDiffer
  <1>4. f \in Injection(A, B)
    <2> HIDE DEF A, B
    <2>1. \A a \in A : f[a] = a[2]
      OBVIOUS
    <2>2. \A a \in A : f[a] \in B
      BY <1>1, <1>2, <2>1
    <2>3. \A a, b \in A : a[2] = b[2] => a[1] = b[1]
      BY <1>1, <1>3
    <2>4. \A a, b \in A : f[a] = f[b] => a = b
      <3>1. ASSUME NEW a \in A, NEW b \in A, f[a] = f[b] PROVE a = b
        <4>1. a[2] = b[2]
          BY <2>1, <3>1
        <4>2. a[1] = b[1]
          BY <2>3, <4>1
        <4> QED BY <1>1, <4>1, <4>2
      <3> QED BY <3>1
    <2> QED BY <2>2, <2>4 DEF Injection, IsInjective
  <1>5. Taking(g) \in SUBSET Slots
    BY DEF Taking, On, Holding, TypeOK
  <1>6. IsFiniteSet(B) /\ Cardinality(B) <= Unit
    <2>1. SumSizes(Taking(g)) <= Unit
      BY DEF GpusHold
    <2> QED BY <1>5, <2>1, UnitsFinite DEF SumSizes
  <1> HIDE DEF A, B, f
  <1>7. IsFiniteSet(A) /\ Cardinality(A) <= Cardinality(B)
    BY <1>4, <1>6, FS_Injection
  <1>8. Cardinality(A) \in Nat /\ Cardinality(B) \in Nat
    BY <1>6, <1>7, FS_CardinalityType
  <1> QED BY <1>6, <1>7, <1>8, ConstantsAssumption DEF A

\* What a pass claims is what it has counted.
LEMMA CountedOnce == Inv => ChargedOnce
  <1> SUFFICES ASSUME Inv, pc = "props", qi = 1 PROVE ChargedOnce
    BY DEF ChargedOnce
  <1>1. (UNION {slots[t] : t \in Live}) \cup (UNION seen) \cup reserved = Used
    <2>1. \A t \in Live : slots[t] \subseteq Used
      BY DEF Inv, Accounted, Passing, Holding, Live
    <2> QED BY <2>1 DEF Used
  <1>2. ASSUME NEW g \in Gpus, Unit - SumSizes(On(g, Used)) > 0
        PROVE  g \in DOMAIN available /\ available[g] >= Unit - SumSizes(On(g, Used))
    <2>1. SumSizes(On(g, Used)) \in Nat
      BY UsedType, UnitsFinite DEF Inv, On
    <2>2. g \in DOMAIN available
      BY <1>2, <2>1, ConstantsAssumption DEF Inv, Accounted, Passing
    <2>3. available[g] = Unit - SumSizes(On(g, Used))
      BY <2>2 DEF Inv, Accounted, Passing
    <2> QED BY <2>1, <2>2, <2>3, ConstantsAssumption
  <1> QED BY <1>1, <1>2 DEF ChargedOnce

\* No GPU is given away twice: the names of the registered workers and the
\* ledger together account for every container, from the allocation of its
\* GPUs to its end (_dynamic_gpu_get_available, _reserve_dynamic_gpus).
THEOREM NeverOverPulled == Dependable => (Spec => []NoOverPull)
  <1>1. Inv => NoOverPull
    BY UnitsOfHolders DEF Inv
  <1> QED BY <1>1, AllocationInvariant, PTL

\* What was found available before the pull is given after it: the queue's
\* minimum at least, its maximum at most (run_tasks_loop).
THEOREM AlwaysEnoughGpus == Dependable => (Spec => []EnoughGpus)
  <1>1. Inv => EnoughGpus
    BY DEF Inv
  <1> QED BY <1>1, AllocationInvariant, PTL

\* No suffix, so no worker name, is given to two containers at a time.
THEOREM SuffixesUnique == Dependable => (Spec => []SuffixesDiffer)
  <1>1. Inv => SuffixesDiffer
    BY DEF Inv
  <1> QED BY <1>1, AllocationInvariant, PTL

\* A container that registered is not charged again for its reservation.
THEOREM NeverChargedTwice == Dependable => (Spec => []ChargedOnce)
  BY CountedOnce, AllocationInvariant, PTL

\* The `finally' of run_tasks_loop reaches every container that is alive: those
\* that outlive it are the ones that docker failed to stop.
THEOREM ShutdownReachesAll == Dependable => (Spec => []AllShutDown)
  <1>1. Inv => AllShutDown
    BY DEF Inv, AllCovered, AllShutDown
  <1> QED BY <1>1, AllocationInvariant, PTL

-----------------------------------------------------------------------------
(* Types, whatever the shares, the letters and the containers.             *)

\* The share taken in part: of a GPU that has the queue's minimum.
LEMMA EmptiestTaken ==
  ASSUME TypeOK, Control, NEW q \in Queues, ~NotEnough(q), MaxGpu(q) < Unit \/ Whole = {}
  PROVE  Emptiest(q) \in DOMAIN available /\ available[Emptiest(q)] >= MinGpu(q)
  <1> DEFINE enough == {g \in DOMAIN available : available[g] >= MinGpu(q)}
             X == {available[h] : h \in enough}
  <1>1. MinGpu(q) \in Nat \ {0} /\ MaxGpu(q) \in Nat /\ Unit \in Nat /\ MinGpu(q) <= MaxGpu(q)
    BY QueueFacts, ConstantsAssumption
  <1>2. \A g \in DOMAIN available : available[g] \in Int /\ available[g] <= Unit /\ g \in Gpus
    BY ConstantsAssumption DEF TypeOK, Control
  <1>3. enough # {}
    <2>1. CASE \E g \in DOMAIN available : available[g] >= MinGpu(q)
      BY <2>1
    <2>2. CASE Whole # {}
      <3>1. PICK g \in Whole : TRUE
        BY <2>2
      <3>2. g \in DOMAIN available /\ available[g] >= Unit /\ MaxGpu(q) < Unit
        BY <2>2, <3>1 DEF Whole
      <3> QED BY <1>1, <1>2, <3>2
    <2> QED BY <2>1, <2>2, EnoughThere
  <1>4. X \in SUBSET Int /\ X # {} /\ Unit \in Int /\ \A x \in X : x <= Unit
    <2>1. \A h \in enough : available[h] \in Int /\ available[h] <= Unit
      BY <1>2
    <2> HIDE DEF enough
    <2> QED BY <1>1, <1>3, <2>1
  <1>5. \E x \in X : \A y \in X : x >= y
    <2> HIDE DEF X
    <2> QED BY <1>4, GreatestInteger
  <1>6. PICK v \in X : \A y \in X : v >= y
    BY <1>5
  <1> DEFINE top == {h \in enough : available[h] = v}
  <1>7. top \in SUBSET Nat /\ top # {} /\ IsFiniteSet(top)
    <2>1. top \subseteq enough /\ enough \subseteq Gpus
      BY <1>2
    <2>2. top # {}
      BY <1>6
    <2> HIDE DEF top, enough
    <2>3. top \subseteq Gpus
      BY <2>1
    <2> QED BY <2>2, <2>3, ConstantsAssumption, FS_Subset
  <1>8. \E m \in top : \A h \in top : m >= h
    <2> HIDE DEF top
    <2> QED BY <1>7, GreatestNatural
  <1>9. \E m \in enough : \A h \in enough :
           available[m] > available[h] \/ (available[m] = available[h] /\ m >= h)
    <2>1. PICK m \in top : \A h \in top : m >= h
      BY <1>8
    <2>2. \A h \in enough : available[h] \in Int /\ v >= available[h]
      BY <1>2, <1>6
    <2>3. m \in enough /\ available[m] = v
      BY <2>1
    <2>4. ASSUME NEW h \in enough
          PROVE  available[m] > available[h] \/ (available[m] = available[h] /\ m >= h)
      <3>1. CASE available[h] = v
        BY <2>1, <2>3, <3>1
      <3>2. CASE available[h] # v
        <4>1. v \in Int
          BY <1>4, <1>6
        <4> HIDE DEF enough, top
        <4> QED BY <2>2, <2>3, <3>2, <4>1
      <3> QED BY <3>1, <3>2
    <2> QED BY <2>3, <2>4
  <1>10. Emptiest(q) \in enough
    <2> HIDE DEF enough
    <2>1. Emptiest(q) = CHOOSE m \in enough : \A h \in enough :
             available[m] > available[h] \/ (available[m] = available[h] /\ m >= h)
      BY DEF Emptiest, enough
    <2> QED BY <1>9, <2>1
  <1> QED BY <1>10

\* A share has a suffix, with or without a letter.
LEMMA ShareSlots ==
  ASSUME NEW g \in Gpus, NEW n \in 1..Unit
  PROVE  SlotsOfShare(g, n) \in SUBSET Slots
  <1> DEFINE free == {x \in 1..Letters : [gpu |-> g, size |-> n, letter |-> x] \notin allocated}
  <1>1. Letters \in Nat /\ Unit \in Nat \ {0}
    BY ConstantsAssumption
  <1>2. free # {} => Min(free) \in 1..Letters
    <2>1. free \in SUBSET Nat /\ free \subseteq 1..Letters
      BY <1>1
    <2> HIDE DEF free
    <2>2. free # {} => \E x \in free : \A y \in free : x <= y
      BY <2>1, LeastNatural
    <2>3. free # {} => Min(free) \in free
      BY <2>2 DEF Min
    <2> QED BY <2>1, <2>3
  <1>3. Named(g, n) \in Slots
    <2>1. Named(g, n) = [gpu |-> g, size |-> n, letter |-> IF free = {} THEN 0 ELSE Min(free)]
      BY DEF Named
    <2> HIDE DEF free
    <2> QED BY <1>1, <1>2, <2>1 DEF Slots
  <1>4. WholeSlot(g) \in Slots
    BY <1>1 DEF WholeSlot, Slots
  <1> QED BY <1>3, <1>4 DEF SlotsOfShare

\* What a grant needs to be of its types.
LEMMA GrantTypes ==
  ASSUME TypeOK, Control, pc = "alloc", NEW S \in SUBSET Slots, NEW left,
         Grant(S, left), UNCHANGED <<queue, known, qi, seen, faults>>,
         DOMAIN left \subseteq DOMAIN available,
         \A g \in DOMAIN left : left[g] \in -Unit..Unit
  PROVE  TypeOK' /\ Control'
  <1>1. /\ held \in Tasks /\ pc' = "launch" /\ held' = held /\ child' = child
        /\ slots' = [slots EXCEPT ![held] = S] /\ available' = left
    BY DEF Grant, Control, TypeOK
  <1>2. DOMAIN available' \subseteq Gpus /\ \A g \in DOMAIN available' : available'[g] \in -Unit..Unit
    BY <1>1 DEF TypeOK
  <1>3. Control'
    <2>1. \A g \in DOMAIN available' : available'[g] <= Unit
      BY <1>2, ConstantsAssumption
    <2> QED BY <1>1, <2>1 DEF Control
  <1>4. slots' \in [Tasks -> SUBSET Slots]
    BY <1>1 DEF TypeOK
  <1>5. allocated' \subseteq Slots /\ reserved' \subseteq Slots /\ expired' \subseteq reserved'
    BY DEF TypeOK, Grant
  <1>6. DOMAIN owner' \subseteq Slots /\ \A s \in DOMAIN owner' : owner'[s] \in Tasks
    BY <1>1 DEF TypeOK, Grant
  <1>7. published' \in BOOLEAN /\ pc' \in PCs /\ missed' \subseteq Tasks
    BY <1>1 DEF Grant, PCs, TypeOK
  <1> QED BY <1>1, <1>2, <1>3, <1>4, <1>5, <1>6, <1>7 DEF TypeOK

\* Leaving the loop keeps the types, whatever docker fails to stop.
LEMMA CrashTypes ==
  ASSUME TypeOK, Crash
  PROVE  /\ child' \in [Tasks -> ChildStates] /\ missed' \subseteq Tasks
         /\ DOMAIN owner' = {} /\ pc' = "setup" /\ held' = NoTask
  <1>1. PICK left \in SUBSET Recorded :
           /\ child' = [t \in Tasks |->
                          IF t \in Recorded \ left THEN "shut" ELSE child[t]]
           /\ missed' = missed \cup left
    BY DEF Crash
  <1>2. child' \in [Tasks -> ChildStates]
    BY <1>1 DEF TypeOK, ChildStates
  <1>3. Recorded \subseteq Tasks /\ missed \subseteq Tasks
    BY DEF TypeOK, Recorded, Live
  <1>4. missed' \subseteq Tasks
    BY <1>1, <1>3
  <1> QED BY <1>2, <1>4 DEF Crash

LEMMA AllocateTypes ==
  ASSUME TypeOK, Control, Allocate
  PROVE  TypeOK' /\ Control'
  <1>1. pc = "alloc" /\ qi \in Queues /\ ~NotEnough(qi) /\ UNCHANGED <<queue, known, qi, seen>>
    BY DEF Allocate, Control, TypeOK
  <1>2. ASSUME Crash, faults' \in 0..MaxFaults,
               UNCHANGED <<published, available, allocated, reserved, expired, slots>>
        PROVE  TypeOK' /\ Control'
    BY <1>1, <1>2, CrashTypes DEF TypeOK, Control, PCs
  <1>3. CASE FractionFails(qi)
    <2>1. faults' \in 0..MaxFaults
      BY <1>3, ConstantsAssumption DEF FractionFails, Fault, TypeOK
    <2> QED BY <1>2, <1>3, <2>1 DEF FractionFails
  <1>4. CASE TakeWhole(qi) /\ UNCHANGED faults
    <2> DEFINE G == FirstWhole(qi)
               S == {WholeSlot(g) : g \in G}
               left == [g \in DOMAIN available \ G |-> available[g]]
    <2>1. Grant(S, left) /\ MaxGpu(qi) >= Unit /\ Whole # {}
      BY <1>4 DEF TakeWhole
    <2>2. G \subseteq Gpus
      <3>1. G \in SUBSET Whole
        BY <1>1, <2>1, WholeTaken
      <3> QED BY <3>1 DEF Whole, TypeOK
    <2>3. \A g \in Gpus : WholeSlot(g) \in Slots
      BY ConstantsAssumption DEF WholeSlot, Slots
    <2>4. S \in SUBSET Slots
      BY <2>2, <2>3
    <2>5. DOMAIN left \subseteq DOMAIN available /\ \A g \in DOMAIN left : left[g] \in -Unit..Unit
      BY DEF TypeOK
    <2> HIDE DEF S, left
    <2> QED BY <1>1, <1>4, <2>1, <2>4, <2>5, GrantTypes
  <1>5. ASSUME NEW g \in DOMAIN available, NEW n \in 1..Unit, available[g] >= 0, UNCHANGED faults,
               Grant(SlotsOfShare(g, n), Reduced(g, n))
        PROVE  TypeOK' /\ Control'
    <2>1. SlotsOfShare(g, n) \in SUBSET Slots
      BY ShareSlots DEF TypeOK
    <2>2. \A h \in DOMAIN available : available[h] \in -Unit..Unit
      BY DEF TypeOK
    <2>3. DOMAIN Reduced(g, n) = DOMAIN available
          /\ \A h \in DOMAIN available :
               Reduced(g, n)[h] = IF h = g THEN available[h] - n ELSE available[h]
      BY DEF Reduced
    <2>4. \A h \in DOMAIN available : Reduced(g, n)[h] \in -Unit..Unit
      <3>1. available[g] \in 0..Unit /\ available[g] - n \in -Unit..Unit
        BY <1>5, <2>2, ConstantsAssumption
      <3> HIDE DEF Reduced
      <3> QED BY <2>2, <2>3, <3>1
    <2> QED BY <1>1, <1>5, <2>1, <2>3, <2>4, GrantTypes
  <1>6. MinGpu(qi) \in Nat \ {0} /\ MaxGpu(qi) \in Nat \ {0} /\ Unit \in Nat \ {0}
    BY <1>1, QueueFacts, ConstantsAssumption
  <1>7. CASE TakeFraction(qi) /\ UNCHANGED faults
    <2>1. PICK g \in BestFit(qi) :
             Grant(SlotsOfShare(g, Request(qi)), Reduced(g, Request(qi)))
      BY <1>7 DEF TakeFraction
    <2>2. Request(qi) \in 1..Unit
      BY <1>1, <1>6, RequestIs
    <2>3. g \in DOMAIN available /\ available[g] >= Request(qi)
      BY <1>1, <2>1, FitTaken
    <2>4. available[g] >= 0
      BY <1>6, <2>2, <2>3 DEF TypeOK
    <2> QED BY <1>5, <1>7, <2>1, <2>2, <2>3, <2>4
  <1>8. CASE TakePartial(qi) /\ UNCHANGED faults
    <2> DEFINE g == Emptiest(qi)
    <2>1. g \in DOMAIN available /\ available[g] >= MinGpu(qi)
      BY <1>1, <1>8, EmptiestTaken DEF TakePartial
    <2>2. available[g] >= 0
      BY <1>6, <2>1 DEF TypeOK
    <2>3. CASE Crash /\ UNCHANGED <<published, available, allocated, reserved, expired, slots>>
      <3>1. faults' \in 0..MaxFaults
        BY <1>8 DEF TypeOK
      <3> QED BY <1>2, <2>3, <3>1
    <2>4. CASE Grant(SlotsOfShare(g, Unit), Reduced(g, Unit))
      <3>1. Unit \in 1..Unit
        BY <1>6
      <3> HIDE DEF g
      <3> QED BY <1>5, <1>8, <2>1, <2>2, <2>4, <3>1
    <2> QED BY <1>8, <2>3, <2>4 DEF TakePartial, PartialShare
  <1> QED BY <1>3, <1>4, <1>7, <1>8 DEF Allocate

LEMMA TypesStep ==
  ASSUME TypeOK, Control, [Next]_vars
  PROVE  TypeOK' /\ Control'
  <1>1. \A x \in 0..MaxFaults : x < MaxFaults => x + 1 \in 0..MaxFaults
    BY ConstantsAssumption
  <1>2. Fault => faults' \in 0..MaxFaults
    BY <1>1 DEF Fault, TypeOK
  <1>3. ASSUME UNCHANGED available, qi' = qi, pc' = pc, held' = held PROVE Control'
    <2>1. MostAvailable' = MostAvailable
      <3>1. Whole' = Whole /\ available' = available
        BY <1>3 DEF Whole
      <3> QED BY <3>1 DEF MostAvailable
    <2>2. NotEnough(qi)' <=> NotEnough(qi)
      BY <1>3, <2>1 DEF NotEnough, MinGpu
    <2> QED BY <1>3, <2>2 DEF Control
  <1>4. ASSUME Crash, qi' \in Queues, faults' \in 0..MaxFaults, published' \in BOOLEAN,
               queue' \in [Queues -> SUBSET Tasks],
               UNCHANGED <<known, seen, available, allocated, reserved, expired, slots>>
        PROVE  TypeOK' /\ Control'
    BY <1>4, CrashTypes DEF TypeOK, Control, PCs
  \* the daemon moves on with no task in hand
  <1>5. ASSUME held' = NoTask, qi' \in Queues, faults' \in 0..MaxFaults,
               pc' \in {"top", "account", "props", "peek", "pull"},
               pc' = "pull" => qi' = qi /\ ~NotEnough(qi),
               UNCHANGED <<known, published, available, ledgerVars, slots, missed>>,
               queue' \in [Queues -> SUBSET Tasks], seen' \subseteq SUBSET Slots,
               child' \in [Tasks -> ChildStates]
        PROVE  TypeOK' /\ Control'
    <2>1. MostAvailable' = MostAvailable
      <3>1. Whole' = Whole /\ available' = available
        BY <1>5 DEF Whole
      <3> QED BY <3>1 DEF MostAvailable
    <2>2. pc' = "pull" => ~NotEnough(qi)'
      BY <1>5, <2>1 DEF NotEnough, MinGpu
    <2> QED BY <1>5, <2>2 DEF TypeOK, Control, PCs, ledgerVars
  <1>6. queue \in [Queues -> SUBSET Tasks] /\ seen \subseteq SUBSET Slots /\ known \subseteq SUBSET Slots
        /\ child \in [Tasks -> ChildStates] /\ qi \in Queues /\ faults \in 0..MaxFaults
        /\ published \in BOOLEAN /\ (pc \notin {"alloc", "launch", "boot"} => held = NoTask)
    BY DEF TypeOK, Control
  <1>7. \A t \in Tasks, x \in ChildStates : [child EXCEPT ![t] = x] \in [Tasks -> ChildStates]
    BY <1>6
  <1>8. {"boot", "run", "done"} \subseteq ChildStates
    BY DEF ChildStates
  <1>9. NextQueue => qi' \in Queues /\ pc' \in {"peek", "top"}
    BY <1>6 DEF NextQueue
  <1>10. CASE Setup
    BY <1>5, <1>6, <1>10 DEF Setup, serverVars, childVars
  <1>11. CASE QueryWorkers
    <2>1. seen' \subseteq SUBSET Slots /\ pc' \in {"top", "account"} /\ faults' \in 0..MaxFaults
      BY <1>2, <1>6, <1>11 DEF QueryWorkers
    <2> QED BY <1>5, <1>6, <1>11, <2>1 DEF QueryWorkers, serverVars, childVars
  <1>12. CASE AccountReservations
    <2> DEFINE used(g) == Registered(g) + SumSizes(On(g, StillPending))
               free == {g \in Gpus : used(g) < Unit}
    <2>1. \A g \in Gpus : used(g) \in Nat
      <3> TAKE g \in Gpus
      <3>1. On(g, StillPending) \in SUBSET Slots /\ On(g, UNION seen) \in SUBSET Slots
        BY UsedType DEF On, StillPending
      <3>2. {s \in On(g, UNION seen) : s.letter # 0} \in SUBSET Slots
        BY <3>1
      <3>3. Registered(g) \in Nat
        BY <3>2, UnitsFinite, ConstantsAssumption DEF Registered
      <3>4. SumSizes(On(g, StillPending)) \in Nat
        BY <3>1, UnitsFinite
      <3> QED BY <3>3, <3>4
    <2>2. available' = [g \in free |-> Unit - used(g)]
      BY <1>12 DEF AccountReservations
    <2> HIDE DEF used
    <2>3. DOMAIN available' \subseteq Gpus
          /\ \A g \in DOMAIN available' : available'[g] \in -Unit..Unit /\ available'[g] <= Unit
      <3>1. \A g \in free : used(g) \in Nat /\ used(g) < Unit /\ g \in Gpus
        BY <2>1
      <3>2. \A x \in Nat : x < Unit => Unit - x \in -Unit..Unit /\ Unit - x <= Unit
        BY ConstantsAssumption
      <3> HIDE DEF free
      <3> QED BY <2>2, <3>1, <3>2
    <2>4. pc' \in {"top", "props"} /\ qi' \in Queues /\ held' = NoTask
      BY <1>6, <1>12, QueueFacts DEF AccountReservations, EnterPass
    <2>5. StillPending \subseteq Slots /\ (UNION seen) \cup StillPending \subseteq Slots
      <3>1. StillPending \subseteq Slots /\ UNION seen \subseteq Slots
        BY UsedType DEF StillPending
      <3> QED BY <3>1
    <2>6. reserved' \subseteq Slots /\ expired' \subseteq reserved' /\ allocated' \subseteq Slots
          /\ UNCHANGED <<serverVars, held, seen, owner, childVars, faults>>
      BY <1>12, <2>5 DEF AccountReservations
    <2> HIDE DEF free
    <2> QED BY <2>3, <2>4, <2>6 DEF TypeOK, Control, PCs, serverVars, childVars
  <1>13. CASE GetProperties
    <2>1. CASE pc' = "peek" /\ UNCHANGED <<held, child, missed, owner, faults>>
      BY <1>5, <1>6, <1>13, <2>1 DEF GetProperties, serverVars, ledgerVars
    <2>2. CASE Fault /\ Crash
      BY <1>2, <1>4, <1>6, <1>13, <2>2 DEF GetProperties, serverVars
    <2> QED BY <1>13, <2>1, <2>2 DEF GetProperties
  <1>14. CASE Peek
    <2>1. /\ held = NoTask
          /\ UNCHANGED <<serverVars, seen, available, allocated, reserved, expired, slots>>
      BY <1>6, <1>14 DEF Peek
    <2>2. CASE Fault /\ pc' = "top" /\ UNCHANGED <<qi, held, child, missed, owner>>
      BY <1>2, <1>5, <1>6, <2>1, <2>2 DEF serverVars, ledgerVars
    <2>3. CASE NextQueue /\ UNCHANGED <<held, child, missed, owner, faults>>
      BY <1>5, <1>6, <1>9, <2>1, <2>3 DEF serverVars, ledgerVars
    <2>4. CASE Crash /\ UNCHANGED <<qi, faults>>
      BY <1>4, <1>6, <2>1, <2>4 DEF serverVars
    <2>5. CASE pc' = (IF NotEnough(qi) THEN "top" ELSE "pull") /\ UNCHANGED <<qi, held, child, missed, owner, faults>>
      BY <1>5, <1>6, <2>1, <2>5 DEF serverVars, ledgerVars
    <2> QED BY <1>14, <2>2, <2>3, <2>4, <2>5 DEF Peek
  <1>15. CASE GetNextTask
    <2>1. /\ pc = "pull" /\ held = NoTask /\ ~NotEnough(qi)
          /\ UNCHANGED <<known, published, seen, available, allocated, reserved, expired, slots>>
      BY <1>6, <1>15 DEF GetNextTask, Control
    <2>2. ASSUME NEW t \in queue[qi], queue' = [queue EXCEPT ![qi] = @ \ {t}],
                 held' = t /\ pc' = "alloc" /\ UNCHANGED <<qi, child, missed, owner, faults>>
          PROVE  TypeOK' /\ Control'
      <3>1. t \in Tasks /\ t # NoTask /\ queue' \in [Queues -> SUBSET Tasks]
        BY <1>6, <2>2, ConstantsAssumption
      <3>2. MostAvailable' = MostAvailable
        <4>1. Whole' = Whole /\ available' = available
          BY <2>1 DEF Whole
        <4> QED BY <4>1 DEF MostAvailable
      <3>3. ~NotEnough(qi)'
        BY <2>1, <2>2, <3>2 DEF NotEnough, MinGpu
      <3> QED BY <2>1, <2>2, <3>1, <3>3 DEF TypeOK, Control, PCs
    <2>3. ASSUME NEW t \in queue[qi], queue' = [queue EXCEPT ![qi] = @ \ {t}],
                 Fault /\ child' = [child EXCEPT ![t] = "done"] /\ NextQueue
                 /\ UNCHANGED <<held, missed, owner>>
          PROVE  TypeOK' /\ Control'
      <3>1. queue' \in [Queues -> SUBSET Tasks] /\ t \in Tasks
        BY <1>6, <2>3
      <3>2. child' \in [Tasks -> ChildStates]
        BY <1>7, <1>8, <2>3, <3>1
      <3> QED BY <1>2, <1>5, <1>6, <1>9, <2>1, <2>3, <3>1, <3>2 DEF ledgerVars
    <2>4. CASE NextQueue /\ UNCHANGED <<queue, held, child, missed, owner>>
               /\ (UNCHANGED faults \/ Fault)
      BY <1>2, <1>5, <1>6, <1>9, <2>1, <2>4 DEF ledgerVars
    <2>5. ASSUME NEW t \in queue[qi], queue' = [queue EXCEPT ![qi] = @ \ {t}],
                 Fault /\ Crash /\ UNCHANGED qi
          PROVE  TypeOK' /\ Control'
      <3>1. queue' \in [Queues -> SUBSET Tasks]
        BY <1>6, <2>5
      <3> QED BY <1>2, <1>4, <1>6, <2>1, <2>5, <3>1
    <2> QED BY <1>15, <2>2, <2>3, <2>4, <2>5 DEF GetNextTask
  <1>16. CASE Allocate
    BY <1>16, AllocateTypes
  <1>17. ASSUME AfterRun, faults' \in 0..MaxFaults,
                UNCHANGED <<serverVars, seen, available, ledgerVars, childVars>>
         PROVE  TypeOK' /\ Control'
    <2>1. held' = NoTask /\ pc' \in {"top", "props"} /\ qi' \in Queues
      BY <1>6, <1>17 DEF AfterRun
    <2> QED BY <1>5, <1>6, <1>17, <2>1 DEF serverVars, childVars
  <1>18. CASE Launch
    <2>1. /\ UNCHANGED <<serverVars, seen, available, allocated, reserved, expired, slots>>
          /\ held \in Tasks /\ pc = "launch"
      BY <1>6, <1>18 DEF Launch, Control, TypeOK
    <2>2. CASE child' = [child EXCEPT ![held] = "boot"] /\ pc' = "boot"
               /\ UNCHANGED <<qi, held, missed, owner, faults>>
      <3>1. child' \in [Tasks -> ChildStates]
        BY <1>7, <1>8, <2>1, <2>2
      <3> QED BY <2>1, <2>2, <3>1 DEF TypeOK, Control, PCs, serverVars
    <2>3. CASE Fault /\ AfterRun /\ UNCHANGED <<child, missed, owner>>
      BY <1>2, <1>17, <2>1, <2>3 DEF ledgerVars, childVars
    <2>4. CASE Fault /\ Crash /\ UNCHANGED qi
      BY <1>2, <1>4, <1>6, <2>1, <2>4 DEF serverVars
    <2> QED BY <1>18, <2>2, <2>3, <2>4 DEF Launch
  <1>19. CASE RunReturns
    BY <1>6, <1>17, <1>19 DEF RunReturns
  <1>20. ASSUME NEW t \in Tasks, TakesOver(t) \/ Register(t) \/ End(t) PROVE TypeOK' /\ Control'
    <2>1. Control'
      BY <1>3, <1>20 DEF TakesOver, Register, End
    <2>2. child' \in [Tasks -> ChildStates]
      BY <1>6, <1>7, <1>8, <1>20 DEF TakesOver, Register, End, childVars
    <2>3. known' \subseteq SUBSET Slots
      BY <1>20 DEF TakesOver, Register, End, serverVars, TypeOK
    <2> QED BY <1>20, <2>1, <2>2, <2>3 DEF TypeOK, TakesOver, Register, End, serverVars, ledgerVars, childVars
  <1>21. ASSUME NEW t \in Tasks, NEW q \in Queues, Enqueue(t, q) \/ Taken(t, q) PROVE TypeOK' /\ Control'
    <2>1. Control'
      BY <1>3, <1>21 DEF Enqueue, Taken
    <2>2. child' \in [Tasks -> ChildStates] /\ queue' \in [Queues -> SUBSET Tasks]
      BY <1>6, <1>7, <1>8, <1>21 DEF Enqueue, Taken, childVars
    <2> QED BY <1>21, <2>1, <2>2 DEF TypeOK, Enqueue, Taken, ledgerVars, childVars
  <1>22. ASSUME NEW w \in known, Forget(w) PROVE TypeOK' /\ Control'
    <2>1. Control'
      BY <1>3, <1>22 DEF Forget
    <2> QED BY <1>22, <2>1 DEF TypeOK, Forget, ledgerVars, childVars
  <1>23. ASSUME NEW s \in reserved, Expire(s) PROVE TypeOK' /\ Control'
    <2>1. Control'
      BY <1>3, <1>23 DEF Expire
    <2> QED BY <1>23, <2>1 DEF TypeOK, Expire, serverVars, childVars
  <1>24. CASE UNCHANGED vars
    <2>1. Control'
      BY <1>3, <1>24 DEF vars
    <2> QED BY <1>24, <2>1 DEF TypeOK, vars, serverVars, ledgerVars, childVars
  <1> QED BY <1>10, <1>11, <1>12, <1>13, <1>14, <1>15, <1>16, <1>18, <1>19, <1>20, <1>21,
             <1>22, <1>23, <1>24 DEF Next, Daemon

\* The state keeps its types with any queues, and when containers are late
\* and letters run out: no GPU is overdrawn by more than itself (worker.py,
\* run_tasks_loop and _reserve_dynamic_gpus).
THEOREM AllocationTypeOK == Spec => []TypeOK
  <1>1. Init => TypeOK /\ Control
    BY InvInit DEF Inv
  <1>2. TypeOK /\ Control /\ [Next]_vars => TypeOK' /\ Control'
    BY TypesStep
  <1> QED BY <1>1, <1>2, PTL DEF Spec

-----------------------------------------------------------------------------
(* A daemon whose requests are answered keeps its containers.              *)

\* In a pass some GPU has something left until the task is given its GPUs.
Offering ==
    /\ pc \in {"props", "peek", "pull", "alloc"} => DOMAIN available # {}
    /\ NothingShutDown

LEMMA OfferingStep ==
  ASSUME TypeOK, Control, Offering, FixedShares, ~OrderFairness, [Next]_vars
  PROVE  Offering'
  <1> USE DEF Offering, NothingShutDown
  <1>1. MaxFaults = 0 => ~Fault
    BY ConstantsAssumption DEF TypeOK, Fault
  <1>2. ASSUME UNCHANGED <<available, child>>,
               \/ pc' = pc
               \/ pc' \in {"setup", "top", "account", "launch", "boot"}
               \/ pc \in {"props", "peek", "pull", "alloc"}
        PROVE  Offering'
    BY <1>2
  <1>3. ASSUME MaxFaults # 0, pc' = "setup" PROVE Offering'
    BY <1>3
  <1>4. ASSUME NEW t \in Tasks, NEW x \in ChildStates \ {"shut"}, child' = [child EXCEPT ![t] = x]
        PROVE  NothingShutDown'
    BY <1>4 DEF TypeOK
  <1>5. {"boot", "run", "done"} \subseteq ChildStates \ {"shut"}
    BY DEF ChildStates
  <1>6. NextQueue => pc' \in {"peek", "top"}
    BY DEF NextQueue
  <1>7. AfterRun => pc' = "top"
    BY DEF AfterRun
  <1>8. CASE Setup \/ QueryWorkers
    BY <1>2, <1>8 DEF Setup, QueryWorkers, childVars
  <1>9. CASE AccountReservations
    <2> DEFINE used(g) == Registered(g) + SumSizes(On(g, StillPending))
               free == {g \in Gpus : used(g) < Unit}
    <2>1. available' = [g \in free |-> Unit - used(g)] /\ EnterPass(free) /\ child' = child
      BY <1>9 DEF AccountReservations, childVars
    <2>2. free # {} \/ pc' = "top"
      BY <2>1 DEF EnterPass
    <2> HIDE DEF free
    <2>3. DOMAIN available' = free
      BY <2>1
    <2> QED BY <2>1, <2>2, <2>3
  <1>10. CASE GetProperties
    BY <1>1, <1>2, <1>3, <1>10 DEF GetProperties, Crash
  <1>11. CASE Peek
    <2>1. UNCHANGED available /\ pc = "peek" /\ DOMAIN available # {}
      BY <1>11 DEF Peek
    <2>2. UNCHANGED child
      BY <1>11, <2>1 DEF Peek
    <2> QED BY <1>2, <2>1, <2>2
  <1>12. CASE GetNextTask
    <2>1. UNCHANGED available /\ pc = "pull"
      BY <1>12 DEF GetNextTask
    <2>2. CASE UNCHANGED child \/ \E t \in queue[qi] : child' = [child EXCEPT ![t] = "done"]
      <3>1. \A t \in queue[qi] : t \in Tasks
        BY DEF TypeOK
      <3>2. NothingShutDown'
        BY <1>4, <1>5, <2>2, <3>1
      <3> QED BY <2>1, <3>2
    <2>3. CASE Fault /\ Crash
      BY <1>1, <1>3, <2>3 DEF Crash
    <2> QED BY <1>12, <2>2, <2>3 DEF GetNextTask
  <1>13. CASE Allocate
    <2>1. ~TakePartial(qi) /\ ~(MaxFaults = 0 /\ FractionFails(qi))
      <3>1. qi \in Queues /\ (pc = "alloc" => ~NotEnough(qi))
        BY DEF TypeOK, Control
      <3> QED BY <1>1, <1>13, <3>1, NothingPartial DEF Allocate, TakePartial, FractionFails
    <2>2. CASE FractionFails(qi)
      BY <1>3, <2>1, <2>2 DEF FractionFails, Crash
    <2>3. ASSUME NEW S, NEW left, Grant(S, left) PROVE Offering'
      BY <2>3 DEF Grant
    <2> QED BY <1>13, <2>1, <2>2, <2>3 DEF Allocate, TakeWhole, TakeFraction
  <1>14. CASE Launch
    <2>1. held \in Tasks
      BY <1>14 DEF Launch, Control, TypeOK
    <2>2. CASE child' = [child EXCEPT ![held] = "boot"] /\ pc' = "boot"
      BY <1>4, <1>5, <2>1, <2>2
    <2>3. CASE Fault /\ AfterRun /\ UNCHANGED child
      BY <1>7, <2>3
    <2>4. CASE Fault /\ Crash
      BY <1>1, <1>3, <2>4 DEF Crash
    <2> QED BY <1>14, <2>2, <2>3, <2>4 DEF Launch
  <1>15. CASE RunReturns
    BY <1>7, <1>15 DEF RunReturns, childVars
  <1>16. ASSUME NEW t \in Tasks, TakesOver(t) \/ End(t) \/ \E q \in Queues : Taken(t, q) PROVE Offering'
    <2>1. child' = [child EXCEPT ![t] = "run"] \/ child' = [child EXCEPT ![t] = "done"]
      BY <1>16 DEF TakesOver, End, Taken
    <2>2. NothingShutDown'
      BY <1>4, <1>5, <2>1
    <2> QED BY <1>16, <2>2 DEF TakesOver, End, Taken
  <1>17. ASSUME NEW t \in Tasks, Register(t) \/ \E q \in Queues : Enqueue(t, q) PROVE Offering'
    BY <1>2, <1>17 DEF Register, Enqueue, childVars
  <1>18. CASE (\E w \in known : Forget(w)) \/ \E s \in reserved : Expire(s)
    BY <1>2, <1>18 DEF Forget, Expire, childVars
  <1>19. CASE UNCHANGED vars
    BY <1>2, <1>19 DEF vars, childVars
  <1> QED BY <1>8, <1>9, <1>10, <1>11, <1>12, <1>13, <1>14, <1>15, <1>16, <1>17, <1>18, <1>19
          DEF Next, Daemon

\* With queues served by priority, no container is stopped while all requests
\* are answered: a pass that would find no GPU at all never begins, and one
\* allocation is made in a pass (run_tasks_loop).
THEOREM NoNeedlessShutdown == FixedShares /\ ~OrderFairness => (Spec => []NothingShutDown)
  <1> SUFFICES ASSUME FixedShares, ~OrderFairness PROVE Spec => []NothingShutDown
    OBVIOUS
  <1>1. Init => TypeOK /\ Control /\ Offering
    BY InvInit DEF Inv, Init, Offering, NothingShutDown
  <1>2. TypeOK /\ Control /\ Offering /\ [Next]_vars => TypeOK' /\ Control' /\ Offering'
    BY TypesStep, OfferingStep
  <1>3. Offering => NothingShutDown
    BY DEF Offering
  <1> QED BY <1>1, <1>2, <1>3, PTL DEF Spec
=============================================================================
