------------------------ MODULE LegacyThreadPool_proofs ------------------------
(***************************************************************************)
(* Theorems about LegacyThreadPool, for pools of any size and any number   *)
(* of tasks: a task is in one place and runs once, none is left to         *)
(* sleeping threads, and a pool that is stopped has run what it was given. *)
(*                                                                         *)
(* They rest on where the threads are (ThreadInv): one that leaves was     *)
(* told to, and is being joined (OwnerInv); so that outside of a shrink    *)
(* every thread the pool counts will look at the queue again.              *)
(***************************************************************************)
EXTENDS LegacyThreadPool, FiniteSetTheorems, SequenceTheorems, TLAPS

(* The owner is in tryShrinkPool, or in stop.                              *)
Shrinking == {"shrink", "notify to shrink", "join"}
Ending == {"notify to stop", "join all", "stopped"}

(* Where a thread is, and what it has in hand and in its flags.            *)
ThreadInv(t) ==
  /\ idle[t] <=> pc[t] \in {"test", "asleep", "awake", "unidle"}
  /\ inited[t] <=> pc[t] # "none"
  /\ task[t] # NoTask => pc[t] \in {"run", "unidle"}
  /\ pc[t] = "run" => task[t] # NoTask
  /\ pc[t] = "exited" \/ (pc[t] = "unidle" /\ task[t] = NoTask) =>
       /\ abort[t] \/ isDone
       /\ isDone => taskQueue = <<>>
  /\ abort[t] /\ inited[t] => t \in joining

ThreadsInv == \A t \in Threads : ThreadInv(t)

OwnerInv ==
  /\ main \in {"check", "push"} => pushing
  /\ main = "idle" => ~pushing
  /\ pushing => /\ main \in {"check", "push", "notify"} \cup Shrinking
                /\ main # "notify" => Len(type) < NumTasks
  /\ main \notin {"remove", "put back"} => notStopTasks = <<>>
  /\ main = "put back" => notStopTasks # <<>>
  /\ isDone <=> main \in Ending
  /\ joining # {} => main \in Shrinking
  /\ main = "stopped" => taskQueue = <<>> /\ \A t \in Threads : task[t] = NoTask

(* How many threads there are, and are idle.                               *)
NumberInv ==
  /\ joining \subseteq Inited
  /\ main # "stopped" => Cardinality(joining) <= Cardinality(Inited) - MinThreads
  /\ idleThreadNum = Cardinality({t \in Threads : idle[t]})

Served == unannounced \/ \E t \in Inited : pc[t] \notin {"asleep", "exited"}

(* A shrink leaves MinThreads, and once it has notified none of them goes  *)
(* to sleep before the queue is empty.                                     *)
ServedInv ==
  taskQueue # <<>> =>
    /\ main \in {"idle", "check", "push", "put back"} => Served
    /\ main = "join" => \A t \in Threads : pc[t] # "asleep"

(* The places a task may be in, and whether it has been pushed.            *)
InHand(k) == Cardinality({t \in Threads : task[t] = k})

Places(k) ==
  Count(taskQueue, k) + Count(notStopTasks, k) + InHand(k) + ran[k]
    + Cardinality({k} \cap removed)

PlaceInv == \A k \in Tasks : Places(k) = IF k <= Len(type) THEN 1 ELSE 0

(* The types, but for what is counted.                                     *)
Types1 ==
  /\ isFixedSize \in BOOLEAN /\ isDone \in BOOLEAN
  /\ pushing \in BOOLEAN /\ unannounced \in BOOLEAN
  /\ taskQueue \in Seq(Tasks) /\ notStopTasks \in Seq(Tasks)
  /\ type \in Seq(Types) /\ Len(type) <= NumTasks
  /\ idle \in [Threads -> BOOLEAN] /\ abort \in [Threads -> BOOLEAN]
  /\ inited \in [Threads -> BOOLEAN]
  /\ pc \in [Threads -> {"none", "pop", "run", "lock", "test", "asleep", "awake",
                         "unidle", "exited"}]
  /\ task \in [Threads -> Tasks \cup {NoTask}]
  /\ main \in {"idle", "check", "shrink", "notify to shrink", "join", "push", "notify",
              "remove", "put back", "notify to stop", "join all", "stopped"}
  /\ joining \subseteq Threads /\ stopping \subseteq Types
  /\ ran \in [Tasks -> Nat] /\ removed \subseteq Tasks

IInv ==
  /\ Types1
  /\ ThreadsInv
  /\ OwnerInv
  /\ NumberInv
  /\ ServedInv
  /\ PlaceInv

------------------------------------------------------------------------------
(* Sets of threads are finite.                                             *)
LEMMA ThreadsFinite ==
  /\ IsFiniteSet(Threads) /\ Cardinality(Threads) = MaxThreads
  /\ \A S \in SUBSET Threads :
       /\ IsFiniteSet(S) /\ Cardinality(S) \in Nat
       /\ Cardinality(S) <= MaxThreads
<1>1. MaxThreads \in Nat /\ 1 \in Int /\ MaxThreads \in Int
  BY LegacyThreadPoolAssumption
<1>2. IsFiniteSet(1..MaxThreads) /\ Cardinality(1..MaxThreads) = MaxThreads
  BY <1>1, FS_Interval
<1>3. IsFiniteSet(Threads) /\ Cardinality(Threads) = MaxThreads
  BY <1>2 DEF Threads
<1>4. ASSUME NEW S \in SUBSET Threads
      PROVE  /\ IsFiniteSet(S) /\ Cardinality(S) \in Nat
             /\ Cardinality(S) <= MaxThreads
  BY <1>3, FS_Subset, FS_CardinalityType
<1>5. QED
  BY <1>3, <1>4

(* One thread more, or less, has a property.                               *)
LEMMA OneMore ==
  ASSUME NEW S \in SUBSET Threads, NEW T \in SUBSET Threads, NEW t \in Threads \ S,
         T = S \cup {t}
  PROVE  Cardinality(T) = Cardinality(S) + 1
BY ThreadsFinite, FS_AddElement

(* What a thread takes in hand, it has once more.                          *)
LEMMA TakeInHand ==
  ASSUME NEW f \in [Threads -> Tasks \cup {NoTask}], NEW t \in Threads, NEW x \in Tasks,
         f[t] = NoTask, NEW k \in Tasks
  PROVE  Cardinality({u \in Threads : [f EXCEPT ![t] = x][u] = k}) =
           Cardinality({u \in Threads : f[u] = k}) + IF x = k THEN 1 ELSE 0
<1> DEFINE S == {u \in Threads : f[u] = k}
           T == {u \in Threads : [f EXCEPT ![t] = x][u] = k}
<1>1. NoTask \notin Tasks
  BY LegacyThreadPoolAssumption DEF Tasks
<1>2. Cardinality(S) \in Nat
  BY ThreadsFinite
<1>3. x = k => T = S \cup {t} /\ t \notin S
  BY <1>1
<1>4. x # k => T = S
  BY <1>1
<1>5. S \in SUBSET Threads /\ T \in SUBSET Threads
  OBVIOUS
<1> HIDE DEF S, T
<1>6. x = k => Cardinality(T) = Cardinality(S) + 1
  BY <1>3, <1>5, OneMore
<1>7. Cardinality(T) = Cardinality(S) + IF x = k THEN 1 ELSE 0
  BY <1>2, <1>4, <1>6
<1>8. QED
  BY <1>7 DEF S, T

(* What it has done with, it has no longer.                                *)
LEMMA LeaveHand ==
  ASSUME NEW f \in [Threads -> Tasks \cup {NoTask}], NEW t \in Threads,
         f[t] \in Tasks, NEW k \in Tasks
  PROVE  Cardinality({u \in Threads : f[u] = k}) =
           Cardinality({u \in Threads : [f EXCEPT ![t] = NoTask][u] = k})
             + IF f[t] = k THEN 1 ELSE 0
<1> DEFINE g == [f EXCEPT ![t] = NoTask]
<1>1. g \in [Threads -> Tasks \cup {NoTask}] /\ g[t] = NoTask
  OBVIOUS
<1>2. [g EXCEPT ![t] = f[t]] = f
  OBVIOUS
<1>3. QED
  BY <1>1, <1>2, TakeInHand

------------------------------------------------------------------------------
(* How often a task is in a sequence.                                      *)
LEMMA CountFinite ==
  ASSUME NEW s \in Seq(Tasks), NEW k
  PROVE  /\ IsFiniteSet({i \in DOMAIN s : s[i] = k})
         /\ Count(s, k) \in Nat
<1>1. Len(s) \in Nat /\ DOMAIN s = 1..Len(s)
  BY LenProperties
<1> DEFINE n == Len(s)
           S == {i \in DOMAIN s : s[i] = k}
<1>2. n \in Nat /\ 1 \in Int /\ n \in Int
  BY <1>1
<1>3. S \in SUBSET (1..n)
  BY <1>1
<1> HIDE DEF n
<1>4. IsFiniteSet(1..n)
  BY <1>2, FS_Interval
<1>5. IsFiniteSet(S)
  BY <1>3, <1>4, FS_Subset
<1>6. Cardinality(S) \in Nat
  BY <1>5, FS_CardinalityType
<1>7. QED
  BY <1>5, <1>6 DEF Count

LEMMA CountEmpty == \A k : Count(<<>>, k) = 0
<1>1. ASSUME NEW k PROVE {i \in DOMAIN <<>> : <<>>[i] = k} = {}
  OBVIOUS
<1>2. QED
  BY <1>1, FS_EmptySet DEF Count

LEMMA CountAppend ==
  ASSUME NEW s \in Seq(Tasks), NEW x \in Tasks, NEW k
  PROVE  Count(Append(s, x), k) = Count(s, k) + IF x = k THEN 1 ELSE 0
<1> DEFINE n == Len(s)
           S == {i \in DOMAIN s : s[i] = k}
           T == {i \in DOMAIN Append(s, x) : Append(s, x)[i] = k}
<1>1. n \in Nat /\ DOMAIN s = 1..n
  BY LenProperties
<1>2. /\ DOMAIN Append(s, x) = 1..(n + 1)
      /\ \A i \in 1..n : Append(s, x)[i] = s[i]
      /\ Append(s, x)[n + 1] = x
  BY AppendProperties, LenProperties
<1>3. IsFiniteSet(S) /\ Cardinality(S) \in Nat
  BY CountFinite DEF Count
<1> HIDE DEF n
<1>4. n + 1 \notin 1..n /\ 1..(n + 1) = 1..n \cup {n + 1}
  BY <1>1
<1>5. x = k => T = S \cup {n + 1} /\ n + 1 \notin S
  BY <1>1, <1>2, <1>4
<1>6. x # k => T = S
  BY <1>1, <1>2, <1>4
<1> HIDE DEF S, T
<1>7. x = k => Cardinality(T) = Cardinality(S) + 1
  BY <1>3, <1>5, FS_AddElement
<1>8. Cardinality(T) = Cardinality(S) + IF x = k THEN 1 ELSE 0
  BY <1>3, <1>6, <1>7
<1>9. QED
  BY <1>8 DEF Count, S, T

LEMMA CountTail ==
  ASSUME NEW s \in Seq(Tasks), s # <<>>, NEW k
  PROVE  Count(s, k) = Count(Tail(s), k) + IF Head(s) = k THEN 1 ELSE 0
<1> DEFINE n == Len(s)
           r == Tail(s)
           S == {i \in DOMAIN s : s[i] = k}
           T == {i \in DOMAIN r : r[i] = k}
           U == S \ {1}
           f == [i \in T |-> i + 1]
<1>1. n \in Nat \ {0} /\ DOMAIN s = 1..n /\ Head(s) = s[1]
  BY EmptySeq, LenProperties
<1>2. /\ r \in Seq(Tasks)
      /\ DOMAIN r = 1..(n - 1)
      /\ \A i \in 1..(n - 1) : r[i] = s[i + 1]
  BY HeadTailProperties, LenProperties
<1>3. IsFiniteSet(S) /\ IsFiniteSet(T) /\ Cardinality(S) \in Nat /\ Cardinality(T) \in Nat
  BY <1>2, CountFinite DEF Count
<1> HIDE DEF n, r
<1>4. T = {i \in 1..(n - 1) : s[i + 1] = k} /\ U = {i \in 2..n : s[i] = k}
  BY <1>1, <1>2
<1>5. f \in Bijection(T, U)
  <2> HIDE DEF T, U
  <2>1. \A i \in T : f[i] = i + 1 /\ i + 1 \in U /\ i \in Int
    BY <1>1, <1>4
  <2>2. \A j \in U : j - 1 \in T /\ f[j - 1] = j
    BY <1>1, <1>4
  <2>3. \A i, j \in T : f[i] = f[j] => i = j
    BY <2>1
  <2>4. f \in [T -> U]
    BY <2>1
  <2>5. QED
    <3> HIDE DEF f
    <3>1. f \in Injection(T, U)
      BY <2>3, <2>4 DEF Injection, IsInjective
    <3>2. f \in Surjection(T, U)
      BY <2>2, <2>4 DEF Surjection
    <3>3. QED
      BY <3>1, <3>2 DEF Bijection
<1>6. Cardinality(T) = Cardinality(U)
  BY <1>3, <1>5, FS_Bijection DEF ExistsBijection
<1>7. Cardinality(U) = IF 1 \in S THEN Cardinality(S) - 1 ELSE Cardinality(S)
  BY <1>3, FS_RemoveElement
<1>8. 1 \in S <=> Head(s) = k
  BY <1>1
<1> HIDE DEF S, T, U
<1>9. Cardinality(S) = Cardinality(T) + IF Head(s) = k THEN 1 ELSE 0
  BY <1>3, <1>6, <1>7, <1>8
<1>10. QED
  BY <1>9 DEF Count, S, T, r

------------------------------------------------------------------------------
(* A thread counts once, if at all.                                        *)
LEMMA OnceInSet ==
  \A k, R : Cardinality({k} \cap R) = IF k \in R THEN 1 ELSE 0
<1>1. ASSUME NEW k, NEW R PROVE {k} \cap R = IF k \in R THEN {k} ELSE {}
  OBVIOUS
<1>2. QED
  BY <1>1, FS_EmptySet, FS_Singleton

(* What is counted is a number.                                            *)
LEMMA PlacesNat ==
  ASSUME Types1, NEW k \in Tasks
  PROVE  /\ Count(taskQueue, k) \in Nat /\ Count(notStopTasks, k) \in Nat
         /\ InHand(k) \in Nat /\ ran[k] \in Nat
         /\ Cardinality({k} \cap removed) \in Nat
<1>1. InHand(k) \in Nat
  BY ThreadsFinite DEF InHand
<1>2. Count(taskQueue, k) \in Nat /\ Count(notStopTasks, k) \in Nat
  BY CountFinite DEF Types1
<1>3. Cardinality({k} \cap removed) = IF k \in removed THEN 1 ELSE 0
  BY OnceInSet
<1>4. Cardinality({k} \cap removed) \in Nat
  <2> DEFINE n == Cardinality({k} \cap removed)
  <2> HIDE DEF n
  <2>1. n = IF k \in removed THEN 1 ELSE 0
    BY <1>3 DEF n
  <2>2. n \in Nat
    BY <2>1
  <2>3. QED
    BY <2>2 DEF n
<1>5. QED
  BY <1>1, <1>2, <1>4 DEF Types1

(* The head of the queue is a task, and is nowhere else.                   *)
LEMMA HeadOnce ==
  ASSUME Types1, PlaceInv, taskQueue # <<>>
  PROVE  /\ Head(taskQueue) \in Tasks /\ Tail(taskQueue) \in Seq(Tasks)
         /\ Head(taskQueue) \notin removed
<1> DEFINE x == Head(taskQueue)
<1>1. x \in Tasks /\ Tail(taskQueue) \in Seq(Tasks)
  BY HeadTailProperties DEF Types1
<1>2. Count(Tail(taskQueue), x) \in Nat
  BY <1>1, CountFinite
<1>3. Count(taskQueue, x) = Count(Tail(taskQueue), x) + 1
  BY CountTail DEF Types1
<1>4. Places(x) <= 1
  BY <1>1 DEF PlaceInv
<1>5. Cardinality({x} \cap removed) = 0
  <2> HIDE DEF x
  <2>1. QED
    BY <1>1, <1>2, <1>3, <1>4, PlacesNat DEF Places
<1>6. QED
  BY <1>1, <1>5, OnceInSet

(* A step that moves no task.                                              *)
LEMMA PlaceStays ==
  ASSUME PlaceInv, UNCHANGED <<taskQueue, notStopTasks, task, ran, removed, type>>
  PROVE  PlaceInv'
BY DEF PlaceInv, Places, InHand, Count

(* A thread takes the task at the head of the queue.                       *)
LEMMA PlaceTaken ==
  ASSUME IInv, NEW t \in Threads, taskQueue # <<>>, task[t] = NoTask,
         task' = [task EXCEPT ![t] = Head(taskQueue)], taskQueue' = Tail(taskQueue),
         UNCHANGED <<notStopTasks, ran, removed, type, main>>
  PROVE  PlaceInv'
<1>1. SUFFICES ASSUME NEW k \in Tasks PROVE Places(k)' = Places(k)
  BY DEF PlaceInv, IInv
<1> DEFINE x == Head(taskQueue)
<1>2. x \in Tasks /\ Tail(taskQueue) \in Seq(Tasks)
  BY HeadOnce DEF IInv
<1>3. Count(taskQueue, k) = Count(taskQueue', k) + IF x = k THEN 1 ELSE 0
  BY CountTail DEF IInv, Types1
<1>4. InHand(k)' = InHand(k) + IF x = k THEN 1 ELSE 0
  <2>1. task \in [Threads -> Tasks \cup {NoTask}]
    BY DEF IInv, Types1
  <2>2. Cardinality({u \in Threads : [task EXCEPT ![t] = x][u] = k}) =
          Cardinality({u \in Threads : task[u] = k}) + IF x = k THEN 1 ELSE 0
    BY <1>2, <2>1, TakeInHand
  <2>3. QED
    BY <2>2 DEF InHand
<1>5. Count(taskQueue', k) \in Nat
  BY <1>2, CountFinite
<1>6. /\ Count(notStopTasks, k)' = Count(notStopTasks, k)
      /\ Count(taskQueue, k)' = Count(taskQueue', k)
      /\ ran'[k] = ran[k]
      /\ Cardinality({k} \cap removed') = Cardinality({k} \cap removed)
  BY DEF Count
<1> DEFINE one == IF x = k THEN 1 ELSE 0
<1>7. one \in Nat
  OBVIOUS
<1>8. /\ Count(taskQueue, k) \in Nat /\ Count(notStopTasks, k) \in Nat
      /\ InHand(k) \in Nat /\ ran[k] \in Nat
      /\ Cardinality({k} \cap removed) \in Nat
  BY PlacesNat DEF IInv
<1>9. Count(taskQueue, k) = Count(taskQueue', k) + one
  BY <1>3
<1>10. InHand(k)' = InHand(k) + one
  BY <1>4
<1> HIDE DEF x, one
<1>11. QED
  BY <1>5, <1>6, <1>7, <1>8, <1>9, <1>10 DEF Places

(* No thread has left, or was told to, outside of a shrink and a stop.     *)
LEMMA NobodyLeaves ==
  ASSUME IInv, main \notin Shrinking, main \notin Ending
  PROVE  \A t \in Threads :
           /\ inited[t] => ~abort[t]
           /\ pc[t] # "exited" /\ ~(pc[t] = "unidle" /\ task[t] = NoTask)
BY DEF IInv, ThreadsInv, ThreadInv, OwnerInv

(* The pool has a thread until it is stopped.                              *)
LEMMA SomeThread ==
  ASSUME IInv, main # "stopped"
  PROVE  \E t \in Threads : inited[t]
<1>1. Cardinality(Inited) \in Nat /\ Cardinality(joining) \in Nat
  BY ThreadsFinite DEF Inited, IInv, Types1
<1>2. Cardinality(Inited) # 0
  BY <1>1, LegacyThreadPoolAssumption DEF IInv, NumberInv
<1>3. Inited # {}
  BY <1>2, FS_EmptySet
<1>4. QED
  BY <1>3 DEF Inited

(* The set that StretchPool starts: threads that do not run.               *)
LEMMA Stretches ==
  ASSUME StretchPool
  PROVE  \E S \in SUBSET (Threads \ Inited) :
           Start(S) /\ UNCHANGED <<idleThreadNum, idle, task>>
<1>1. FirstOf(Threads \ Inited, StretchStep) \in SUBSET (Threads \ Inited)
  BY DEF FirstOf
<1>2. QED
  BY <1>1 DEF StretchPool

------------------------------------------------------------------------------
LEMMA InitInv == Init => IInv
<1> SUFFICES ASSUME Init PROVE IInv
  OBVIOUS
<1>1. Types1
  <2>1. /\ taskQueue \in Seq(Tasks) /\ notStopTasks \in Seq(Tasks)
        /\ type \in Seq(Types) /\ Len(type) = 0
    BY EmptySeq DEF Init
  <2>2. Len(type) <= NumTasks
    BY <2>1, LegacyThreadPoolAssumption
  <2>3. inited \in [Threads -> BOOLEAN] /\ abort \in [Threads -> BOOLEAN]
    BY DEF Init
  <2>4. pc \in [Threads -> {"none", "pop"}]
    BY DEF Init
  <2>5. ran \in [Tasks -> Nat]
    BY DEF Init
  <2>6. QED
    BY <2>1, <2>2, <2>3, <2>4, <2>5 DEF Init, Types1
<1>2. ThreadsInv
  BY DEF Init, ThreadsInv, ThreadInv
<1>3. OwnerInv
  BY DEF Init, OwnerInv, Shrinking, Ending
<1>4. NumberInv
  <2>1. {t \in Threads : idle[t]} = {} /\ joining = {}
    BY DEF Init
  <2>2. 1..MinThreads \in SUBSET Inited
    <3>1. 1..MinThreads \subseteq Threads
      BY LegacyThreadPoolAssumption DEF Threads
    <3>2. \A t \in Threads : t <= MinThreads => inited[t]
      BY DEF Init
    <3>3. \A t \in 1..MinThreads : t <= MinThreads
      BY LegacyThreadPoolAssumption
    <3>4. QED
      BY <3>1, <3>2, <3>3 DEF Inited
  <2>3. Cardinality(1..MinThreads) = MinThreads
    BY LegacyThreadPoolAssumption, FS_Interval
  <2>4. Inited \in SUBSET Threads
    BY DEF Inited
  <2>5. IsFiniteSet(Inited) /\ Cardinality(Inited) \in Nat
    BY <2>4, ThreadsFinite
  <2>6. MinThreads <= Cardinality(Inited)
    BY <2>2, <2>3, <2>5, FS_Subset
  <2>7. Cardinality(joining) = 0 /\ Cardinality({t \in Threads : idle[t]}) = 0
    BY <2>1, FS_EmptySet
  <2>8. Cardinality(joining) <= Cardinality(Inited) - MinThreads
    BY <2>5, <2>6, <2>7, LegacyThreadPoolAssumption
  <2>9. QED
    BY <2>1, <2>7, <2>8 DEF Init, NumberInv
<1>5. ServedInv
  BY DEF Init, ServedInv
<1>6. PlaceInv
  <2>1. SUFFICES ASSUME NEW k \in Tasks PROVE Places(k) = 0 /\ ~(k <= Len(type))
    BY DEF PlaceInv
  <2>2. Len(type) = 0 /\ k \in Nat \ {0}
    BY EmptySeq DEF Init, Tasks
  <2>3. ~(k <= Len(type))
    BY <2>2
  <2>4. {t \in Threads : task[t] = k} = {} /\ {k} \cap removed = {}
    BY LegacyThreadPoolAssumption DEF Init, Tasks
  <2>5. Count(taskQueue, k) = 0 /\ Count(notStopTasks, k) = 0
    BY CountEmpty DEF Init
  <2>6. InHand(k) = 0 /\ Cardinality({k} \cap removed) = 0
    BY <2>4, FS_EmptySet DEF InHand
  <2>7. ran[k] = 0
    BY DEF Init
  <2>8. QED
    BY <2>3, <2>5, <2>6, <2>7 DEF Places
<1>7. QED
  BY <1>1, <1>2, <1>3, <1>4, <1>5, <1>6 DEF IInv

------------------------------------------------------------------------------
LEMMA PopInv == ASSUME IInv, NEW t \in Threads, Pop(t) PROVE IInv'
<1>1. Types1'
  BY HeadOnce DEF IInv, Types1, Pop, Goto, flags, workers, removal, owner,
     history
<1>2. ThreadsInv'
  <2>1. taskQueue # <<>> => Head(taskQueue) \in Tasks
    BY HeadOnce DEF IInv
  <2>2. NoTask \notin Tasks
    BY LegacyThreadPoolAssumption DEF Tasks
  <2>3. SUFFICES ASSUME NEW u \in Threads PROVE ThreadInv(u)'
    BY DEF ThreadsInv
  <2>4. CASE u = t
    <3>1. task[t] = NoTask /\ task \in [Threads -> Tasks \cup {NoTask}] /\
       pc[t] = "pop"
      BY DEF IInv, Types1, ThreadsInv, ThreadInv, Pop
    <3>2. CASE taskQueue = <<>>
      BY <2>4, <3>1, <3>2 DEF IInv, Types1, ThreadsInv, ThreadInv, OwnerInv,
         Shrinking, Ending, Pop, Goto, flags, workers, removal, owner, history
    <3>3. CASE taskQueue # <<>>
      <4>1. task'[t] # NoTask /\ pc'[t] = "run"
        BY <2>1, <2>2, <3>1, <3>3 DEF IInv, Types1, Pop, Goto
      <4>2. QED
        BY <2>4, <3>1, <4>1 DEF IInv, Types1, ThreadsInv, ThreadInv, OwnerInv,
           Shrinking, Ending, Pop, Goto, flags, workers, removal, owner, history
    <3>4. QED
      BY <3>2, <3>3
  <2>5. CASE u # t
    BY <2>5 DEF IInv, Types1, ThreadsInv, ThreadInv, OwnerInv, Shrinking,
       Ending, Pop, Goto, flags, workers, removal, owner, history
  <2>6. QED
    BY <2>4, <2>5
<1>3. OwnerInv'
  BY DEF IInv, Types1, OwnerInv, Shrinking, Ending, Pop, Goto, flags,
     workers, removal, owner, history
<1>4. NumberInv'
  BY DEF IInv, OwnerInv, NumberInv, Inited, Shrinking, Pop, Goto, flags,
     workers, removal, owner, history
<1>5. ServedInv'
  BY DEF IInv, Types1, ServedInv, Served, Inited, Pop, Goto, flags, workers,
     removal, owner, history
<1>6. PlaceInv'
  <2>1. CASE taskQueue = <<>>
    BY <2>1, PlaceStays DEF IInv, Pop, Goto, flags, workers, removal, owner,
       history
  <2>2. CASE taskQueue # <<>>
    <3>1. task[t] = NoTask
      BY DEF IInv, ThreadsInv, ThreadInv, Pop
    <3>2. QED
      BY <2>2, <3>1, PlaceTaken DEF Pop, Goto, flags, workers, removal, owner,
         history
  <2>3. QED
    BY <2>1, <2>2
<1>7. QED
  BY <1>1, <1>2, <1>3, <1>4, <1>5, <1>6 DEF IInv

LEMMA RunInv == ASSUME IInv, NEW t \in Threads, Run(t) PROVE IInv'
<1>1. Types1'
  <2>1. task[t] \in Tasks
    BY DEF IInv, Types1, ThreadsInv, ThreadInv, Run
  <2>2. ran' \in [Tasks -> Nat]
    <3>1. ran \in [Tasks -> Nat] /\ ran' = [ran EXCEPT ![task[t]] = @ + 1]
      BY DEF IInv, Types1, Run
    <3>2. QED
      BY <2>1, <3>1
  <2>3. task' \in [Threads -> Tasks \cup {NoTask}]
    BY DEF IInv, Types1, Run
  <2>4. QED
    BY <2>2, <2>3 DEF IInv, Types1, Run, Goto, flags, workers, removal, owner,
       history
<1>2. ThreadsInv'
  BY DEF IInv, Types1, ThreadsInv, ThreadInv, OwnerInv, Shrinking, Ending,
     Run, Goto, flags, workers, removal, owner, history
<1>3. OwnerInv'
  BY DEF IInv, Types1, OwnerInv, Shrinking, Ending, Run, Goto, flags,
     workers, removal, owner, history
<1>4. NumberInv'
  BY DEF IInv, OwnerInv, NumberInv, Inited, Shrinking, Run, Goto, flags,
     workers, removal, owner, history
<1>5. ServedInv'
  BY NobodyLeaves DEF IInv, Types1, ServedInv, Served, Inited, ThreadsInv,
     ThreadInv, Shrinking, Ending, Run, Goto, flags, workers, removal, owner,
     history
<1>6. PlaceInv'
  <2>1. task[t] \in Tasks
    BY DEF IInv, Types1, ThreadsInv, ThreadInv, Run
  <2>2. SUFFICES ASSUME NEW k \in Tasks PROVE Places(k)' = Places(k)
    BY DEF IInv, PlaceInv, Run, Goto, flags, workers, removal, owner,
       history
  <2>3. InHand(k) = InHand(k)' + IF task[t] = k THEN 1 ELSE 0
    <3>1. task \in [Threads -> Tasks \cup {NoTask}]
      BY DEF IInv, Types1
    <3>2. Cardinality({u \in Threads : task[u] = k}) = Cardinality({u \in
       Threads : [task EXCEPT ![t] = NoTask][u] = k}) + IF task[t] = k THEN 1
       ELSE 0
      BY <2>1, <3>1, LeaveHand
    <3>3. task' = [task EXCEPT ![t] = NoTask]
      BY DEF Run
    <3>4. QED
      BY <3>2, <3>3 DEF InHand
  <2>4. ran'[k] = ran[k] + IF task[t] = k THEN 1 ELSE 0
    <3>1. ran \in [Tasks -> Nat] /\ ran' = [ran EXCEPT ![task[t]] = @ + 1]
      BY DEF IInv, Types1, Run
    <3>2. QED
      BY <2>1, <3>1
  <2>5. InHand(k)' \in Nat
    BY ThreadsFinite DEF InHand
  <2>6. Count(taskQueue, k)' = Count(taskQueue, k) /\ Count(notStopTasks, k)'
     = Count(notStopTasks, k) /\ removed' = removed
    BY DEF Count, Run, Goto, flags, workers, removal, owner, history
  <2>7. QED
    BY <2>3, <2>4, <2>5, <2>6, PlacesNat DEF IInv, Places
<1>7. QED
  BY <1>1, <1>2, <1>3, <1>4, <1>5, <1>6 DEF IInv

LEMMA BecomeIdleInv == ASSUME IInv, NEW t \in Threads, BecomeIdle(t) PROVE IInv'
<1>1. Types1'
  BY DEF IInv, Types1, BecomeIdle, Goto, flags, workers, removal, owner,
     history
<1>2. ThreadsInv'
  BY DEF IInv, Types1, ThreadsInv, ThreadInv, OwnerInv, Shrinking, Ending,
     BecomeIdle, Goto, flags, workers, removal, owner, history
<1>3. OwnerInv'
  BY DEF IInv, Types1, OwnerInv, Shrinking, Ending, BecomeIdle, Goto,
     flags, workers, removal, owner, history
<1>4. NumberInv'
  <2> DEFINE S == {u \in Threads : idle[u]}
             R == {u \in Threads : idle'[u]}
  <2>1. R = S \cup {t} /\ t \notin S
    BY DEF IInv, Types1, ThreadsInv, ThreadInv, BecomeIdle
  <2>2. S \in SUBSET Threads /\ R \in SUBSET Threads
    OBVIOUS
  <2> HIDE DEF S, R
  <2>3. Cardinality(R) = Cardinality(S) + 1
    BY <2>1, <2>2, OneMore
  <2>4. idleThreadNum' = Cardinality(R)
    BY <2>3 DEF IInv, NumberInv, BecomeIdle, S
  <2>5. QED
    BY <2>4 DEF IInv, NumberInv, Inited, R, BecomeIdle, Goto, flags, workers,
       removal, owner, history
<1>5. ServedInv'
  BY DEF IInv, Types1, ServedInv, Served, Inited, BecomeIdle, Goto, flags,
     workers, removal, owner, history
<1>6. PlaceInv'
  BY PlaceStays DEF IInv, BecomeIdle, Goto, flags, workers, removal,
     owner, history
<1>7. QED
  BY <1>1, <1>2, <1>3, <1>4, <1>5, <1>6 DEF IInv

LEMMA TestInv == ASSUME IInv, NEW t \in Threads, Test(t) PROVE IInv'
<1>1. Types1'
  BY HeadOnce DEF IInv, Types1, Test, Goto, flags, workers, removal, owner,
     history
<1>2. ThreadsInv'
  <2>1. taskQueue # <<>> => Head(taskQueue) \in Tasks
    BY HeadOnce DEF IInv
  <2>2. NoTask \notin Tasks
    BY LegacyThreadPoolAssumption DEF Tasks
  <2>3. SUFFICES ASSUME NEW u \in Threads PROVE ThreadInv(u)'
    BY DEF ThreadsInv
  <2>4. CASE u = t
    <3>1. task[t] = NoTask /\ task \in [Threads -> Tasks \cup {NoTask}] /\
       pc[t] = "test"
      BY DEF IInv, Types1, ThreadsInv, ThreadInv, Test
    <3>2. CASE taskQueue = <<>>
      BY <2>4, <3>1, <3>2 DEF IInv, Types1, ThreadsInv, ThreadInv, OwnerInv,
         Shrinking, Ending, Test, Goto, flags, workers, removal, owner, history
    <3>3. CASE taskQueue # <<>>
      <4>1. task'[t] # NoTask /\ pc'[t] = "unidle"
        BY <2>1, <2>2, <3>1, <3>3 DEF IInv, Types1, Test, Goto
      <4>2. QED
        BY <2>4, <3>1, <4>1 DEF IInv, Types1, ThreadsInv, ThreadInv, OwnerInv,
           Shrinking, Ending, Test, Goto, flags, workers, removal, owner, history
    <3>4. QED
      BY <3>2, <3>3
  <2>5. CASE u # t
    BY <2>5 DEF IInv, Types1, ThreadsInv, ThreadInv, OwnerInv, Shrinking,
       Ending, Test, Goto, flags, workers, removal, owner, history
  <2>6. QED
    BY <2>4, <2>5
<1>3. OwnerInv'
  BY DEF IInv, Types1, OwnerInv, Shrinking, Ending, Test, Goto,
     flags, workers, removal, owner, history
<1>4. NumberInv'
  BY DEF IInv, OwnerInv, NumberInv, Inited, Shrinking, Test, Goto, flags,
     workers, removal, owner, history
<1>5. ServedInv'
  BY DEF IInv, Types1, ServedInv, Served, Inited, Test, Goto, flags, workers,
     removal, owner, history
<1>6. PlaceInv'
  <2>1. CASE taskQueue = <<>>
    BY <2>1, PlaceStays DEF IInv, Test, Goto, flags, workers, removal, owner,
       history
  <2>2. CASE taskQueue # <<>>
    <3>1. task[t] = NoTask
      BY DEF IInv, ThreadsInv, ThreadInv, Test
    <3>2. QED
      BY <2>2, <3>1, PlaceTaken DEF Test, Goto, flags, workers, removal,
         owner, history
  <2>3. QED
    BY <2>1, <2>2
<1>7. QED
  BY <1>1, <1>2, <1>3, <1>4, <1>5, <1>6 DEF IInv

LEMMA WakeUpInv == ASSUME IInv, NEW t \in Threads, WakeUp(t) PROVE IInv'
<1>1. Types1'
  BY DEF IInv, Types1, WakeUp, Goto, flags, workers, removal, owner, history
<1>2. ThreadsInv'
  BY DEF IInv, Types1, ThreadsInv, ThreadInv, OwnerInv, Shrinking, Ending,
     WakeUp, Goto, flags, workers, removal, owner, history
<1>3. OwnerInv'
  BY DEF IInv, Types1, OwnerInv, Shrinking, Ending, WakeUp, Goto,
     flags, workers, removal, owner, history
<1>4. NumberInv'
  BY DEF IInv, OwnerInv, NumberInv, Inited, Shrinking, WakeUp, Goto, flags,
     workers, removal, owner, history
<1>5. ServedInv'
  BY DEF IInv, Types1, ServedInv, Served, Inited, WakeUp, Goto, flags,
     workers, removal, owner, history
<1>6. PlaceInv'
  BY PlaceStays DEF IInv, WakeUp, Goto, flags, workers, removal,
     owner, history
<1>7. QED
  BY <1>1, <1>2, <1>3, <1>4, <1>5, <1>6 DEF IInv

LEMMA EndIdleInv == ASSUME IInv, NEW t \in Threads, EndIdle(t) PROVE IInv'
<1>1. Types1'
  BY DEF IInv, Types1, EndIdle, Goto, flags, workers, removal, owner, history
<1>2. ThreadsInv'
  BY DEF IInv, Types1, ThreadsInv, ThreadInv, OwnerInv, Shrinking, Ending,
     EndIdle, Goto, flags, workers, removal, owner, history
<1>3. OwnerInv'
  BY DEF IInv, Types1, OwnerInv, Shrinking, Ending, EndIdle, Goto,
     flags, workers, removal, owner, history
<1>4. NumberInv'
  <2> DEFINE S == {u \in Threads : idle[u]}
             R == {u \in Threads : idle'[u]}
  <2>1. S = R \cup {t} /\ t \notin R
    BY DEF IInv, Types1, ThreadsInv, ThreadInv, EndIdle
  <2>2. S \in SUBSET Threads /\ R \in SUBSET Threads
    OBVIOUS
  <2> HIDE DEF S, R
  <2>3. Cardinality(S) = Cardinality(R) + 1 /\ Cardinality(R) \in Nat
    BY <2>1, <2>2, OneMore, ThreadsFinite
  <2>4. idleThreadNum' = Cardinality(R)
    BY <2>3 DEF IInv, NumberInv, EndIdle, S
  <2>5. QED
    BY <2>4 DEF IInv, NumberInv, Inited, R, EndIdle, Goto, flags, workers,
       removal, owner, history
<1>5. ServedInv'
  BY NobodyLeaves DEF IInv, Types1, ServedInv, Served, Inited, Shrinking,
     Ending, EndIdle, Goto, flags, workers, removal, owner, history
<1>6. PlaceInv'
  BY PlaceStays DEF IInv, EndIdle, Goto, flags, workers, removal,
     owner, history
<1>7. QED
  BY <1>1, <1>2, <1>3, <1>4, <1>5, <1>6 DEF IInv

LEMMA SpuriousWakeupInv == ASSUME IInv, NEW t \in Threads, SpuriousWakeup(t) PROVE IInv'
<1>1. Types1'
  BY DEF IInv, Types1, SpuriousWakeup, Goto, flags, workers, removal, owner,
     history
<1>2. ThreadsInv'
  BY DEF IInv, Types1, ThreadsInv, ThreadInv, OwnerInv, Shrinking, Ending,
     SpuriousWakeup, Goto, flags, workers, removal, owner, history
<1>3. OwnerInv'
  BY DEF IInv, Types1, OwnerInv, Shrinking, Ending, SpuriousWakeup,
     Goto, flags, workers, removal, owner, history
<1>4. NumberInv'
  BY DEF IInv, OwnerInv, NumberInv, Inited, Shrinking, SpuriousWakeup, Goto,
     flags, workers, removal, owner, history
<1>5. ServedInv'
  BY DEF IInv, Types1, ServedInv, Served, Inited, SpuriousWakeup, Goto, flags,
     workers, removal, owner, history
<1>6. PlaceInv'
  BY PlaceStays DEF IInv, SpuriousWakeup, Goto, flags, workers,
     removal, owner, history
<1>7. QED
  BY <1>1, <1>2, <1>3, <1>4, <1>5, <1>6 DEF IInv

------------------------------------------------------------------------------
(* pushTask starts some threads that do not run, or none.                  *)
LEMMA PushStarts ==
  ASSUME Types1, PushTask
  PROVE  \E S \in SUBSET (Threads \ Inited) :
           Start(S) /\ UNCHANGED <<idleThreadNum, idle, task>>
<1>1. CASE StretchPool
  BY <1>1, Stretches
<1>2. CASE UNCHANGED <<flags, workers>>
  <2>1. Start({})
    BY <1>2 DEF Start, Types1, flags, workers
  <2>2. QED
    BY <1>2, <2>1 DEF flags, workers
<1>3. QED
  BY <1>1, <1>2 DEF PushTask

LEMMA PushTaskInv == ASSUME IInv, PushTask PROVE IInv'
<1>0. PICK S \in SUBSET (Threads \ Inited) :
        Start(S) /\ UNCHANGED <<idleThreadNum, idle, task>>
  BY PushStarts DEF IInv
<1>1. Types1'
  <2>1. abort' \in [Threads -> BOOLEAN] /\ inited' \in [Threads -> BOOLEAN]
    BY <1>0 DEF IInv, Types1, Start
  <2>2. pc' \in [Threads -> {"none", "pop", "run", "lock", "test", "asleep",
     "awake", "unidle", "exited"}]
    BY <1>0 DEF IInv, Types1, Start
  <2>3. QED
    BY <1>0, <2>1, <2>2 DEF IInv, Types1, PushTask, removal, history
<1>2. ThreadsInv'
  BY <1>0 DEF IInv, Types1, ThreadsInv, ThreadInv, OwnerInv, Start, Inited,
     PushTask, owner, removal
<1>3. OwnerInv'
  <2>1. /\ main = "idle" /\ pushing' = TRUE /\ main' \in {"check", "push"}
        /\ Len(type) < NumTasks
    BY DEF PushTask
  <2>2. UNCHANGED <<task, taskQueue, joining, notStopTasks, isDone, type>>
    BY <1>0 DEF PushTask, removal, history
  <2>3. joining = {} /\ notStopTasks = <<>> /\ isDone = FALSE
    BY <2>1 DEF IInv, Types1, OwnerInv, Shrinking, Ending
  <2>4. Len(type') < NumTasks
    BY <2>1, <2>2
  <2>5. QED
    BY <2>1, <2>2, <2>3, <2>4 DEF OwnerInv, Shrinking, Ending
<1>4. NumberInv'
  <2>1. Inited' = Inited \cup S
    BY <1>0 DEF Inited, Start
  <2>2. Inited' \in SUBSET Threads /\ Inited \in SUBSET Inited'
    BY <2>1 DEF Inited
  <2>3. Cardinality(Inited) <= Cardinality(Inited') /\ Cardinality(Inited) \in
     Nat /\ Cardinality(Inited') \in Nat /\ Cardinality(joining) \in Nat
    BY <2>2, ThreadsFinite, FS_Subset DEF IInv, Types1
  <2>4. joining' = joining /\ main # "stopped" /\ idleThreadNum' =
     idleThreadNum /\ idle' = idle
    BY <1>0 DEF PushTask
  <2>5. Cardinality(joining) <= Cardinality(Inited') - MinThreads
    BY <2>3, <2>4, LegacyThreadPoolAssumption DEF IInv, NumberInv
  <2>6. QED
    BY <2>1, <2>4, <2>5 DEF IInv, NumberInv
<1>5. ServedInv'
  BY <1>0 DEF IInv, Types1, ServedInv, Served, Inited, Start, PushTask, flags,
     workers, removal, owner, history
<1>6. PlaceInv'
  BY <1>0, PlaceStays DEF IInv, PushTask, removal, history
<1>7. QED
  BY <1>1, <1>2, <1>3, <1>4, <1>5, <1>6 DEF IInv

LEMMA CheckQueueInv == ASSUME IInv, CheckQueue PROVE IInv'
<1>1. Types1'
  BY DEF IInv, Types1, CheckQueue, flags, workers, removal, owner,
     history
<1>2. ThreadsInv'
  BY DEF IInv, Types1, ThreadsInv, ThreadInv, OwnerInv, Shrinking, Ending,
     CheckQueue, flags, workers, removal, owner,
     history
<1>3. OwnerInv'
    BY DEF IInv, Types1, OwnerInv, Shrinking, Ending, CheckQueue, flags,
     workers, removal, owner, history
<1>4. NumberInv'
    BY DEF IInv, OwnerInv, NumberInv, Inited, Shrinking, CheckQueue, flags,
     workers, removal, owner, history
<1>5. ServedInv'
    BY DEF IInv, Types1, ServedInv, Served, Inited, CheckQueue, flags, workers,
     removal, owner, history
<1>6. PlaceInv'
  BY PlaceStays DEF IInv, CheckQueue, flags, workers, removal, owner,
     history
<1>7. QED
  BY <1>1, <1>2, <1>3, <1>4, <1>5, <1>6 DEF IInv

LEMMA TryShrinkPoolInv == ASSUME IInv, TryShrinkPool PROVE IInv'
<1>1. Types1'
  BY DEF IInv, Types1, TryShrinkPool, flags, workers, removal, owner,
     history
<1>2. ThreadsInv'
  BY DEF IInv, Types1, ThreadsInv, ThreadInv, OwnerInv, Shrinking, Ending,
     TryShrinkPool, flags, workers, removal, owner,
     history
<1>3. OwnerInv'
    BY DEF IInv, Types1, OwnerInv, Shrinking, Ending, TryShrinkPool, flags,
     workers, removal, owner, history
<1>4. NumberInv'
    BY DEF IInv, OwnerInv, NumberInv, Inited, Shrinking, TryShrinkPool, flags,
     workers, removal, owner, history
<1>5. ServedInv'
    BY DEF IInv, Types1, ServedInv, Served, Inited, TryShrinkPool, flags,
     workers, removal, owner, history
<1>6. PlaceInv'
  BY PlaceStays DEF IInv, TryShrinkPool, flags, workers, removal, owner,
     history
<1>7. QED
  BY <1>1, <1>2, <1>3, <1>4, <1>5, <1>6 DEF IInv

LEMMA ShrinkInv == ASSUME IInv, NEW t \in Threads, Shrink(t) PROVE IInv'
<1>1. Types1'
  BY DEF IInv, Types1, Shrink, flags, workers, removal, owner, history
<1>2. ThreadsInv'
  BY DEF IInv, Types1, ThreadsInv, ThreadInv, OwnerInv, Shrinking, Ending,
     Shrink, flags, workers, removal, owner, history
<1>3. OwnerInv'
  BY DEF IInv, Types1, OwnerInv, Shrinking, Ending, Shrink, flags,
     workers, removal, owner, history
<1>4. NumberInv'
  <2>1. inited[t]
    BY DEF IInv, ThreadsInv, ThreadInv, Shrink
  <2>2. joining' \in SUBSET Threads /\ joining \in SUBSET Threads
    BY DEF IInv, Types1, Shrink
  <2>3. Cardinality(joining') = Cardinality(joining) + 1
    BY <2>2, OneMore DEF Shrink
  <2>4. Cardinality(joining) \in Nat /\ Cardinality(Inited) \in Nat
    BY <2>2, ThreadsFinite DEF Inited
  <2>5. Inited' = Inited /\ joining' \subseteq Inited
    BY <2>1 DEF IInv, NumberInv, Shrink, Inited
  <2>6. Cardinality(joining') <= Cardinality(Inited) - MinThreads
    BY <2>3, <2>4, LegacyThreadPoolAssumption DEF Shrink
  <2>7. QED
    BY <2>5, <2>6 DEF IInv, NumberInv, Shrink
<1>5. ServedInv'
  BY DEF IInv, Types1, ServedInv, Served, Inited, Shrink, flags, workers,
     removal, owner, history
<1>6. PlaceInv'
  BY PlaceStays DEF IInv, Shrink, flags, workers, removal, owner,
     history
<1>7. QED
  BY <1>1, <1>2, <1>3, <1>4, <1>5, <1>6 DEF IInv

LEMMA EndShrinkInv == ASSUME IInv, EndShrink PROVE IInv'
<1>1. Types1'
  BY DEF IInv, Types1, EndShrink, flags, workers, removal, owner, history
<1>2. ThreadsInv'
  BY DEF IInv, Types1, ThreadsInv, ThreadInv, OwnerInv, Shrinking, Ending,
     EndShrink, flags, workers, removal, owner, history
<1>3. OwnerInv'
  BY DEF IInv, Types1, OwnerInv, Shrinking, Ending, EndShrink, flags,
     workers, removal, owner, history
<1>4. NumberInv'
  BY DEF IInv, OwnerInv, NumberInv, Inited, Shrinking, EndShrink, flags,
     workers, removal, owner, history
<1>5. ServedInv'
  BY DEF IInv, Types1, ServedInv, Served, Inited, EndShrink, flags, workers,
     removal, owner, history
<1>6. PlaceInv'
  BY PlaceStays DEF IInv, EndShrink, flags, workers, removal, owner,
     history
<1>7. QED
  BY <1>1, <1>2, <1>3, <1>4, <1>5, <1>6 DEF IInv

LEMMA NotifyAllInv == ASSUME IInv, NotifyAll PROVE IInv'
<1>1. Types1'
  BY DEF IInv, Types1, NotifyAll, WakeAll, flags, workers, removal, owner,
     history
<1>2. ThreadsInv'
  BY DEF IInv, Types1, ThreadsInv, ThreadInv, OwnerInv, Shrinking, Ending,
     NotifyAll, WakeAll, flags, workers, removal, owner, history
<1>3. OwnerInv'
  BY DEF IInv, Types1, OwnerInv, Shrinking, Ending, NotifyAll,
     WakeAll, flags, workers, removal, owner, history
<1>4. NumberInv'
  BY DEF IInv, OwnerInv, NumberInv, Inited, Shrinking, NotifyAll, WakeAll,
     flags, workers, removal, owner, history
<1>5. ServedInv'
  BY DEF IInv, Types1, ServedInv, Served, Inited, NotifyAll, WakeAll, flags,
     workers, removal, owner, history
<1>6. PlaceInv'
  BY PlaceStays DEF IInv, NotifyAll, WakeAll, flags, workers,
     removal, owner, history
<1>7. QED
  BY <1>1, <1>2, <1>3, <1>4, <1>5, <1>6 DEF IInv

LEMMA JoinIdleInv == ASSUME IInv, JoinIdle PROVE IInv'
<1>1. Types1'
  BY DEF IInv, Types1, JoinIdle, Joined, flags, workers, removal, owner,
     history
<1>2. ThreadsInv'
  BY DEF IInv, Types1, ThreadsInv, ThreadInv, OwnerInv, Shrinking, Ending,
     JoinIdle, Joined, flags, workers, removal, owner, history
<1>3. OwnerInv'
  BY DEF IInv, Types1, OwnerInv, Shrinking, Ending, JoinIdle, Joined,
     flags, workers, removal, owner, history
<1>4. NumberInv'
  <2>1. Inited' = Inited \ joining /\ joining' = {} /\ Inited \in SUBSET
     Threads
    BY DEF JoinIdle, Joined, Inited
  <2>2. Inited \cap joining = joining
    BY DEF IInv, NumberInv
  <2>3. IsFiniteSet(Inited) /\ IsFiniteSet(joining)
    BY <2>1, ThreadsFinite DEF IInv, Types1
  <2>4. Cardinality(Inited') = Cardinality(Inited) - Cardinality(joining)
    <3>1. Cardinality(Inited \ joining) = Cardinality(Inited) -
       Cardinality(Inited \cap joining)
      BY <2>3, FS_Difference
    <3>2. QED
      BY <2>1, <2>2, <3>1
  <2>5. Cardinality(Inited) \in Nat /\ Cardinality(joining) \in Nat
    BY <2>3, FS_CardinalityType
  <2>6. Cardinality(joining') = 0 /\ joining' \subseteq Inited'
    BY <2>1, FS_EmptySet
  <2>7. main # "stopped" /\ idle' = idle /\ idleThreadNum' = idleThreadNum
    BY DEF JoinIdle
  <2>8. 0 <= Cardinality(Inited') - MinThreads
    BY <2>4, <2>5, <2>7, LegacyThreadPoolAssumption DEF IInv, NumberInv
  <2>9. QED
    BY <2>6, <2>7, <2>8 DEF IInv, NumberInv
<1>5. ServedInv'
  <2>1. SUFFICES ASSUME taskQueue # <<>> PROVE Served'
    BY DEF ServedInv, JoinIdle
  <2>2. IsFiniteSet(Inited) /\ IsFiniteSet(joining) /\ Cardinality(Inited) \in Nat
    BY ThreadsFinite DEF IInv, Types1, Inited
  <2>3. Cardinality(joining) # Cardinality(Inited)
    BY <2>2, LegacyThreadPoolAssumption DEF IInv, NumberInv, JoinIdle
  <2>4. PICK t \in Threads : inited[t] /\ t \notin joining
    BY <2>3 DEF IInv, NumberInv, Inited
  <2>5. ~abort[t] /\ ~isDone
    BY <2>4 DEF IInv, ThreadsInv, ThreadInv, OwnerInv, Ending, JoinIdle
  <2>6. pc[t] \notin {"asleep", "exited"}
    BY <2>1, <2>5 DEF IInv, ThreadsInv, ThreadInv, ServedInv, JoinIdle
  <2>7. t \in Inited' /\ pc'[t] = pc[t]
    BY <2>4 DEF JoinIdle, Joined, Inited
  <2>8. QED
    BY <2>6, <2>7 DEF Served
<1>6. PlaceInv'
  BY PlaceStays DEF IInv, JoinIdle, Joined, flags, workers, removal,
     owner, history
<1>7. QED
  BY <1>1, <1>2, <1>3, <1>4, <1>5, <1>6 DEF IInv

LEMMA PushInv == ASSUME IInv, Push PROVE IInv'
<1> DEFINE x == Len(type) + 1
<1>0. /\ x \in Tasks /\ Append(taskQueue, x) \in Seq(Tasks)
      /\ type' \in Seq(Types) /\ Len(type') = x /\ x <= NumTasks
  <2>1. PICK y \in Types : type' = Append(type, y)
    BY DEF Push
  <2>2. Len(type) \in Nat /\ type \in Seq(Types)
    BY LenProperties DEF IInv, Types1
  <2>3. Len(type) < NumTasks
    BY DEF IInv, OwnerInv, Push
  <2>4. x \in Tasks /\ x <= NumTasks
    BY <2>2, <2>3, LegacyThreadPoolAssumption DEF Tasks
  <2>5. type' \in Seq(Types) /\ Len(type') = x
    BY <2>1, <2>2, AppendProperties
  <2>6. Append(taskQueue, x) \in Seq(Tasks)
    BY <2>4, AppendProperties DEF IInv, Types1
  <2>7. QED
    BY <2>4, <2>5, <2>6
<1>1. Types1'
  BY <1>0 DEF IInv, Types1, Push, flags, workers, removal, owner, history
<1>2. ThreadsInv'
  BY DEF IInv, Types1, ThreadsInv, ThreadInv, OwnerInv, Shrinking, Ending,
     Push, flags, workers, removal, owner, history
<1>3. OwnerInv'
  BY DEF IInv, Types1, OwnerInv, Shrinking, Ending, Push, flags,
     workers, removal, owner, history
<1>4. NumberInv'
  BY DEF IInv, OwnerInv, NumberInv, Inited, Shrinking, Push, flags, workers,
     removal, owner, history
<1>5. ServedInv'
  BY DEF Push, ServedInv
<1>6. PlaceInv'
  <2>1. SUFFICES ASSUME NEW k \in Tasks
                 PROVE  Places(k)' = IF k <= Len(type)' THEN 1 ELSE 0
    BY DEF PlaceInv
  <2>2. Places(k)' = Places(k) + IF x = k THEN 1 ELSE 0
    <3>1. Count(taskQueue, k)' = Count(taskQueue, k) + IF x = k THEN 1 ELSE 0
      BY <1>0, CountAppend DEF IInv, Types1, Push
    <3>2. InHand(k)' = InHand(k) /\ Count(notStopTasks, k)' =
       Count(notStopTasks, k) /\ ran' = ran /\ removed' = removed
      BY DEF Count, InHand, Push, flags, workers, removal
    <3> HIDE DEF x
    <3>3. QED
      BY <3>1, <3>2, PlacesNat DEF IInv, Places
  <2>3. k \in Int /\ Len(type) \in Nat
    <3>1. type \in Seq(Types)
      BY DEF IInv, Types1
    <3>2. QED
      BY <3>1, LenProperties DEF Tasks
  <2>4. Places(k) = IF k <= Len(type) THEN 1 ELSE 0
    BY DEF IInv, PlaceInv
  <2>5. QED
    BY <1>0, <2>2, <2>3, <2>4
<1>7. QED
  BY <1>1, <1>2, <1>3, <1>4, <1>5, <1>6 DEF IInv

LEMMA NotifyInv == ASSUME IInv, Notify PROVE IInv'
<1>1. Types1'
  BY DEF IInv, Types1, Notify, WakeOne, Goto, flags, workers, removal, owner,
     history
<1>2. ThreadsInv'
  BY DEF IInv, Types1, ThreadsInv, ThreadInv, OwnerInv, Shrinking, Ending,
     Notify, WakeOne, Goto, flags, workers, removal, owner, history
<1>3. OwnerInv'
  BY DEF IInv, Types1, OwnerInv, Shrinking, Ending, Notify, WakeOne,
     Goto, flags, workers, removal, owner, history
<1>4. NumberInv'
  BY DEF IInv, OwnerInv, NumberInv, Inited, Shrinking, Notify, WakeOne, Goto,
     flags, workers, removal, owner, history
<1>5. ServedInv'
  <2>1. CASE \E t \in Threads : pc[t] = "asleep"
    <3>1. PICK t \in Threads : pc[t] = "asleep" /\ Goto(t, "awake")
      BY <2>1 DEF Notify, WakeOne
    <3>2. t \in Inited'
      BY <3>1 DEF IInv, ThreadsInv, ThreadInv, Notify, flags, Inited
    <3>3. pc'[t] = "awake"
      BY <3>1 DEF IInv, Types1, Goto
    <3>4. QED
      BY <3>2, <3>3 DEF ServedInv, Served, Notify
  <2>2. CASE ~\E t \in Threads : pc[t] = "asleep"
    <3>1. main \notin Shrinking /\ main \notin Ending /\ main # "stopped"
      BY DEF Notify, Shrinking, Ending
    <3>2. PICK t \in Threads : inited[t]
      BY <3>1, SomeThread
    <3>3. pc[t] \notin {"asleep", "exited"}
      BY <2>2, <3>1, NobodyLeaves
    <3>4. pc' = pc /\ t \in Inited'
      BY <2>2, <3>2 DEF Notify, WakeOne, Inited, flags
    <3>5. QED
      BY <3>3, <3>4 DEF ServedInv, Served, Notify
  <2>3. QED
    BY <2>1, <2>2
<1>6. PlaceInv'
  BY PlaceStays DEF IInv, Notify, WakeOne, Goto, flags, workers,
     removal, owner, history
<1>7. QED
  BY <1>1, <1>2, <1>3, <1>4, <1>5, <1>6 DEF IInv

------------------------------------------------------------------------------
LEMMA StopTasksInv == ASSUME IInv, NEW S \in SUBSET Types, StopTasks(S) PROVE IInv'
<1>1. Types1'
  BY DEF IInv, Types1, StopTasks, flags, workers, removal, owner, history
<1>2. ThreadsInv'
  BY DEF IInv, Types1, ThreadsInv, ThreadInv, OwnerInv, Shrinking, Ending,
     StopTasks, flags, workers, removal, owner, history
<1>3. OwnerInv'
  BY DEF IInv, Types1, OwnerInv, Shrinking, Ending, StopTasks, flags,
     workers, removal, owner, history
<1>4. NumberInv'
  BY DEF IInv, OwnerInv, NumberInv, Inited, Shrinking, StopTasks, flags,
     workers, removal, owner, history
<1>5. ServedInv'
  BY DEF IInv, Types1, ServedInv, Served, Inited, StopTasks, flags, workers,
     removal, owner, history
<1>6. PlaceInv'
  BY PlaceStays DEF IInv, StopTasks, flags, workers, removal, owner,
     history
<1>7. QED
  BY <1>1, <1>2, <1>3, <1>4, <1>5, <1>6 DEF IInv

LEMMA RemoveTaskInv == ASSUME IInv, RemoveTask PROVE IInv'
<1>1. Types1'
  <2>1. Head(taskQueue) \in Tasks /\ Tail(taskQueue) \in Seq(Tasks)
    BY HeadOnce DEF IInv, RemoveTask
  <2>2. Append(notStopTasks, Head(taskQueue)) \in Seq(Tasks)
    BY <2>1, AppendProperties DEF IInv, Types1
  <2>3. QED
    BY <2>1, <2>2 DEF IInv, Types1, RemoveTask, flags, workers, removal,
       owner, history
<1>2. ThreadsInv'
  BY DEF IInv, Types1, ThreadsInv, ThreadInv, OwnerInv, Shrinking, Ending,
     RemoveTask, flags, workers, removal, owner, history
<1>3. OwnerInv'
  BY DEF IInv, Types1, OwnerInv, Shrinking, Ending, RemoveTask,
     flags, workers, removal, owner, history
<1>4. NumberInv'
  BY DEF IInv, OwnerInv, NumberInv, Inited, Shrinking, RemoveTask, flags,
     workers, removal, owner, history
<1>5. ServedInv'
  BY DEF IInv, Types1, ServedInv, Served, Inited, RemoveTask, flags, workers,
     removal, owner, history
<1>6. PlaceInv'
  <2>1. SUFFICES ASSUME NEW k \in Tasks PROVE Places(k)' = Places(k)
    BY DEF IInv, PlaceInv, RemoveTask
  <2> DEFINE x == Head(taskQueue)
             one == IF x = k THEN 1 ELSE 0
  <2>2. x \in Tasks /\ Tail(taskQueue) \in Seq(Tasks) /\ x \notin removed
    BY HeadOnce DEF IInv, RemoveTask
  <2>3. Count(taskQueue, k) = Count(taskQueue', k) + one
    BY CountTail DEF IInv, Types1, RemoveTask
  <2>4. InHand(k)' = InHand(k) /\ ran' = ran
    BY DEF RemoveTask, InHand, workers
  <2>5. Count(taskQueue', k) \in Nat
    BY <2>2, CountFinite DEF RemoveTask
  <2>6. one \in {0, 1}
    OBVIOUS
  <2>7. CASE type[x] \in stopping
    <3>1. removed' = removed \cup {x} /\ notStopTasks' = notStopTasks
      BY <2>7 DEF RemoveTask
    <3> HIDE DEF x, one
    <3>2. Cardinality({k} \cap removed') = Cardinality({k} \cap removed) + one
      BY <2>2, <3>1, OnceInSet DEF one
    <3>3. QED
      BY <2>3, <2>4, <2>5, <2>6, <3>1, <3>2, PlacesNat DEF IInv, Places, Count
  <2>8. CASE type[x] \notin stopping
    <3>1. removed' = removed /\ notStopTasks' = Append(notStopTasks, x)
      BY <2>8 DEF RemoveTask
    <3> HIDE DEF x
    <3>2. Count(notStopTasks', k) = Count(notStopTasks, k) + one
      BY <2>2, <3>1, CountAppend DEF IInv, Types1
    <3> HIDE DEF one
    <3>3. QED
      BY <2>3, <2>4, <2>5, <2>6, <3>1, <3>2, PlacesNat DEF IInv, Places
  <2>9. QED
    BY <2>7, <2>8
<1>7. QED
  BY <1>1, <1>2, <1>3, <1>4, <1>5, <1>6 DEF IInv

LEMMA EndRemoveInv == ASSUME IInv, EndRemove PROVE IInv'
<1>1. Types1'
  BY DEF IInv, Types1, EndRemove, EndsWith, flags, workers, removal, owner,
     history
<1>2. ThreadsInv'
  BY DEF IInv, Types1, ThreadsInv, ThreadInv, OwnerInv, Shrinking, Ending,
     EndRemove, EndsWith, flags, workers, removal, owner,
     history
<1>3. OwnerInv'
  <2>1. pushing = FALSE /\ joining = {} /\ isDone = FALSE
    BY DEF IInv, Types1, OwnerInv, Shrinking, Ending, EndRemove
  <2>2. UNCHANGED <<pushing, joining, isDone>>
    BY DEF EndRemove
  <2>3. CASE notStopTasks' = <<>>
    <3>1. main' = "idle" /\ notStopTasks' = <<>>
      BY <2>3 DEF EndRemove, EndsWith
    <3>2. QED
      BY <2>1, <2>2, <3>1 DEF OwnerInv, Ending
  <2>4. CASE notStopTasks' # <<>>
    <3>1. main' = "put back" /\ notStopTasks' # <<>>
      BY <2>4 DEF EndRemove, EndsWith
    <3>2. QED
      BY <2>1, <2>2, <3>1 DEF OwnerInv, Ending
  <2>5. QED
    BY <2>3, <2>4
<1>4. NumberInv'
    BY DEF IInv, OwnerInv, NumberInv, Inited, Shrinking, EndRemove, EndsWith,
     flags, workers, removal, owner, history
<1>5. ServedInv'
    BY DEF IInv, Types1, ServedInv, Served, Inited, EndRemove, EndsWith, flags,
     workers, removal, owner, history
<1>6. PlaceInv'
  BY PlaceStays DEF IInv, EndRemove, EndsWith, flags, workers, removal, owner,
     history
<1>7. QED
  BY <1>1, <1>2, <1>3, <1>4, <1>5, <1>6 DEF IInv

LEMMA PutBackInv == ASSUME IInv, PutBack PROVE IInv'
<1> DEFINE x == Head(notStopTasks)
<1>0. /\ notStopTasks # <<>> /\ notStopTasks \in Seq(Tasks) /\ x \in Tasks
      /\ Tail(notStopTasks) \in Seq(Tasks)
      /\ taskQueue \in Seq(Tasks) /\ Append(taskQueue, x) \in Seq(Tasks)
  <2>1. notStopTasks # <<>> /\ notStopTasks \in Seq(Tasks) /\ taskQueue \in Seq(Tasks)
    BY DEF IInv, OwnerInv, Types1, PutBack
  <2>2. x \in Tasks /\ Tail(notStopTasks) \in Seq(Tasks)
    BY <2>1, HeadTailProperties
  <2>3. QED
    BY <2>1, <2>2, AppendProperties
<1>1. Types1'
  BY <1>0 DEF IInv, Types1, PutBack, EndsWith, flags, workers
<1>2. ThreadsInv'
  BY DEF IInv, Types1, ThreadsInv, ThreadInv, OwnerInv, Shrinking, Ending,
     PutBack, EndsWith, flags, workers
<1>3. OwnerInv'
  <2>1. pushing = FALSE /\ joining = {} /\ isDone = FALSE
    BY DEF IInv, Types1, OwnerInv, Shrinking, Ending, PutBack
  <2>2. UNCHANGED <<pushing, joining, isDone>>
    BY DEF PutBack
  <2>3. CASE notStopTasks' = <<>>
    <3>1. main' = "idle" /\ notStopTasks' = <<>>
      BY <2>3 DEF PutBack, EndsWith
    <3>2. QED
      BY <2>1, <2>2, <3>1 DEF OwnerInv, Ending
  <2>4. CASE notStopTasks' # <<>>
    <3>1. main' = "put back" /\ notStopTasks' # <<>>
      BY <2>4 DEF PutBack, EndsWith
    <3>2. QED
      BY <2>1, <2>2, <3>1 DEF OwnerInv, Ending
  <2>5. QED
    BY <2>3, <2>4
<1>4. NumberInv'
  BY DEF IInv, OwnerInv, NumberInv, Inited, Shrinking, PutBack, EndsWith, flags,
     workers
<1>5. ServedInv'
  BY DEF ServedInv, Served, PutBack, EndsWith
<1>6. PlaceInv'
  <2>1. SUFFICES ASSUME NEW k \in Tasks PROVE Places(k)' = Places(k)
    BY DEF IInv, PlaceInv, PutBack
  <2> DEFINE one == IF x = k THEN 1 ELSE 0
  <2>2. taskQueue' = Append(taskQueue, x) /\ notStopTasks' = Tail(notStopTasks)
     /\ ran' = ran /\ removed' = removed
    BY DEF PutBack
  <2>3. InHand(k)' = InHand(k)
    BY DEF PutBack, InHand, workers
  <2>4. Count(taskQueue, k)' = Count(taskQueue, k) + one
    BY <1>0, <2>2, CountAppend
  <2>5. Count(notStopTasks, k) = Count(notStopTasks, k)' + one
    BY <1>0, <2>2, CountTail
  <2>6. Count(notStopTasks, k)' \in Nat
    BY <1>0, <2>2, CountFinite
  <2>7. one \in {0, 1}
    OBVIOUS
  <2> HIDE DEF x, one
  <2>8. QED
    BY <2>2, <2>3, <2>4, <2>5, <2>6, <2>7, PlacesNat DEF IInv, Places
<1>7. QED
  BY <1>1, <1>2, <1>3, <1>4, <1>5, <1>6 DEF IInv

LEMMA StopInv == ASSUME IInv, Stop PROVE IInv'
<1>1. Types1'
  BY DEF IInv, Types1, Stop, flags, workers, removal, owner, history
<1>2. ThreadsInv'
  BY DEF IInv, Types1, ThreadsInv, ThreadInv, OwnerInv, Shrinking, Ending,
     Stop, flags, workers, removal, owner, history
<1>3. OwnerInv'
  BY DEF IInv, Types1, OwnerInv, Shrinking, Ending, Stop, flags,
     workers, removal, owner, history
<1>4. NumberInv'
  BY DEF IInv, OwnerInv, NumberInv, Inited, Shrinking, Stop, flags, workers,
     removal, owner, history
<1>5. ServedInv'
  BY DEF IInv, Types1, ServedInv, Served, Inited, Stop, flags, workers,
     removal, owner, history
<1>6. PlaceInv'
  BY PlaceStays DEF IInv, Stop, flags, workers, removal, owner,
     history
<1>7. QED
  BY <1>1, <1>2, <1>3, <1>4, <1>5, <1>6 DEF IInv

LEMMA JoinAllInv == ASSUME IInv, JoinAll PROVE IInv'
<1>0. taskQueue = <<>> /\ taskQueue' = taskQueue
  <2>1. PICK t \in Threads : inited[t]
    BY SomeThread DEF JoinAll
  <2>2. pc[t] = "exited" /\ isDone
    BY <2>1 DEF IInv, OwnerInv, Ending, JoinAll, Joined, Inited
  <2>3. QED
    BY <2>2 DEF IInv, ThreadsInv, ThreadInv, JoinAll
<1>1. Types1'
  BY <1>0 DEF IInv, Types1, JoinAll, Joined, flags, workers, removal, owner,
     history
<1>2. ThreadsInv'
  BY <1>0 DEF IInv, Types1, ThreadsInv, ThreadInv, OwnerInv, JoinAll, Joined,
     Inited, Shrinking, Ending
<1>3. OwnerInv'
  <2>1. \A t \in Threads : task[t] = NoTask
    BY DEF IInv, ThreadsInv, ThreadInv, JoinAll, Joined, Inited
  <2>2. QED
    BY <1>0, <2>1 DEF IInv, OwnerInv, Shrinking, Ending, JoinAll,
       Joined, flags, workers, removal, owner, history
<1>4. NumberInv'
  <2>1. joining = {}
    BY DEF IInv, OwnerInv, JoinAll, Shrinking
  <2>2. QED
    BY <2>1 DEF IInv, NumberInv, JoinAll, Inited
<1>5. ServedInv'
  BY DEF IInv, Types1, ServedInv, Served, Inited, JoinAll, Joined, flags,
     workers, removal, owner, history
<1>6. PlaceInv'
  BY <1>0, PlaceStays DEF IInv, JoinAll, Joined, flags, workers,
     removal, owner, history
<1>7. QED
  BY <1>1, <1>2, <1>3, <1>4, <1>5, <1>6 DEF IInv

------------------------------------------------------------------------------
LEMMA StutterInv == ASSUME IInv, UNCHANGED vars PROVE IInv'
<1>1. UNCHANGED <<isFixedSize, taskQueue, idleThreadNum, idle, abort, inited, pc, task>>
  BY DEF vars, flags, workers
<1>2. UNCHANGED <<main, pushing, joining, stopping, notStopTasks, isDone, type, removed,
                  unannounced, ran>>
  BY DEF vars, owner, removal, history
<1>3. Types1'
  BY <1>1, <1>2 DEF IInv, Types1
<1>4. ThreadsInv' /\ OwnerInv'
  BY <1>1, <1>2 DEF IInv, ThreadsInv, ThreadInv, OwnerInv
<1>5. NumberInv' /\ ServedInv'
  BY <1>1, <1>2 DEF IInv, NumberInv, ServedInv, Served, Inited
<1>6. PlaceInv'
  BY <1>1, <1>2, PlaceStays DEF IInv
<1>7. QED
  BY <1>3, <1>4, <1>5, <1>6 DEF IInv

LEMMA NextInv == IInv /\ [Next]_vars => IInv'
<1> SUFFICES ASSUME IInv, [Next]_vars PROVE IInv'
  OBVIOUS
<1>1. CASE PushTask \/ TryShrinkPool
  BY <1>1, PushTaskInv, TryShrinkPoolInv
<1>2. ASSUME NEW S \in SUBSET Types, StopTasks(S) PROVE IInv'
  BY <1>2, StopTasksInv
<1>3. CASE Stop
  BY <1>3, StopInv
<1>4. CASE Proceed
  <2>1. ASSUME NEW t \in Threads, Shrink(t) PROVE IInv'
    BY <2>1, ShrinkInv
  <2>2. QED
    BY <1>4, <2>1, CheckQueueInv, EndShrinkInv, NotifyAllInv, JoinIdleInv, PushInv,
       NotifyInv, RemoveTaskInv, EndRemoveInv, PutBackInv, JoinAllInv DEF Proceed
<1>5. ASSUME NEW t \in Threads, Thread(t) \/ SpuriousWakeup(t) PROVE IInv'
  BY <1>5, PopInv, RunInv, BecomeIdleInv, TestInv, WakeUpInv, EndIdleInv,
     SpuriousWakeupInv DEF Thread
<1>6. CASE UNCHANGED vars
  BY <1>6, StutterInv
<1>7. \A y \in Types : {y} \in SUBSET Types
  OBVIOUS
<1>8. QED
  BY <1>1, <1>2, <1>3, <1>4, <1>5, <1>6, <1>7 DEF Next

------------------------------------------------------------------------------
(* IInv, which holds each of the properties below and what they need of    *)
(* one another, is true in every reachable state.                          *)
THEOREM Invariance == Spec => []IInv
<1>1. Init => IInv
  BY InitInv
<1>2. IInv /\ [Next]_vars => IInv'
  BY NextInv
<1>3. QED
  BY <1>1, <1>2, PTL DEF Spec

(* The variables keep their types; above all, _idleThreadNum, which the    *)
(* threads and the owner read and write each on their own, never becomes   *)
(* negative nor more than the threads there are.                           *)
THEOREM TypeCorrect == Spec => []TypeOK
<1>1. ASSUME IInv PROVE TypeOK
  <2>1. Cardinality({t \in Threads : idle[t]}) \in Nat
        /\ Cardinality({t \in Threads : idle[t]}) <= MaxThreads
    BY ThreadsFinite
  <2>2. idleThreadNum \in 0..MaxThreads
    BY <1>1, <2>1, LegacyThreadPoolAssumption DEF IInv, NumberInv
  <2>3. QED
    BY <1>1, <2>2 DEF IInv, Types1, TypeOK
<1>2. QED
  BY <1>1, Invariance, PTL

(* However the threads, the shrinks and stretches of the pool and the      *)
(* removals of tasks interleave, no task is lost, none runs twice, and     *)
(* none runs that was removed (setThread, stopTasksByType).                *)
THEOREM TasksRunOnce == Spec => []RunOnce
<1>1. ASSUME IInv PROVE RunOnce
  <2>1. SUFFICES ASSUME NEW k \in Pushed PROVE Places(k) = 1
    BY DEF RunOnce, Places, InHand
  <2>2. Len(type) \in Nat /\ Pushed = 1..Len(type) /\ Len(type) <= NumTasks
    BY <1>1, LenProperties DEF IInv, Types1, Pushed
  <2> DEFINE n == Len(type)
  <2> HIDE DEF n
  <2>3. k \in 1..n /\ n \in Nat /\ n <= NumTasks
    BY <2>2 DEF n
  <2>4. k \in Tasks /\ k <= n
    BY <2>3, LegacyThreadPoolAssumption DEF Tasks
  <2>5. QED
    BY <1>1, <2>4 DEF IInv, PlaceInv, n
<1>2. QED
  BY <1>1, Invariance, PTL

(* Between the calls of the owner no task waits for threads that sleep:    *)
(* one that is about to sleep looks at the queue under _mutex, which the   *)
(* owner takes before it notifies.                                         *)
THEOREM NeverStranded == Spec => []NotStranded
<1>1. IInv => NotStranded
  BY DEF IInv, ServedInv, Served, NotStranded
<1>2. QED
  BY <1>1, Invariance, PTL

(* A pool that is stopped has run every task that was not removed: a       *)
(* thread that is told to leave empties the queue before it does.          *)
THEOREM StopHasRunAll == Spec => []StopRunsAll
<1>1. ASSUME IInv PROVE StopRunsAll
  <2>1. SUFFICES ASSUME main = "stopped", NEW k \in Pushed, k \notin removed
                 PROVE  ran[k] = 1
    BY DEF StopRunsAll
  <2>2. Len(type) \in Nat /\ k \in 1..Len(type) /\ Len(type) <= NumTasks
    BY <1>1, LenProperties DEF IInv, Types1, Pushed
  <2> DEFINE n == Len(type)
  <2> HIDE DEF n
  <2>3. k \in 1..n /\ n \in Nat /\ n <= NumTasks
    BY <2>2 DEF n
  <2>4. k \in Tasks /\ k <= Len(type)
    BY <2>3, LegacyThreadPoolAssumption DEF Tasks, n
  <2>5. Count(taskQueue, k) = 0 /\ Count(notStopTasks, k) = 0
    BY <1>1, <2>1, CountEmpty DEF IInv, OwnerInv
  <2>6. InHand(k) = 0
    <3>1. {t \in Threads : task[t] = k} = {}
      BY <1>1, <2>1, <2>4, LegacyThreadPoolAssumption DEF IInv, OwnerInv, Tasks
    <3>2. QED
      BY <3>1, FS_EmptySet DEF InHand
  <2>7. Cardinality({k} \cap removed) = 0
    BY <2>1, OnceInSet
  <2>8. Places(k) = 1 /\ ran[k] \in Nat
    BY <1>1, <2>4 DEF IInv, PlaceInv, Types1
  <2>9. QED
    BY <2>5, <2>6, <2>7, <2>8 DEF Places
<1>2. QED
  BY <1>1, Invariance, PTL
================================================================================
