--------------------------- MODULE LegacyThreadPool ---------------------------
(***************************************************************************)
(* base/ThreadPool: a queue of tasks, and threads that take them.  A pool  *)
(* of fixed size has MaxThreads; a cached one starts with MinThreads, and  *)
(* pushTask stretches it when no thread is idle and shrinks it when more   *)
(* than MinThreads have been idle for a while.  The owner, the cocos       *)
(* thread, makes every call; the threads only take and run tasks.          *)
(*                                                                         *)
(* Two mutexes matter: the one of the queue, whose holder takes one step,  *)
(* and _mutex, which a thread keeps while it tests and prepares to sleep.  *)
(***************************************************************************)
EXTENDS Integers, Sequences, SequencesExt, FiniteSets

CONSTANTS
  MinThreads, MaxThreads,   \* _minThreadNum, _maxThreadNum
  ShrinkStep, StretchStep,  \* _shrinkStep, _stretchStep
  NumTasks,                 \* bound: the tasks, numbered as they are pushed
  Types,                    \* TaskType
  NoTask                    \* no task in hand

ASSUME LegacyThreadPoolAssumption ==
  /\ MinThreads \in Nat \ {0} /\ MaxThreads \in Nat /\ MinThreads <= MaxThreads
  /\ ShrinkStep \in Nat \ {0} /\ StretchStep \in Nat \ {0}
  /\ NumTasks \in Nat /\ NoTask \notin 1..NumTasks

Threads == 1..MaxThreads
Tasks == 1..NumTasks

VARIABLES
  isFixedSize,    \* _isFixedSize
  taskQueue,      \* _taskQueue
  idleThreadNum,  \* _idleThreadNum
  idle,           \* _idleFlags
  abort,          \* _abortFlags
  inited,         \* _initedFlags; their number is _initedThreadNum
  isDone,         \* _isDone
  pc,             \* where the threads are
  task,           \* the task each has in hand (isPop)
  main,           \* where the owner is
  pushing,        \* it is in pushTask
  type,           \* the types of the tasks pushed
  joining,        \* threadIDsToJoin
  stopping,       \* the types of the tasks being removed
  notStopTasks,   \* notStopTasks
  ran,            \* history: how often each task ran
  removed,        \* history: the tasks the owner removed
  unannounced     \* history: tasks were put back and nobody was notified

flags == <<idleThreadNum, idle, abort, inited>>
workers == <<pc, task>>
removal == <<stopping, notStopTasks>>
owner == <<main, pushing, joining, removal, isDone>>
history == <<type, removed, unannounced>>
vars == <<isFixedSize, taskQueue, flags, workers, owner, history, ran>>

Init ==
  /\ isFixedSize \in BOOLEAN
  /\ taskQueue = <<>>
  /\ idleThreadNum = 0
  /\ idle = [t \in Threads |-> FALSE]
  /\ inited = [t \in Threads |-> isFixedSize \/ t <= MinThreads]
  /\ abort = [t \in Threads |-> ~inited[t]]
  /\ isDone = FALSE
  /\ pc = [t \in Threads |-> IF inited[t] THEN "pop" ELSE "none"]
  /\ task = [t \in Threads |-> NoTask]
  /\ main = "idle" /\ pushing = FALSE
  /\ type = <<>>
  /\ joining = {} /\ stopping = {} /\ notStopTasks = <<>>
  /\ ran = [k \in Tasks |-> 0] /\ removed = {} /\ unannounced = FALSE

Goto(t, label) == pc' = [pc EXCEPT ![t] = label]
Inited == {t \in Threads : inited[t]}
Pushed == DOMAIN type

(* The thread between the lock of _mutex and its release in wait, or at    *)
(* the end of the block.                                                   *)
MutexFree == \A t \in Threads : pc[t] \notin {"test", "unidle"}

------------------------------------------------------------------------------
(* The threads: setThread.                                                 *)

Pop(t) ==
  /\ pc[t] = "pop"
  /\ IF taskQueue = <<>>
     THEN Goto(t, "lock") /\ UNCHANGED <<task, taskQueue>>
     ELSE /\ task' = [task EXCEPT ![t] = Head(taskQueue)]
          /\ taskQueue' = Tail(taskQueue)
          /\ Goto(t, "run")
  /\ UNCHANGED <<isFixedSize, flags, owner, history, ran>>

Run(t) ==
  /\ pc[t] = "run"
  /\ ran' = [ran EXCEPT ![task[t]] = @ + 1]
  /\ task' = [task EXCEPT ![t] = NoTask]
  /\ Goto(t, IF abort[t] THEN "exited" ELSE "pop")
  /\ UNCHANGED <<isFixedSize, taskQueue, flags, owner, history>>

BecomeIdle(t) ==
  /\ pc[t] = "lock" /\ MutexFree
  /\ idleThreadNum' = idleThreadNum + 1
  /\ idle' = [idle EXCEPT ![t] = TRUE]
  /\ Goto(t, "test")
  /\ UNCHANGED <<isFixedSize, taskQueue, abort, inited, task, owner, history, ran>>

(* Wrong: the thread sleeps without another look at the queue.             *)
TestFlagsOnly(t) ==
  /\ pc[t] = "test"
  /\ Goto(t, IF isDone \/ abort[t] THEN "unidle" ELSE "asleep")
  /\ UNCHANGED <<isFixedSize, taskQueue, flags, task, owner, history, ran>>

(* The predicate of the wait takes a task itself.                          *)
Test(t) ==
  /\ pc[t] = "test"
  /\ IF taskQueue # <<>>
     THEN /\ task' = [task EXCEPT ![t] = Head(taskQueue)]
          /\ taskQueue' = Tail(taskQueue)
          /\ Goto(t, "unidle")
     ELSE /\ Goto(t, IF isDone \/ abort[t] THEN "unidle" ELSE "asleep")
          /\ UNCHANGED <<task, taskQueue>>
  /\ UNCHANGED <<isFixedSize, flags, owner, history, ran>>

WakeUp(t) ==
  /\ pc[t] = "awake" /\ MutexFree
  /\ Goto(t, "test")
  /\ UNCHANGED <<isFixedSize, taskQueue, flags, task, owner, history, ran>>

(* Wrong: a thread told to leave does so, with a task in hand or not.      *)
EndIdleAborted(t) ==
  /\ pc[t] = "unidle"
  /\ idle' = [idle EXCEPT ![t] = FALSE]
  /\ idleThreadNum' = idleThreadNum - 1
  /\ Goto(t, IF task[t] = NoTask \/ abort[t] \/ isDone THEN "exited" ELSE "run")
  /\ UNCHANGED <<isFixedSize, taskQueue, abort, inited, task, owner, history, ran>>

EndIdle(t) ==
  /\ pc[t] = "unidle"
  /\ idle' = [idle EXCEPT ![t] = FALSE]
  /\ idleThreadNum' = idleThreadNum - 1
  /\ Goto(t, IF task[t] = NoTask THEN "exited" ELSE "run")
  /\ UNCHANGED <<isFixedSize, taskQueue, abort, inited, task, owner, history, ran>>

(* Which the C++ standard allows.                                          *)
SpuriousWakeup(t) ==
  /\ pc[t] = "asleep"
  /\ Goto(t, "awake")
  /\ UNCHANGED <<isFixedSize, taskQueue, flags, task, owner, history, ran>>

------------------------------------------------------------------------------
(* The owner: pushTask.                                                    *)

Start(S) ==
  /\ abort' = [t \in Threads |-> abort[t] /\ t \notin S]
  /\ inited' = [t \in Threads |-> inited[t] \/ t \in S]
  /\ pc' = [t \in Threads |-> IF t \in S THEN "pop" ELSE pc[t]]

(* The first n threads of a set.                                           *)
FirstOf(S, n) == {t \in S : Cardinality({u \in S : u < t}) < n}

(* Wrong: the threads that run already are started too.                    *)
StretchPoolAll ==
  /\ Start(FirstOf(Threads, StretchStep))
  /\ UNCHANGED <<idleThreadNum, idle, task>>

StretchPool ==
  /\ Start(FirstOf(Threads \ Inited, StretchStep))
  /\ UNCHANGED <<idleThreadNum, idle, task>>

(* A cached pool looks at _idleThreadNum first.                            *)
PushTask ==
  /\ main = "idle" /\ Len(type) < NumTasks
  /\ pushing' = TRUE
  /\ \/ /\ ~isFixedSize /\ idleThreadNum > MinThreads
        /\ main' = "check"
        /\ UNCHANGED <<flags, workers>>
     \/ /\ isFixedSize \/ idleThreadNum \in 1..MinThreads
        /\ main' = "push"
        /\ UNCHANGED <<flags, workers>>
     \/ /\ ~isFixedSize /\ idleThreadNum = 0
        /\ StretchPool
        /\ main' = "push"
  /\ UNCHANGED <<isFixedSize, taskQueue, joining, removal, isDone, history, ran>>

(* And shrinks when there is nothing to do; whether _shrinkInterval has    *)
(* passed is left open.                                                    *)
CheckQueue ==
  /\ main = "check"
  /\ \/ taskQueue = <<>> /\ main' = "shrink"
     \/ main' = "push"
  /\ UNCHANGED <<isFixedSize, taskQueue, flags, workers, pushing, joining, removal,
                 isDone, history, ran>>

(* The call of the owner itself, "only available for cached thread pool".  *)
TryShrinkPool ==
  /\ main = "idle" /\ ~isFixedSize
  /\ main' = "shrink"
  /\ UNCHANGED <<isFixedSize, taskQueue, flags, workers, pushing, joining, removal,
                 isDone, history, ran>>

(* tryShrinkPool: up to ShrinkStep threads that are idle when it looks at  *)
(* them are told to leave.                                                 *)
Shrink(t) ==
  /\ main = "shrink"
  /\ idle[t] /\ t \notin joining
  /\ Cardinality(joining) < Cardinality(Inited) - MinThreads
  /\ Cardinality(joining) < ShrinkStep
  /\ joining' = joining \cup {t}
  /\ abort' = [abort EXCEPT ![t] = TRUE]
  /\ UNCHANGED <<isFixedSize, taskQueue, idleThreadNum, idle, inited, workers, main,
                 pushing, removal, isDone, history, ran>>

(* The others were busy when it did.                                       *)
EndShrink ==
  /\ main = "shrink"
  /\ main' = "notify to shrink"
  /\ UNCHANGED <<isFixedSize, taskQueue, flags, workers, pushing, joining, removal,
                 isDone, history, ran>>

(* _cv.notify_one(); wrong where all have to leave.                        *)
WakeOne ==
  IF \E t \in Threads : pc[t] = "asleep"
  THEN \E t \in Threads : pc[t] = "asleep" /\ Goto(t, "awake")
  ELSE UNCHANGED pc

(* _cv.notify_all() under _mutex.                                          *)
WakeAll ==
  pc' = [t \in Threads |-> IF pc[t] = "asleep" THEN "awake" ELSE pc[t]]

NotifyAll ==
  /\ main \in {"notify to shrink", "notify to stop"} /\ MutexFree
  /\ WakeAll
  /\ main' = IF main = "notify to shrink" THEN "join" ELSE "join all"
  /\ UNCHANGED <<isFixedSize, taskQueue, flags, task, pushing, joining, removal,
                 isDone, history, ran>>

Joined(S) ==
  /\ \A t \in S : pc[t] = "exited"
  /\ inited' = [t \in Threads |-> inited[t] /\ t \notin S]
  /\ pc' = [t \in Threads |-> IF t \in S THEN "none" ELSE pc[t]]

JoinIdle ==
  /\ main = "join" /\ Joined(joining)
  /\ joining' = {}
  /\ main' = IF pushing THEN "push" ELSE "idle"
  /\ UNCHANGED <<isFixedSize, taskQueue, idleThreadNum, idle, abort, task, pushing,
                 removal, isDone, history, ran>>

Push ==
  /\ main = "push"
  /\ \E y \in Types : type' = Append(type, y)
  /\ taskQueue' = Append(taskQueue, Len(type) + 1)
  /\ main' = "notify"
  /\ UNCHANGED <<isFixedSize, flags, workers, pushing, joining, removal, isDone,
                 removed, unannounced, ran>>

(* Wrong: the task is noticed by whoever is awake.                         *)
NotifyNobody ==
  /\ main = "notify" /\ MutexFree
  /\ unannounced' = FALSE
  /\ pushing' = FALSE
  /\ main' = "idle"
  /\ UNCHANGED <<isFixedSize, taskQueue, flags, workers, joining, removal,
                 isDone, type, removed, ran>>

Notify ==
  /\ main = "notify" /\ MutexFree
  /\ WakeOne
  /\ unannounced' = FALSE
  /\ pushing' = FALSE
  /\ main' = "idle"
  /\ UNCHANGED <<isFixedSize, taskQueue, flags, task, joining, removal, isDone,
                 type, removed, ran>>

------------------------------------------------------------------------------
(* The owner: removal of tasks, and the end of the pool.                   *)

(* stopAllTasks and stopTasksByType take the tasks one by one; the latter  *)
(* puts back those of the other types.                                     *)
StopTasks(S) ==
  /\ main = "idle"
  /\ stopping' = S
  /\ main' = "remove"
  /\ UNCHANGED <<isFixedSize, taskQueue, flags, workers, pushing, joining,
                 notStopTasks, isDone, history, ran>>

RemoveTask ==
  /\ main = "remove" /\ taskQueue # <<>>
  /\ IF type[Head(taskQueue)] \in stopping
     THEN removed' = removed \cup {Head(taskQueue)} /\ UNCHANGED notStopTasks
     ELSE notStopTasks' = Append(notStopTasks, Head(taskQueue)) /\ UNCHANGED removed
  /\ taskQueue' = Tail(taskQueue)
  /\ UNCHANGED <<isFixedSize, flags, workers, main, pushing, joining, stopping, isDone,
                 type, unannounced, ran>>

(* What the call does last: nothing is left to put back.                   *)
EndsWith(rest) ==
  /\ main' = IF rest = <<>> THEN "idle" ELSE "put back"
  /\ stopping' = IF rest = <<>> THEN {} ELSE stopping

EndRemove ==
  /\ main = "remove" /\ taskQueue = <<>>
  /\ EndsWith(notStopTasks)
  /\ UNCHANGED <<isFixedSize, taskQueue, flags, workers, pushing, joining,
                 notStopTasks, isDone, history, ran>>

PutBack ==
  /\ main = "put back"
  /\ taskQueue' = Append(taskQueue, Head(notStopTasks))
  /\ notStopTasks' = Tail(notStopTasks)
  /\ EndsWith(Tail(notStopTasks))
  /\ unannounced' = TRUE
  /\ UNCHANGED <<isFixedSize, flags, workers, pushing, joining, isDone, type, removed,
                 ran>>

Stop ==
  /\ main = "idle"
  /\ isDone' = TRUE
  /\ main' = "notify to stop"
  /\ UNCHANGED <<isFixedSize, taskQueue, flags, workers, pushing, joining, removal,
                 history, ran>>

(* Every thread is joined, and what is in the queue deleted.               *)
JoinAll ==
  /\ main = "join all" /\ Joined(Inited)
  /\ taskQueue' = <<>>
  /\ main' = "stopped"
  /\ UNCHANGED <<isFixedSize, idleThreadNum, idle, abort, task, pushing, joining,
                 removal, isDone, history, ran>>

------------------------------------------------------------------------------
Thread(t) ==
  \/ Pop(t)
  \/ Run(t)
  \/ BecomeIdle(t)
  \/ Test(t)
  \/ WakeUp(t)
  \/ EndIdle(t)

(* What the owner has begun.                                               *)
Proceed ==
  \/ CheckQueue
  \/ \E t \in Threads : Shrink(t)
  \/ EndShrink
  \/ NotifyAll
  \/ JoinIdle
  \/ Push
  \/ Notify
  \/ RemoveTask
  \/ EndRemove
  \/ PutBack
  \/ JoinAll

Next ==
  \/ PushTask
  \/ TryShrinkPool
  \/ StopTasks(Types)
  \/ \E y \in Types : StopTasks({y})
  \/ Stop
  \/ Proceed
  \/ \E t \in Threads : Thread(t) \/ SpuriousWakeup(t)

(* The threads run, tasks return, and the owner goes on with its calls. A  *)
(* thread gets _mutex in the end although others take it again and again:  *)
(* the strong fairness.                                                    *)
Spec ==
  /\ Init /\ [][Next]_vars
  /\ SF_vars(Proceed)
  /\ \A t \in Threads : SF_vars(Thread(t))

------------------------------------------------------------------------------
TypeOK ==
  /\ isFixedSize \in BOOLEAN /\ isDone \in BOOLEAN
  /\ pushing \in BOOLEAN /\ unannounced \in BOOLEAN
  /\ taskQueue \in Seq(Tasks) /\ notStopTasks \in Seq(Tasks)
  /\ type \in Seq(Types) /\ Len(type) <= NumTasks
  /\ idleThreadNum \in 0..MaxThreads
  /\ idle \in [Threads -> BOOLEAN] /\ abort \in [Threads -> BOOLEAN]
  /\ inited \in [Threads -> BOOLEAN]
  /\ pc \in [Threads -> {"none", "pop", "run", "lock", "test", "asleep", "awake",
                         "unidle", "exited"}]
  /\ task \in [Threads -> Tasks \cup {NoTask}]
  /\ main \in {"idle", "check", "shrink", "notify to shrink", "join", "push", "notify",
              "remove", "put back", "notify to stop", "join all", "stopped"}
  /\ joining \subseteq Threads /\ stopping \subseteq Types
  /\ ran \in [Tasks -> Nat] /\ removed \subseteq Tasks

Count(s, k) == Cardinality({i \in DOMAIN s : s[i] = k})

(* A task that was pushed is in one place: it waits in the queue, or is    *)
(* held back by stopTasksByType, or a thread has it in hand, or it has run *)
(* once, or the owner has removed it.                                      *)
RunOnce ==
  \A k \in Pushed :
    Count(taskQueue, k) + Count(notStopTasks, k)
      + Cardinality({t \in Threads : task[t] = k})
      + ran[k] + Cardinality({k} \cap removed) = 1

(* A task is never left to sleeping threads: when a call of the owner is   *)
(* over and the queue has a task, a thread is up that will look there.     *)
(* The exception is what stopTasksByType puts back, until the next push.   *)
NotStranded ==
  main = "idle" /\ taskQueue # <<>> =>
    unannounced \/ \E t \in Inited : pc[t] \notin {"asleep", "exited"}

(* "the destructor waits for all the functions in the queue to be          *)
(* finished": when the pool is stopped, every task has run that the owner  *)
(* had not removed.                                                        *)
StopRunsAll == main = "stopped" => \A k \in Pushed : ran[k] = 1 \/ k \in removed

(* Every call returns: the threads that a call joins leave, whatever they  *)
(* were doing when they were told to, and _mutex is let go of.             *)
CallsReturn == main \notin {"idle", "stopped"} ~> main \in {"idle", "stopped"}

(* Every task runs, or is removed; unless stopTasksByType has put tasks    *)
(* back.                                                                   *)
TasksRun ==
  \A k \in Tasks :
    k \in Range(taskQueue) ~> ran[k] = 1 \/ k \in removed \/ unannounced

(* Not among the runs: so do the tasks that stopTasksByType puts back.     *)
PutBackRun ==
  \A k \in Tasks : k \in Range(taskQueue) ~> ran[k] = 1 \/ k \in removed
==============================================================================
