------------------------------ MODULE Scheduler ------------------------------
(***************************************************************************)
(* cc::Scheduler (cocos/base/Scheduler): timers, each of a target and with *)
(* a key, which update() advances once per frame and whose callbacks may   *)
(* call the scheduler again while it walks its collections.                *)
(*                                                                         *)
(* One action is what update() does between two points at which a callback *)
(* can run or the walk takes another turn.  In state "callback" the        *)
(* program's own code runs: it makes any calls to the scheduler, then      *)
(* returns.  All this is one thread; what other threads may call is in     *)
(* CocosThreadQueue.                                                       *)
(*                                                                         *)
(* Times are integers.  Of an entry's timerIndex, currentTimer and         *)
(* currentTimerSalvaged the code uses only those of the entry being        *)
(* walked (the walk resets them), so they are variables of their own.      *)
(***************************************************************************)
EXTENDS Integers, Sequences, SequencesExt

CONSTANTS
  Targets,
  Keys,
  Timers,     \* bound: the Timer objects that can exist at a time
  Settings,   \* bound: records [interval, repeat, delay] callers schedule with
  Deltas,     \* bound: the time that can pass between two updates
  Reentrant,  \* bound: the calls callbacks make, names of actions
  None        \* no target, no timer

Forever == -1  \* CC_REPEAT_FOREVER
Operations == {"Schedule", "Unschedule", "UnscheduleAllForTarget",
               "UnscheduleAll", "PauseTarget", "ResumeTarget"}
Setting == [interval : Nat, repeat : Nat \cup {Forever}, delay : Nat]

ASSUME SchedulerAssumption ==
  /\ Settings \subseteq Setting
  /\ Deltas \subseteq Nat \ {0}
  /\ Reentrant \subseteq Operations
  /\ None \notin Targets \cup Timers

VARIABLES
  hash,            \* the targets of _hashForTimers, in the order of its walk
  timers,          \* the timers of each target's entry
  paused,          \* paused of each target's entry
  timer,           \* the fields of each Timer
  refs,            \* the reference count of each Timer, 0 when it is free
  pc,              \* where update() is, "idle" outside of it
  dt,              \* its argument
  currentTarget,   \* _currentTarget, the target the iterator is at
  targetSalvaged,  \* _currentTargetSalvaged
  timerIndex,      \* from 1, the timer of currentTarget being updated
  currentTimer,
  timerSalvaged,   \* currentTimerSalvaged
  interval,        \* the local variable of Timer::update
  due,             \* history: timers this update has still to reach
  ticked,          \* history: timers this update has reached
  fired            \* history: currentTimer has been triggered in this update

lists == <<hash, timers, paused, refs>>
walk == <<dt, currentTarget, targetSalvaged, timerIndex, currentTimer,
          timerSalvaged>>
history == <<due, ticked, fired>>
vars == <<lists, timer, pc, walk, interval, history>>

------------------------------------------------------------------------------
Unused == [key |-> None, elapsed |-> -1, interval |-> 0, repeat |-> 0,
           delay |-> 0, useDelay |-> FALSE, executed |-> 0]

NewTimer(k, s) ==
  [key |-> k, elapsed |-> -1, interval |-> s.interval, repeat |-> s.repeat,
   delay |-> s.delay, useDelay |-> s.delay > 0, executed |-> 0]

(* The place of x in a sequence that holds it once.                        *)
Position(s, x) == CHOOSE i \in DOMAIN s : s[i] = x

(* The timers of t with key k: at most one, as KeysUnique states.          *)
WithKey(t, k) == {i \in DOMAIN timers[t] : timer[timers[t][i]].key = k}

Hashed == Range(hash)
Listed == UNION {Range(timers[t]) : t \in Targets}

Init ==
  /\ hash = <<>>
  /\ timers = [t \in Targets |-> <<>>]
  /\ paused = [t \in Targets |-> FALSE]
  /\ timer = [x \in Timers |-> Unused]
  /\ refs = [x \in Timers |-> 0]
  /\ pc = "idle"
  /\ dt = 0
  /\ currentTarget = None
  /\ targetSalvaged = FALSE
  /\ timerIndex = 0
  /\ currentTimer = None
  /\ timerSalvaged = FALSE
  /\ interval = 0
  /\ due = {}
  /\ ticked = {}
  /\ fired = FALSE

------------------------------------------------------------------------------
(* The calls of the program, between updates or from callbacks.            *)

Calls(op) == pc = "idle" \/ (pc = "callback" /\ op \in Reentrant)

(* A timer of that key exists: only its interval is set.                   *)
UpdateInterval(t, k, s) ==
  /\ \E i \in WithKey(t, k) :
       timer' = [timer EXCEPT ![timers[t][i]].interval = s.interval]
  /\ UNCHANGED <<lists, pc, walk, interval, history>>

(* A new entry takes any place in the hash map.                            *)
NewEntry(t, p) ==
  IF t \in Hashed
  THEN UNCHANGED <<hash, paused>>
  ELSE /\ \E i \in 1 .. Len(hash) + 1 : hash' = InsertAt(hash, i, t)
       /\ paused' = [paused EXCEPT ![t] = p]

AddTimer(t, k, s, p) ==
  /\ WithKey(t, k) = {}
  /\ NewEntry(t, p)
  /\ \E x \in {x \in Timers : refs[x] = 0} :
       /\ refs' = [refs EXCEPT ![x] = 1]
       /\ timer' = [timer EXCEPT ![x] = NewTimer(k, s)]
       /\ timers' = [timers EXCEPT ![t] = Append(@, x)]
  /\ UNCHANGED <<pc, walk, interval, history>>

(* schedule() asserts that callers know whether the target is paused.      *)
Schedule ==
  /\ Calls("Schedule")
  /\ \E t \in Targets, k \in Keys, s \in Settings, p \in BOOLEAN :
       /\ t \in Hashed => p = paused[t]
       /\ UpdateInterval(t, k, s) \/ AddTimer(t, k, s, p)

(* Wrong: the timer being updated is not retained.                         *)
ReleasedAtOnce(X) ==
  [x \in Timers |-> IF x \in X THEN refs[x] - 1 ELSE refs[x]]

(* The timers in X leave the lists, which become left; the one being       *)
(* updated is kept alive by a retain until the walk is done with it.       *)
Released(X) ==
  [x \in Timers |-> IF x \in X /\ (x # currentTimer \/ timerSalvaged)
                    THEN refs[x] - 1 ELSE refs[x]]

Freed(r) == [x \in Timers |-> IF r[x] = 0 THEN Unused ELSE timer[x]]

DropTimers(X, left) ==
  /\ timers' = left
  /\ refs' = Released(X)
  /\ timer' = Freed(refs')
  /\ timerSalvaged' = (timerSalvaged \/ currentTimer \in X)
  /\ due' = due \ X
  /\ ticked' = ticked \ X

(* Wrong: the entry being walked is not marked.                            *)
DropEntryUnmarked(t) ==
  /\ UNCHANGED targetSalvaged
  /\ IF t = currentTarget
     THEN UNCHANGED <<hash, paused>>
     ELSE /\ hash' = RemoveAt(hash, Position(hash, t))
          /\ paused' = [paused EXCEPT ![t] = FALSE]

(* The entry of t goes, unless update() is walking it: then it is marked.  *)
DropEntry(t) ==
  IF t = currentTarget
  THEN /\ targetSalvaged' = TRUE
       /\ UNCHANGED <<hash, paused>>
  ELSE /\ hash' = RemoveAt(hash, Position(hash, t))
       /\ paused' = [paused EXCEPT ![t] = FALSE]
       /\ UNCHANGED targetSalvaged

(* Wrong: the index is left where it is.                                   *)
IndexStays(t, i) == timerIndex

(* The index of the walk follows the timers that move up.                  *)
IndexAfter(t, i) ==
  IF t = currentTarget /\ timerIndex >= i THEN timerIndex - 1 ELSE timerIndex

RemoveTimer(t, i) ==
  /\ DropTimers({timers[t][i]}, [timers EXCEPT ![t] = RemoveAt(@, i)])
  /\ timerIndex' = IndexAfter(t, i)
  /\ IF Len(timers[t]) = 1 THEN DropEntry(t)
     ELSE UNCHANGED <<hash, paused, targetSalvaged>>
  /\ UNCHANGED <<dt, currentTarget, currentTimer, interval, fired>>

Unschedule ==
  /\ Calls("Unschedule")
  /\ \E t \in Targets, k \in Keys : \E i \in WithKey(t, k) : RemoveTimer(t, i)
  /\ UNCHANGED pc

UnscheduleAllForTarget ==
  /\ Calls("UnscheduleAllForTarget")
  /\ \E t \in Hashed :
       /\ DropTimers(Range(timers[t]), [timers EXCEPT ![t] = <<>>])
       /\ DropEntry(t)
  /\ UNCHANGED <<pc, dt, currentTarget, timerIndex, currentTimer, interval,
                 fired>>

(* unscheduleAllForTarget for every target.                                *)
UnscheduleAll ==
  /\ Calls("UnscheduleAll") /\ hash # <<>>
  /\ DropTimers(Listed, [t \in Targets |-> <<>>])
  /\ hash' = IF currentTarget = None THEN <<>> ELSE <<currentTarget>>
  /\ paused' = [t \in Targets |-> paused[t] /\ t = currentTarget]
  /\ targetSalvaged' = (targetSalvaged \/ currentTarget # None)
  /\ UNCHANGED <<pc, dt, currentTarget, timerIndex, currentTimer, interval,
                 fired>>

SetPaused(t, p) ==
  /\ paused' = [paused EXCEPT ![t] = p]
  /\ due' = IF p THEN due \ Range(timers[t]) ELSE due
  /\ UNCHANGED <<hash, timers, refs, timer, pc, walk, interval, ticked,
                 fired>>

PauseTarget == Calls("PauseTarget") /\ \E t \in Hashed : SetPaused(t, TRUE)
ResumeTarget == Calls("ResumeTarget") /\ \E t \in Hashed : SetPaused(t, FALSE)

Call ==
  \/ Schedule
  \/ Unschedule
  \/ UnscheduleAllForTarget
  \/ UnscheduleAll
  \/ PauseTarget
  \/ ResumeTarget

------------------------------------------------------------------------------
(* update(): the walk over the targets.                                    *)

Successor(t) ==
  LET i == Position(hash, t)
  IN  IF t = None \/ i = Len(hash) THEN None ELSE hash[i + 1]

(* The iterator is at t, or at the end: there the update is over.          *)
Enter(t) ==
  /\ currentTarget' = t
  /\ targetSalvaged' = FALSE
  /\ timerIndex' = IF t = None THEN 0 ELSE 1
  /\ pc' = IF t = None THEN "idle" ELSE IF paused[t] THEN "leave" ELSE "timer"
  /\ UNCHANGED <<timers, refs, timer, currentTimer, timerSalvaged, interval,
                 fired>>

Update ==
  /\ pc = "idle" /\ hash # <<>>
  /\ Enter(hash[1])
  /\ dt' \in Deltas
  /\ due' = UNION {Range(timers[t]) : t \in {t \in Targets : ~paused[t]}}
  /\ UNCHANGED <<hash, paused, ticked>>

(* An entry emptied by the callbacks of its timers is removed after its    *)
(* turn; the iterator, already at the next entry, is then advanced again.  *)
LeaveTarget ==
  /\ pc = "leave"
  /\ IF targetSalvaged /\ timers[currentTarget] = <<>>
     THEN /\ hash' = RemoveAt(hash, Position(hash, currentTarget))
          /\ paused' = [paused EXCEPT ![currentTarget] = FALSE]
          /\ Enter(Successor(Successor(currentTarget)))
     ELSE /\ Enter(Successor(currentTarget))
          /\ UNCHANGED <<hash, paused>>
  /\ IF currentTarget' = None
     THEN dt' = 0 /\ due' = {} /\ ticked' = {}
     ELSE UNCHANGED <<dt, due, ticked>>

------------------------------------------------------------------------------
(* The timers of a target.                                                 *)

EndTimers ==
  /\ pc = "timer" /\ timerIndex > Len(timers[currentTarget])
  /\ pc' = "leave"
  /\ UNCHANGED <<lists, timer, walk, interval, history>>

(* The next timer is the current one, and its update begins by making its  *)
(* fields f.                                                               *)
Tick(x, f) ==
  /\ pc = "timer" /\ timerIndex <= Len(timers[currentTarget])
  /\ x = timers[currentTarget][timerIndex]
  /\ currentTimer' = x
  /\ timerSalvaged' = FALSE
  /\ timer' = [timer EXCEPT ![x] = f]
  /\ due' = due \ {x}
  /\ ticked' = ticked \cup {x}
  /\ UNCHANGED <<lists, dt, currentTarget, targetSalvaged, timerIndex>>

(* `interval = (_interval > 0) ? _interval : _elapsed'                     *)
LoopInterval(f) == IF f.interval > 0 THEN f.interval ELSE f.elapsed

(* Wrong: the first update already counts.                                 *)
StartClockAndLoop ==
  \E x \in Timers :
    LET f == [timer[x] EXCEPT !.elapsed = 0, !.executed = 0]
    IN  /\ timer[x].elapsed = -1
        /\ Tick(x, f)
        /\ pc' = "loop"
        /\ interval' = LoopInterval(f)
        /\ UNCHANGED fired

(* The first update of a timer only starts its clock.                      *)
StartClock ==
  \E x \in Timers :
    /\ timer[x].elapsed = -1
    /\ Tick(x, [timer[x] EXCEPT !.elapsed = 0, !.executed = 0])
    /\ pc' = "next"
    /\ UNCHANGED <<interval, fired>>

Advance ==
  \E x \in Timers :
    LET f == [timer[x] EXCEPT !.elapsed = @ + dt]
    IN  /\ timer[x].elapsed # -1
        /\ Tick(x, f)
        /\ IF f.useDelay
           THEN /\ pc' = IF f.elapsed < f.delay THEN "next" ELSE "callback"
                /\ fired' = (f.elapsed >= f.delay)
                /\ UNCHANGED interval
           ELSE /\ pc' = "loop"
                /\ interval' = LoopInterval(f)
                /\ UNCHANGED fired

(* `while (_elapsed >= interval)'                                          *)
Loop ==
  /\ pc = "loop"
  /\ IF timer[currentTimer].elapsed >= interval
     THEN pc' = "callback" /\ fired' = TRUE /\ UNCHANGED interval
     ELSE pc' = "next" /\ interval' = 0 /\ UNCHANGED fired
  /\ UNCHANGED <<lists, timer, walk, due, ticked>>

(* Executions are counted only where the count is looked at.               *)
Executed(f) == IF f.repeat = Forever THEN f.executed ELSE f.executed + 1

(* Wrong: one repetition more.                                             *)
FinishedLate(f) == f.repeat # Forever /\ f.executed > f.repeat + 1

Finished(f) == f.repeat # Forever /\ f.executed > f.repeat

(* The callback returns; at the end of a delay useDelay is still set.      *)
ReturnDelayed ==
  LET old == timer[currentTimer]
      f == [old EXCEPT !.elapsed = @ - old.delay, !.executed = Executed(old),
                       !.useDelay = FALSE]
  IN  /\ pc = "callback" /\ old.useDelay
      /\ timer' = [timer EXCEPT ![currentTimer] = f]
      /\ IF Finished(f)
         THEN pc' = "cancel" /\ UNCHANGED interval
         ELSE pc' = "loop" /\ interval' = LoopInterval(f)
      /\ UNCHANGED <<lists, walk, history>>

Return ==
  LET old == timer[currentTimer]
      f == [old EXCEPT !.elapsed = @ - interval, !.executed = Executed(old)]
  IN  /\ pc = "callback" /\ ~old.useDelay
      /\ timer' = [timer EXCEPT ![currentTimer] = f]
      /\ pc' = IF Finished(f) THEN "cancel"
               ELSE IF f.elapsed <= 0 \/ targetSalvaged THEN "next" ELSE "loop"
      /\ interval' = IF pc' = "loop" THEN interval ELSE 0
      /\ UNCHANGED <<lists, walk, history>>

(* cancel() unschedules by key: whichever timer has that key now.          *)
Cancel ==
  /\ pc = "cancel"
  /\ pc' = "next"
  /\ LET same == WithKey(currentTarget, timer[currentTimer].key)
     IN  IF same = {} THEN UNCHANGED <<lists, timer, walk, interval, history>>
         ELSE \E i \in same : RemoveTimer(currentTarget, i)

(* Done with the current timer: a salvaged one is released.                *)
NextTimer ==
  /\ pc = "next"
  /\ pc' = "timer"
  /\ refs' = IF timerSalvaged THEN [refs EXCEPT ![currentTimer] = @ - 1] ELSE refs
  /\ timer' = Freed(refs')
  /\ currentTimer' = None
  /\ timerSalvaged' = FALSE
  /\ timerIndex' = timerIndex + 1
  /\ fired' = FALSE
  /\ UNCHANGED <<hash, timers, paused, dt, currentTarget, targetSalvaged,
                 interval, due, ticked>>

UpdateStep ==
  \/ LeaveTarget
  \/ EndTimers
  \/ StartClock
  \/ Advance
  \/ Loop
  \/ ReturnDelayed
  \/ Return
  \/ Cancel
  \/ NextTimer

Next == Call \/ Update \/ UpdateStep

Spec == Init /\ [][Next]_vars

(* The thread runs, and callbacks return.                                  *)
FairSpec == Spec /\ WF_vars(UpdateStep)

------------------------------------------------------------------------------
TypeOK ==
  /\ hash \in Seq(Targets)
  /\ timers \in [Targets -> Seq(Timers)]
  /\ paused \in [Targets -> BOOLEAN]
  /\ timer \in [Timers -> [key : Keys \cup {None}, elapsed : Nat \cup {-1},
                           interval : Nat, repeat : Nat \cup {Forever},
                           delay : Nat, useDelay : BOOLEAN, executed : Nat]]
  /\ refs \in [Timers -> {0, 1}]
  /\ pc \in {"idle", "leave", "timer", "loop", "callback", "cancel", "next"}
  /\ dt \in Deltas \cup {0}
  /\ currentTarget \in Targets \cup {None}
  /\ (currentTarget = None) <=> (pc = "idle")
  /\ targetSalvaged \in BOOLEAN
  /\ timerIndex \in Nat
  /\ currentTimer \in Timers \cup {None}
  /\ (currentTimer = None) <=> (pc \in {"idle", "leave", "timer"})
  /\ timerSalvaged \in BOOLEAN
  /\ interval \in Nat
  /\ due \subseteq Timers /\ ticked \subseteq Timers
  /\ fired \in BOOLEAN

(* A Timer is alive exactly as long as a list holds it or update() is in   *)
(* it: none is freed while its callback removes it, and none is leaked,    *)
(* however unschedule's retain and release, unscheduleAllForTarget's and   *)
(* the release of update() (Scheduler.cpp:355) meet.                       *)
RefsExact ==
  /\ \A x \in Timers :
       refs[x] = IF x \in Listed \/ (x = currentTimer /\ timerSalvaged)
                 THEN 1 ELSE 0
  /\ currentTimer # None => refs[currentTimer] = 1

(* A list holds a timer once and a key once, and the lists of two targets  *)
(* share no timer.                                                         *)
KeysUnique ==
  \A t, u \in Targets : \A i \in DOMAIN timers[t], j \in DOMAIN timers[u] :
    \/ t = u /\ i = j
    \/ /\ timers[t][i] # timers[u][j]
       /\ t = u => timer[timers[t][i]].key # timer[timers[u][j]].key

(* Whatever the callbacks add to and remove from the list being walked,    *)
(* the walk skips no timer that was there before it and takes none twice.  *)
WalkExact ==
  LET seen == IF pc = "timer" THEN timerIndex - 1 ELSE timerIndex
  IN  pc \notin {"idle", "leave"} =>
        \A i \in DOMAIN timers[currentTarget] :
          IF i <= seen THEN timers[currentTarget][i] \notin due
                       ELSE timers[currentTarget][i] \notin ticked

(* An entry without timers does not stay: it is the one being walked, and  *)
(* marked to be removed.                                                   *)
NoEmptyEntry ==
  \A t \in Targets :
    /\ t \notin Hashed => timers[t] = <<>> /\ ~paused[t]
    /\ t \in Hashed /\ timers[t] = <<>> => t = currentTarget /\ targetSalvaged

(* A timer with a finite number of repetitions is triggered at most        *)
(* repeat + 1 times, and is gone afterwards, even if it was rescheduled    *)
(* or the update covers several of its intervals.                          *)
RepeatsBounded ==
  \A x \in Timers :
    LET f == timer[x]
    IN  f.repeat # Forever =>
          /\ f.executed <= f.repeat + 1
          /\ x \in Listed /\ f.executed = f.repeat + 1 =>
               x = currentTimer /\ pc = "cancel"

(* update() comes back whatever the callbacks schedule and unschedule: a   *)
(* timer scheduled during an update is not triggered in it.                *)
UpdateReturns == (pc # "idle") ~> (pc = "idle")

------------------------------------------------------------------------------
(* What the comments say, and the code does not always do.                 *)

Triggers == pc # "callback" /\ pc' = "callback"

(* "If 'interval' is 0, it will be called every frame" (Scheduler.h:151):  *)
(* an update reaches every timer there was at its beginning and that is    *)
(* still there, of a target that was not paused.                           *)
EveryFrame == [][pc # "idle" /\ pc' = "idle" => due = {}]_vars

(* "Unschedules a callback for a key and a given target"                   *)
(* (Scheduler.h:181): a timer that was unscheduled is not triggered.       *)
UnscheduledNotTriggered ==
  [][Triggers => currentTimer' \in Listed]_vars

(* "repeat let the action be repeated repeat + 1 times" (Scheduler.h:153): *)
(* the end of one timer removes no other.                                  *)
CancelsItself ==
  [][pc = "cancel" => Listed \ {currentTimer} \subseteq Listed']_vars

(* "won't be 'ticked' until the target is resumed" (Scheduler.h:226).      *)
PausedNotTicked == [][Triggers => ~paused[currentTarget]]_vars

(* "if _interval == 0, should trigger once every frame"                    *)
(* (Scheduler.cpp:83).                                                     *)
OncePerFrame ==
  [][Triggers /\ timer[currentTimer'].interval = 0 => ~fired]_vars
==============================================================================
