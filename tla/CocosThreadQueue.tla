-------------------------- MODULE CocosThreadQueue --------------------------
(***************************************************************************)
(* The functions other threads hand to the main ("cocos") thread:          *)
(* Scheduler::performFunctionInCocosThread, and the end of update(), which *)
(* runs them.  Functions may hand over functions, and remove those that    *)
(* wait.                                                                   *)
(*                                                                         *)
(* The emptiness of the vector is tested without the mutex                 *)
(* (Scheduler.cpp:387).  While another thread is inside push_back or clear *)
(* that is a data race, and either answer may come out.                    *)
(***************************************************************************)
EXTENDS Integers, Sequences, SequencesExt

CONSTANTS
  Posters,   \* the other threads
  Main,      \* the main thread
  NoThread,  \* no thread
  MaxPosts,  \* bound: the functions each thread hands over
  MaxClears  \* bound: how often removeAll... is called

Threads == Posters \cup {Main}

ASSUME ThreadsAssumption ==
  /\ Main \notin Posters /\ NoThread \notin Threads
  /\ MaxPosts \in Nat /\ MaxClears \in Nat

VARIABLES
  functions,  \* _functionsToPerform: pairs of a thread and a number
  batch,      \* temp, the copy the main thread is working on
  mutex,      \* the thread that holds _performMutex, or NoThread
  call,       \* the call each thread is in
  stage,      \* where the end of update() is
  posted,     \* history: how many functions each thread has handed over
  ran,        \* history: the functions that ran, in their order
  removed,    \* history: the functions that were removed
  clears      \* counts removeAll... for its bound

performVars == <<functions, batch, mutex, call, stage, posted, ran, removed, clears>>

PerformInit ==
  /\ functions = <<>>
  /\ batch = <<>>
  /\ mutex = NoThread
  /\ call = [p \in Threads |-> "none"]
  /\ stage = "idle"
  /\ posted = [p \in Threads |-> 0]
  /\ ran = <<>>
  /\ removed = {}
  /\ clears = 0

------------------------------------------------------------------------------
(* Any thread may call at any time, the main thread from a function (what  *)
(* it calls between updates makes no difference).                          *)
MayCall(p) == call[p] = "none" /\ (p = Main => stage = "running")

PerformFunctionInCocosThread(p) ==
  /\ MayCall(p) /\ posted[p] < MaxPosts
  /\ call' = [call EXCEPT ![p] = "post"]
  /\ UNCHANGED <<functions, batch, mutex, stage, posted, ran, removed, clears>>

RemoveAllFunctions(p) ==
  /\ MayCall(p) /\ clears < MaxClears
  /\ call' = [call EXCEPT ![p] = "clear"]
  /\ clears' = clears + 1
  /\ UNCHANGED <<functions, batch, mutex, stage, posted, ran, removed>>

Lock(p) ==
  /\ call[p] \in {"post", "clear"} /\ mutex = NoThread
  /\ mutex' = p
  /\ call' = [call EXCEPT ![p] = IF @ = "post" THEN "posting" ELSE "clearing"]
  /\ UNCHANGED <<functions, batch, stage, posted, ran, removed, clears>>

Unlock(p) ==
  /\ mutex' = NoThread
  /\ call' = [call EXCEPT ![p] = "none"]
  /\ UNCHANGED <<batch, stage, ran, clears>>

PushBack(p) ==
  /\ call[p] = "posting"
  /\ functions' = Append(functions, <<p, posted[p] + 1>>)
  /\ posted' = [posted EXCEPT ![p] = @ + 1]
  /\ Unlock(p)
  /\ UNCHANGED removed

Clear(p) ==
  /\ call[p] = "clearing"
  /\ functions' = <<>>
  /\ removed' = removed \cup Range(functions)
  /\ Unlock(p)
  /\ UNCHANGED posted

------------------------------------------------------------------------------
(* The end of update().                                                    *)

(* `if (!_functionsToPerform.empty())', which may be wrong during a race.  *)
TestEmpty ==
  /\ stage = "idle"
  /\ functions # <<>> \/ mutex # NoThread
  /\ stage' = "take"
  /\ UNCHANGED <<functions, batch, mutex, call, posted, ran, removed, clears>>

(* Wrong: the mutex is released before the vector is cleared.              *)
TakeBatchThenClear ==
  \/ /\ stage = "take" /\ mutex = NoThread
     /\ batch' = functions
     /\ stage' = "clear"
     /\ UNCHANGED <<functions, mutex, call, posted, ran, removed, clears>>
  \/ /\ stage = "clear"
     /\ functions' = <<>>
     /\ stage' = "running"
     /\ UNCHANGED <<batch, mutex, call, posted, ran, removed, clears>>

(* Wrong: the functions run while the mutex is held.                       *)
TakeBatchLocked ==
  /\ stage = "take" /\ mutex = NoThread
  /\ batch' = functions
  /\ functions' = <<>>
  /\ mutex' = Main
  /\ stage' = "running"
  /\ UNCHANGED <<call, posted, ran, removed, clears>>

(* With the mutex: copy the vector and clear it.                           *)
TakeBatch ==
  /\ stage = "take" /\ mutex = NoThread
  /\ batch' = functions
  /\ functions' = <<>>
  /\ stage' = "running"
  /\ UNCHANGED <<mutex, call, posted, ran, removed, clears>>

(* A function has run; it is not in the middle of a call.                  *)
RunFunction ==
  /\ stage = "running" /\ call[Main] = "none"
  /\ batch # <<>>
  /\ ran' = Append(ran, Head(batch))
  /\ batch' = Tail(batch)
  /\ UNCHANGED <<functions, mutex, call, stage, posted, removed, clears>>

EndUpdate ==
  /\ stage = "running" /\ call[Main] = "none" /\ batch = <<>>
  /\ stage' = "idle"
  /\ UNCHANGED <<functions, batch, mutex, call, posted, ran, removed, clears>>

------------------------------------------------------------------------------
Called(p) == Lock(p) \/ PushBack(p) \/ Clear(p)
MainStep == TestEmpty \/ TakeBatch \/ RunFunction \/ EndUpdate

PerformNext ==
  \/ \E p \in Threads :
       \/ PerformFunctionInCocosThread(p)
       \/ RemoveAllFunctions(p)
       \/ Called(p)
  \/ MainStep

(* Threads that can run do, update() is called every frame, and functions  *)
(* return.  Nobody has to call anything.                                   *)
Fairness == WF_performVars(MainStep) /\ \A p \in Threads : WF_performVars(Called(p))

PerformSpec == PerformInit /\ [][PerformNext]_performVars /\ Fairness

------------------------------------------------------------------------------
Functions == Threads \X (1 .. MaxPosts)

PerformTypeOK ==
  /\ functions \in Seq(Functions) /\ batch \in Seq(Functions)
  /\ mutex \in Threads \cup {NoThread}
  /\ call \in [Threads -> {"none", "post", "posting", "clear", "clearing"}]
  /\ stage \in {"idle", "take", "running"}
  /\ \A p \in Threads : mutex = p <=> call[p] \in {"posting", "clearing"}
  /\ posted \in [Threads -> 0 .. MaxPosts]
  /\ ran \in Seq(Functions)
  /\ removed \subseteq Functions
  /\ clears \in 0 .. MaxClears

(* Each function handed over waits, has run or was removed, only one of    *)
(* them and once, and those of one thread run in their order, however the  *)
(* threads' calls meet the copying and clearing of the vector.             *)
HandedOverOnce ==
  LET all == ran \o batch \o functions
  IN  /\ \A i, j \in DOMAIN all :
           i < j /\ all[i][1] = all[j][1] => all[i][2] < all[j][2]
      /\ Range(all) \cup removed =
           {f \in Functions : f[2] <= posted[f[1]]}
      /\ Range(all) \cap removed = {}

(* What is handed over runs, unless it is removed: also what a function    *)
(* hands over, for which the mutex has to be free while functions run.     *)
PostedRuns ==
  \A f \in Functions :
    (call[f[1]] = "post" /\ posted[f[1]] = f[2] - 1) ~>
      f \in Range(ran) \cup removed

(* "Functions unscheduled in this manner will not be executed"             *)
(* (Scheduler.h:267): after the removal nothing that was handed over       *)
(* before it is still to run.                                              *)
RemovalComplete ==
  [][\A p \in Threads : call[p] = "clearing" /\ call'[p] = "none" =>
       batch' = <<>>]_performVars
==============================================================================
