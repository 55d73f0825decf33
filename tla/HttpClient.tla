------------------------------ MODULE HttpClient ------------------------------
(***************************************************************************)
(* network/HttpClient: requests that wait for the network thread (send) or *)
(* have a thread of their own (sendImmediate), responses handed to the     *)
(* main thread through the scheduler, and the client that the engine       *)
(* destroys when it restarts (Engine::restartVM).                          *)
(*                                                                         *)
(* Whatever a thread does while it holds a mutex is one step: no other     *)
(* thread can see it in between.  A client's network thread has the name   *)
(* of the client, the thread of sendImmediate that of the request.         *)
(***************************************************************************)
EXTENDS Integers, Sequences, SequencesExt, FiniteSets

CONSTANTS
  Clients,         \* bound: the HttpClient objects, one after the other
  Queued,          \* bound: the HttpRequest objects given to send, once each
  Immediate,       \* bound: those given to sendImmediate
  Sentinel,        \* _requestSentinel
  None,            \* no client, no request
  CountedInTime    \* TRUE: a client is not destroyed while a thread it has
                   \* started is still to count itself

ASSUME HttpClientAssumption ==
  /\ Clients \cap (Queued \cup Immediate) = {} /\ Queued \cap Immediate = {}
  /\ Sentinel \notin Queued \cup Immediate /\ None \notin Clients \cup Queued \cup Immediate
  /\ IsFiniteSet(Clients \cup Immediate)
  /\ CountedInTime \in BOOLEAN

Requests == Queued \cup Immediate
Threads == Clients \cup Immediate

VARIABLES
  instance,       \* _httpClient
  thiz,           \* the client destroyInstance is working on
  memory,         \* what became of each client: "none", "alive", "deleted"
  threadCount,    \* _threadCount: the threads in the client, and its owner
  isInited,       \* _isInited: the network thread was started
  hasScheduler,   \* _scheduler is set
  requestQueue,   \* _requestQueue
  responseQueue,  \* _responseQueue, as the requests answered
  request,        \* the request the network thread is working on
  functions,      \* Scheduler::_functionsToPerform, by the thread that posted
  batch,          \* those update() has taken and not run yet
  main,           \* where the main thread is
  answering,      \* the request whose callback runs, or was to run
  pc,             \* where the threads are
  owner,          \* the client each request was sent with
  refs,           \* _referenceCount of the requests
  responseRefs,   \* _referenceCount of their responses, 0: there is none
  held,           \* the requests their sender still has a reference to
  sent,           \* history: the requests given to send, in their order, of
                  \* each client
  answered        \* history: the requests answered by the functions of each
                  \* thread, in their order

client == <<instance, thiz, memory, threadCount, isInited, hasScheduler>>
queues == <<requestQueue, responseQueue, request>>
posts == <<functions, batch>>
history == <<owner, sent, answered>>
counts == <<refs, responseRefs, held>>
vars == <<client, queues, posts, main, answering, pc, counts, history>>

Init ==
  /\ instance = None
  /\ thiz = None
  /\ memory = [h \in Clients |-> "none"]
  /\ threadCount = [h \in Clients |-> 0]
  /\ isInited = [h \in Clients |-> FALSE]
  /\ hasScheduler = [h \in Clients |-> FALSE]
  /\ requestQueue = [h \in Clients |-> <<>>]
  /\ responseQueue = [h \in Clients |-> <<>>]
  /\ request = [h \in Clients |-> None]
  /\ functions = <<>>
  /\ batch = <<>>
  /\ main = "idle"
  /\ answering = None
  /\ pc = [x \in Threads |-> "none"]
  /\ owner = [r \in Requests |-> None]
  /\ refs = [r \in Requests |-> 0]
  /\ responseRefs = [r \in Requests |-> 0]
  /\ held = {}
  /\ sent = [h \in Clients |-> <<>>]
  /\ answered = [x \in Threads |-> <<>>]

Goto(x, label) == pc' = [pc EXCEPT ![x] = label]

(* The client whose members thread x, or its function, uses.               *)
ClientOf(x) == IF x \in Clients THEN x ELSE owner[x]

One(b) == IF b THEN 1 ELSE 0

(* Vector::erase() and clear() release what they take from a queue.        *)
Released(S, count) == [r \in Requests |-> count[r] - One(r \in S)]

(* A response whose last reference goes lets go of its request.            *)
ReleaseResponses(S) ==
  /\ responseRefs' = Released(S, responseRefs)
  /\ refs' = Released({r \in S : responseRefs[r] = 1}, refs)

------------------------------------------------------------------------------
(* The main thread.                                                        *)

(* getInstance: the next client, with the scheduler, counts its owner.     *)
GetInstance ==
  /\ main \in {"idle", "callback"} /\ instance = None
  /\ instance' \in {h \in Clients : memory[h] = "none"}
  /\ memory' = [memory EXCEPT ![instance'] = "alive"]
  /\ threadCount' = [threadCount EXCEPT ![instance'] = 1]
  /\ hasScheduler' = [hasScheduler EXCEPT ![instance'] = TRUE]
  /\ UNCHANGED <<thiz, isInited, queues, posts, main, answering, pc, counts,
                 history>>

New(r) ==
  /\ main \in {"idle", "callback"} /\ instance # None
  /\ owner[r] = None
  /\ owner' = [owner EXCEPT ![r] = instance]
  /\ held' = held \cup {r}

(* send: the references are the sender's, send's own and the queue's.      *)
Send(r) ==
  /\ New(r)
  /\ isInited' = [isInited EXCEPT ![instance] = TRUE]
  /\ IF isInited[instance] THEN UNCHANGED pc ELSE Goto(instance, "start")
  /\ refs' = [refs EXCEPT ![r] = 3]
  /\ requestQueue' = [requestQueue EXCEPT ![instance] = Append(@, r)]
  /\ sent' = [sent EXCEPT ![instance] = Append(@, r)]
  /\ main' = IF main = "idle" THEN "notify" ELSE "notify in callback"
  /\ UNCHANGED <<instance, thiz, memory, threadCount, hasScheduler, responseQueue,
                 request, posts, answering, responseRefs, answered>>

(* Wrong: nobody is woken up.                                              *)
WakeNobody(h) == UNCHANGED pc

(* _sleepCondition.notify_one(): only the network thread ever waits.       *)
Wake(h) == IF pc[h] = "asleep" THEN Goto(h, "take") ELSE UNCHANGED pc

Notify ==
  /\ main \in {"notify", "notify in callback"}
  /\ Wake(instance)
  /\ main' = IF main = "notify" THEN "idle" ELSE "callback"
  /\ UNCHANGED <<client, queues, posts, answering, counts, history>>

(* sendImmediate: the references are the sender's, its own and the         *)
(* response's.                                                             *)
SendImmediate(r) ==
  /\ New(r)
  /\ refs' = [refs EXCEPT ![r] = 3]
  /\ responseRefs' = [responseRefs EXCEPT ![r] = 1]
  /\ Goto(r, "start")
  /\ UNCHANGED <<client, queues, posts, main, answering, sent, answered>>

------------------------------------------------------------------------------
(* Engine::restartVM, at the beginning of a tick.                          *)

NoneStarting == \A x \in Threads : pc[x] # "start"

DestroyInstance ==
  /\ main = "idle" /\ instance # None
  /\ CountedInTime => NoneStarting
  /\ thiz' = instance
  /\ instance' = None
  /\ hasScheduler' = [hasScheduler EXCEPT ![thiz'] = FALSE]
  /\ main' = "quit"
  /\ UNCHANGED <<memory, threadCount, isInited, queues, posts,
                 answering, pc, counts, history>>

(* Wrong: a network thread that has work is not told to quit.              *)
PushSentinelIfEmpty ==
  /\ main = "quit"
  /\ requestQueue' = [requestQueue EXCEPT ![thiz] = IF @ = <<>> THEN <<Sentinel>> ELSE @]
  /\ main' = "notify quit"
  /\ UNCHANGED <<client, responseQueue, request, posts, answering, pc, counts,
                 history>>

PushSentinel ==
  /\ main = "quit"
  /\ requestQueue' = [requestQueue EXCEPT ![thiz] = Append(@, Sentinel)]
  /\ main' = "notify quit"
  /\ UNCHANGED <<client, responseQueue, request, posts, answering, pc, counts,
                 history>>

NotifyQuit ==
  /\ main = "notify quit"
  /\ Wake(thiz)
  /\ main' = "decrease"
  /\ UNCHANGED <<client, queues, posts, answering, counts, history>>

(* Wrong: whoever is last finds a count of one.                            *)
DecreaseOneEarly(h) ==
  /\ threadCount' = [threadCount EXCEPT ![h] = @ - 1]
  /\ memory' = IF threadCount[h] \in {1, 2} THEN [memory EXCEPT ![h] = "deleted"]
                                    ELSE memory

DecreaseThreadCountAndMayDeleteThis(h) ==
  /\ threadCount' = [threadCount EXCEPT ![h] = @ - 1]
  /\ memory' = IF threadCount[h] = 1 THEN [memory EXCEPT ![h] = "deleted"]
                                    ELSE memory

DecreaseOwner ==
  /\ main = "decrease"
  /\ DecreaseThreadCountAndMayDeleteThis(thiz)
  /\ thiz' = None
  /\ main' = "remove functions"
  /\ UNCHANGED <<instance, isInited, hasScheduler, queues, posts, answering, pc, counts,
                 history>>

(* Wrong: the functions stay.                                              *)
KeepFunctions ==
  /\ main = "remove functions"
  /\ main' = "idle"
  /\ UNCHANGED <<client, queues, posts, answering, pc, counts, history>>

RemoveFunctions ==
  /\ main = "remove functions"
  /\ functions' = <<>>
  /\ main' = "idle"
  /\ UNCHANGED <<client, queues, batch, answering, pc, counts, history>>

------------------------------------------------------------------------------
(* Scheduler::update runs what the threads have posted.                    *)

Update ==
  /\ main = "idle" /\ batch = <<>> /\ functions # <<>>
  /\ batch' = functions
  /\ functions' = <<>>
  /\ main' = "run"
  /\ UNCHANGED <<client, queues, answering, pc, counts, history>>

(* dispatchResponseCallbacks takes the first response, whichever thread    *)
(* posted it, and with it the queue's reference; the function of           *)
(* sendImmediate has its own response.                                     *)
RunFunction ==
  /\ main = "run" /\ batch # <<>>
  /\ batch' = Tail(batch)
  /\ IF Head(batch) \in Immediate
     THEN answering' = Head(batch) /\ UNCHANGED <<responseQueue, counts>>
     ELSE LET h == Head(batch)
          IN  IF responseQueue[h] = <<>>
              THEN answering' = None /\ UNCHANGED <<responseQueue, counts>>
              ELSE /\ answering' = Head(responseQueue[h])
                   /\ responseQueue' = [responseQueue EXCEPT ![h] = Tail(@)]
                   /\ ReleaseResponses({answering'}) /\ UNCHANGED held
  /\ answered' = IF answering' = None THEN answered
                 ELSE [answered EXCEPT ![Head(batch)] = Append(@, answering')]
  /\ main' = "callback"
  /\ UNCHANGED <<client, requestQueue, request, functions, pc, owner, sent>>

(* Wrong: the reference taken by send stays.                               *)
ReturnResponseOnly ==
  /\ main = "callback"
  /\ ReleaseResponses({answering})
  /\ answering' = None
  /\ main' = "run"
  /\ UNCHANGED <<client, queues, posts, pc, held, history>>

(* The callback returns: the sender's reference goes, if it let go of the  *)
(* request in the callback, then one of the response, which takes its      *)
(* reference to the request with it if it was the last, then send's.       *)
Return ==
  /\ main = "callback"
  /\ held' \in {held, held \ {answering}}
  /\ responseRefs' = Released({answering}, responseRefs)
  /\ refs' = [r \in Requests |->
                IF r # answering THEN refs[r]
                ELSE refs[r] - One(r \in held \ held') - One(responseRefs[r] = 1) - 1]
  /\ answering' = None
  /\ main' = "run"
  /\ UNCHANGED <<client, queues, posts, pc, history>>

EndUpdate ==
  /\ main = "run" /\ batch = <<>>
  /\ main' = "idle"
  /\ UNCHANGED <<client, queues, posts, answering, pc, counts, history>>

------------------------------------------------------------------------------
(* The network threads: networkThread of a client, networkThreadAlone of a *)
(* request.                                                                *)

IncreaseThreadCount(x) ==
  /\ pc[x] = "start"
  /\ threadCount' = [threadCount EXCEPT ![ClientOf(x)] = @ + 1]
  /\ Goto(x, IF x \in Clients THEN "take" ELSE "process")
  /\ UNCHANGED <<instance, thiz, memory, isInited, hasScheduler, queues, posts,
                 main, answering, counts, history>>

Sleep(h) ==
  /\ pc[h] = "take" /\ requestQueue[h] = <<>>
  /\ Goto(h, "asleep")
  /\ UNCHANGED <<client, queues, posts, main, answering, counts, history>>

(* Which the C++ standard allows.                                          *)
SpuriousWakeup(h) ==
  /\ pc[h] = "asleep"
  /\ Goto(h, "take")
  /\ UNCHANGED <<client, queues, posts, main, answering, counts, history>>

(* The queue's reference goes with the request's place in it.              *)
TakeRequest(h) ==
  LET r == Head(requestQueue[h])
  IN  /\ pc[h] = "take" /\ requestQueue[h] # <<>>
      /\ requestQueue' = [requestQueue EXCEPT ![h] = Tail(@)]
      /\ refs' = Released({r}, refs)
      /\ IF r = Sentinel
         THEN Goto(h, "clear requests") /\ UNCHANGED request
         ELSE Goto(h, "process") /\ request' = [request EXCEPT ![h] = r]
      /\ UNCHANGED <<client, responseQueue, posts, main, answering, responseRefs, held,
                     history>>

(* The new response has a reference and holds one to the request; curl     *)
(* answers, or gives up in time.                                           *)
ProcessResponse(x) ==
  /\ pc[x] = "process"
  /\ IF x \in Clients
     THEN /\ refs' = [refs EXCEPT ![request[x]] = @ + 1]
          /\ responseRefs' = [responseRefs EXCEPT ![request[x]] = 1]
          /\ Goto(x, "respond")
     ELSE Goto(x, "post") /\ UNCHANGED <<refs, responseRefs>>
  /\ UNCHANGED <<client, queues, posts, main, answering, held, history>>

(* Wrong: the response is put before those that wait.                      *)
PushResponseFirst(h) ==
  /\ pc[h] = "respond"
  /\ responseQueue' = [responseQueue EXCEPT ![h] = <<request[h]>> \o @]
  /\ responseRefs' = [responseRefs EXCEPT ![request[h]] = @ + 1]
  /\ request' = [request EXCEPT ![h] = None]
  /\ Goto(h, "post")
  /\ UNCHANGED <<client, requestQueue, posts, main, answering, refs, held, history>>

(* The queue has a reference to the response, beside that of its maker.    *)
PushResponse(h) ==
  /\ pc[h] = "respond"
  /\ responseQueue' = [responseQueue EXCEPT ![h] = Append(@, request[h])]
  /\ responseRefs' = [responseRefs EXCEPT ![request[h]] = @ + 1]
  /\ request' = [request EXCEPT ![h] = None]
  /\ Goto(h, "post")
  /\ UNCHANGED <<client, requestQueue, posts, main, answering, refs, held, history>>

(* performFunctionInCocosThread, unless the client was destroyed.          *)
Post(x) ==
  /\ pc[x] = "post"
  /\ functions' = IF hasScheduler[ClientOf(x)] THEN Append(functions, x)
                                               ELSE functions
  /\ Goto(x, IF x \in Clients THEN "take" ELSE "leave")
  /\ UNCHANGED <<client, queues, batch, main, answering, counts, history>>

ClearRequests(h) ==
  /\ pc[h] = "clear requests"
  /\ refs' = Released(Range(requestQueue[h]), refs)
  /\ requestQueue' = [requestQueue EXCEPT ![h] = <<>>]
  /\ Goto(h, "clear responses")
  /\ UNCHANGED <<client, responseQueue, request, posts, main, answering, responseRefs,
                 held, history>>

(* The queue's references go, those of the responses' maker do not.        *)
ClearResponses(h) ==
  /\ pc[h] = "clear responses"
  /\ ReleaseResponses(Range(responseQueue[h]))
  /\ responseQueue' = [responseQueue EXCEPT ![h] = <<>>]
  /\ Goto(h, "leave")
  /\ UNCHANGED <<client, requestQueue, request, posts, main, answering, held,
                 history>>

Leave(x) ==
  /\ pc[x] = "leave"
  /\ DecreaseThreadCountAndMayDeleteThis(ClientOf(x))
  /\ Goto(x, "done")
  /\ UNCHANGED <<instance, thiz, isInited, hasScheduler, queues, posts, main,
                 answering, counts, history>>

------------------------------------------------------------------------------
NetworkThread(h) ==
  \/ Sleep(h)
  \/ TakeRequest(h)
  \/ PushResponse(h)
  \/ ClearRequests(h)
  \/ ClearResponses(h)

NetworkThreadAlone(x) ==
  \/ IncreaseThreadCount(x)
  \/ ProcessResponse(x)
  \/ Post(x)
  \/ Leave(x)

Restart ==
  \/ PushSentinel
  \/ NotifyQuit
  \/ DecreaseOwner
  \/ RemoveFunctions

MainThread ==
  \/ Notify
  \/ Restart
  \/ Update
  \/ RunFunction
  \/ Return
  \/ EndUpdate

Next ==
  \/ GetInstance
  \/ \E r \in Queued : Send(r)
  \/ \E r \in Immediate : SendImmediate(r)
  \/ DestroyInstance
  \/ MainThread
  \/ \E h \in Clients : NetworkThread(h) \/ SpuriousWakeup(h)
  \/ \E x \in Threads : NetworkThreadAlone(x)

(* The threads run, a callback returns, and the engine ticks.  Nobody has  *)
(* to send or to restart.                                                  *)
Spec ==
  /\ Init /\ [][Next]_vars
  /\ WF_vars(MainThread)
  /\ \A h \in Clients : WF_vars(NetworkThread(h))
  /\ \A x \in Threads : WF_vars(NetworkThreadAlone(x))

------------------------------------------------------------------------------
Labels ==
  {"none", "start", "take", "asleep", "process", "respond", "post",
   "clear requests", "clear responses", "leave", "done"}

TypeOK ==
  /\ instance \in Clients \cup {None} /\ thiz \in Clients \cup {None}
  /\ memory \in [Clients -> {"none", "alive", "deleted"}]
  /\ threadCount \in [Clients -> Nat]
  /\ isInited \in [Clients -> BOOLEAN]
  /\ hasScheduler \in [Clients -> BOOLEAN]
  /\ requestQueue \in [Clients -> Seq(Queued \cup {Sentinel})]
  /\ responseQueue \in [Clients -> Seq(Queued)]
  /\ request \in [Clients -> Queued \cup {None}]
  /\ functions \in Seq(Threads) /\ batch \in Seq(Threads)
  /\ main \in {"idle", "notify", "notify in callback", "run", "callback", "quit",
               "notify quit", "decrease", "remove functions"}
  /\ answering \in Requests \cup {None}
  /\ pc \in [Threads -> Labels]
  /\ owner \in [Requests -> Clients \cup {None}]
  /\ refs \in [Requests -> Nat] /\ responseRefs \in [Requests -> Nat]
  /\ held \subseteq Requests
  /\ sent \in [Clients -> Seq(Queued)] /\ answered \in [Threads -> Seq(Requests)]

Inside(h) ==
  {x \in Threads : pc[x] \notin {"none", "start", "done"} /\ ClientOf(x) = h}

(* _threadCount is the number of threads that use the client and its       *)
(* owner, and the client is deleted when the last of them lets go, by      *)
(* whichever thread that is: never while one of them still uses it.        *)
DeletedByTheLast ==
  \A h \in Clients :
    /\ threadCount[h] = Cardinality(Inside(h)) + IF h \in {instance, thiz} THEN 1 ELSE 0
    /\ memory[h] = "deleted" <=> memory[h] # "none" /\ threadCount[h] = 0

(* No function that is still to run belongs to a client that was           *)
(* destroyed, although threads go on after the destruction: a thread posts *)
(* with the scheduler or not at all, and the engine removes what was       *)
(* posted before.                                                          *)
FunctionsHaveClient ==
  main \notin {"quit", "notify quit", "decrease", "remove functions"} =>
    \A x \in Range(functions) \cup Range(batch) : ClientOf(x) = instance

(* Each request of a live client is in exactly one place, and they are     *)
(* answered once and in the order they were sent, across the two queues    *)
(* and the three threads that move them.                                   *)
InOrderOnce ==
  instance # None =>
    LET at == request[instance]
    IN  sent[instance] =
          answered[instance] \o responseQueue[instance]
            \o (IF at = None THEN <<>> ELSE <<at>>) \o requestQueue[instance]

Answered(r) == \E x \in Threads : r \in Range(answered[x])

(* The client has not let go of the request: its callback did not return.  *)
Pending(r) == owner[r] # None /\ (~Answered(r) \/ answering = r)

Waiting(r) == \E h \in Clients : r \in Range(requestQueue[h])

InResponses(r) == \E h \in Clients : r \in Range(responseQueue[h])

(* The response is on its way to the callback.                             *)
HasResponse(r) ==
  IF r \in Immediate THEN Pending(r)
  ELSE \/ answering = r
       \/ InResponses(r)
       \/ \E h \in Clients : request[h] = r /\ pc[h] = "respond"

(* Its client came to its end before the callback.                         *)
Left(r) ==
  /\ r \in Queued /\ Pending(r)
  /\ \E h \in Clients : owner[r] = h /\ pc[h] \in {"leave", "done"}

RequestCount(r) ==
  refs[r] = One(r \in held) + One(Pending(r)) + One(Waiting(r)) + One(responseRefs[r] > 0)

ResponseCount(r) ==
  IF HasResponse(r)
  THEN responseRefs[r] = 1 + One(InResponses(r))
  ELSE responseRefs[r] = 0 \/ (responseRefs[r] = 1 /\ Left(r))

(* Counts of references over two queues and three threads.  A request's is *)
(* that of its holders: its sender, the client until the callback has      *)
(* returned, the request queue, and the response while there is one.  A    *)
(* response's is that of its maker and of the response queue; but for one  *)
(* whose client comes to its end first, it is gone when its callback has   *)
(* returned.  (What a destroyed client does not answer keeps the client's  *)
(* reference, and a response that waited its maker's.)                     *)
RefsExact == \A r \in Requests : RequestCount(r) /\ ResponseCount(r)

(* A request is answered unless its client is destroyed first.             *)
SentAnswered ==
  \A r \in Requests :
    owner[r] # None ~> Answered(r) \/ owner[r] # instance

(* A destroyed client's threads come to their end, whatever they were      *)
(* doing, and its memory is freed.                                         *)
DestroyedDeleted ==
  \A h \in Clients : memory[h] = "alive" /\ instance # h ~> memory[h] = "deleted"

------------------------------------------------------------------------------
(* Not among the runs.                                                     *)

(* HttpResponse's comment: the destructor will be called in HttpClient     *)
(* internal; users do not destruct a response.  When a client is gone, no  *)
(* response it has made for a request of its queue should be left; but     *)
(* clear() of the response queue leaves its maker's reference.             *)
ResponsesDestroyed ==
  \A r \in Queued : owner[r] # None /\ memory[owner[r]] = "deleted" => responseRefs[r] = 0

(* The thread count is to keep a client alive for its threads              *)
(* (decreaseThreadCountAndMayDeleteThis); with CountedInTime = FALSE a     *)
(* thread that was started but has not counted itself finds it deleted.    *)
ThreadsHaveClient ==
  \A x \in Threads : pc[x] \notin {"none", "done"} => memory[ClientOf(x)] = "alive"
==============================================================================
