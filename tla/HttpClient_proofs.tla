--------------------------- MODULE HttpClient_proofs ---------------------------
(***************************************************************************)
(* Theorems about HttpClient, for any number of clients and requests: the  *)
(* count of threads is exact and the last one deletes the client, no       *)
(* function of a destroyed client is left to run, requests are answered    *)
(* once and in order, and their counts of references are exact.            *)
(*                                                                         *)
(* Two invariants: IInv says where the threads and their functions are,    *)
(* JInv, which needs it, where the requests are.                           *)
(*                                                                         *)
(* They hold if a client is not destroyed while a thread it has started is *)
(* still to count itself (CountedInTime), and fail otherwise.              *)
(***************************************************************************)
EXTENDS HttpClient, FiniteSetTheorems, SequenceTheorems, TLAPS

(* The threads that are not in their client: not yet, or no longer.        *)
Outside == {"none", "start", "done"}

(* The main thread is in destroyInstance, or has to remove the functions.  *)
Destroying == {"quit", "notify quit", "decrease"}
Restarting == Destroying \cup {"remove functions"}

Owned(h) == IF h \in {instance, thiz} THEN 1 ELSE 0

Types1 ==
  /\ instance \in Clients \cup {None} /\ thiz \in Clients \cup {None}
  /\ memory \in [Clients -> {"none", "alive", "deleted"}]
  /\ threadCount \in [Clients -> Int]
  /\ isInited \in [Clients -> BOOLEAN] /\ hasScheduler \in [Clients -> BOOLEAN]
  /\ functions \in Seq(Threads) /\ batch \in Seq(Threads)
  /\ pc \in [Threads -> Labels]
  /\ owner \in [Requests -> Clients \cup {None}]

OwnerInv ==
  /\ thiz # None <=> main \in Destroying
  /\ main \in Restarting => instance = None
  /\ \A h \in Clients :
       /\ h \in {instance, thiz} => memory[h] = "alive"
       /\ hasScheduler[h] <=> h = instance

(* A thread has a client, which is there when the thread starts.           *)
ThreadInv ==
  /\ \A x \in Threads :
       /\ pc[x] # "none" => ClientOf(x) \in Clients /\ memory[ClientOf(x)] # "none"
       /\ pc[x] = "start" => ClientOf(x) = instance
  /\ \A h \in Clients : ~isInited[h] => pc[h] = "none"

CountInv == \A h \in Clients : threadCount[h] = Cardinality(Inside(h)) + Owned(h)

DeletedInv ==
  \A h \in Clients : memory[h] = "deleted" <=> memory[h] # "none" /\ threadCount[h] = 0

FunctionInv ==
  /\ batch # <<>> => main \in {"run", "callback", "notify in callback"}
  /\ \A x \in Range(functions) \cup Range(batch) :
       /\ ClientOf(x) \in Clients
       /\ main \notin Restarting => ClientOf(x) = instance

IInv ==
  /\ Types1
  /\ OwnerInv
  /\ ThreadInv
  /\ CountInv
  /\ DeletedInv
  /\ FunctionInv

------------------------------------------------------------------------------
LEMMA Disjoint ==
  /\ None \notin Clients /\ None \notin Threads /\ None \notin Requests
  /\ Clients \cap Requests = {} /\ Queued \cap Threads = {}
BY HttpClientAssumption DEF Threads, Requests

LEMMA InsideFinite ==
  \A h : IsFiniteSet(Inside(h)) /\ Cardinality(Inside(h)) \in Nat
<1>1. IsFiniteSet(Threads)
  BY HttpClientAssumption DEF Threads
<1>2. ASSUME NEW h PROVE IsFiniteSet(Inside(h)) /\ Cardinality(Inside(h)) \in Nat
  <2>1. Inside(h) \subseteq Threads
    BY DEF Inside
  <2>2. QED
    BY <1>1, <2>1, FS_Subset, FS_CardinalityType
<1>3. QED
  BY <1>2

LEMMA RangeIn == \A s \in Seq(Threads) : Range(s) \subseteq Threads
<1>1. ASSUME NEW s \in Seq(Threads) PROVE Range(s) \subseteq Threads
  <2>1. s \in [1..Len(s) -> Threads] /\ DOMAIN s = 1..Len(s)
    BY LenProperties
  <2>2. QED
    BY <2>1 DEF Range
<1>2. QED
  BY <1>1

(* What the sequences of functions become, by what they hold.              *)
LEMMA RangeAppend ==
  ASSUME NEW s \in Seq(Threads), NEW x \in Threads
  PROVE  Range(Append(s, x)) \subseteq Range(s) \cup {x}
<1>1. /\ DOMAIN s = 1..Len(s) /\ Len(s) \in Nat
      /\ DOMAIN Append(s, x) = 1..(Len(s) + 1)
      /\ \A i \in 1..Len(s) : Append(s, x)[i] = s[i]
      /\ Append(s, x)[Len(s) + 1] = x
  BY AppendProperties, LenProperties
<1> DEFINE n == Len(s)
<1> HIDE DEF n
<1>2. \A i \in 1..(n + 1) : i \in 1..n \/ i = n + 1
  BY <1>1 DEF n
<1>3. QED
  BY <1>1, <1>2 DEF Range, n

LEMMA RangeTail ==
  ASSUME NEW s \in Seq(Threads), s # <<>>
  PROVE  /\ Tail(s) \in Seq(Threads) /\ Head(s) \in Threads
         /\ Range(Tail(s)) \subseteq Range(s)
<1> DEFINE n == Len(s)
           r == Tail(s)
<1>1. n \in Nat \ {0} /\ DOMAIN s = 1..n
  BY EmptySeq, LenProperties
<1>2. /\ r \in Seq(Threads) /\ Head(s) \in Threads
      /\ DOMAIN r = 1..(n - 1)
      /\ \A i \in 1..(n - 1) : r[i] = s[i + 1]
  BY HeadTailProperties, LenProperties
<1> HIDE DEF n, r
<1>3. \A i \in 1..(n - 1) : i + 1 \in 1..n
  BY <1>1
<1>4. Range(r) \subseteq Range(s)
  BY <1>1, <1>2, <1>3 DEF Range
<1>5. QED
  BY <1>2, <1>4 DEF r

------------------------------------------------------------------------------
(* A thread goes from one place in its client to another.                  *)
InnerStep ==
  \/ UNCHANGED pc
  \/ \E x \in Threads, label \in Labels \ Outside : pc[x] \notin Outside /\ Goto(x, label)

LEMMA InnerInv ==
  ASSUME IInv, InnerStep, UNCHANGED <<client, owner>>,
         main' \in Destroying <=> main \in Destroying,
         main' \in Restarting => main \in Restarting,
         functions' \in Seq(Threads), batch' \in Seq(Threads), FunctionInv'
  PROVE  IInv'
<1>1. UNCHANGED <<instance, thiz, memory, threadCount, isInited, hasScheduler, owner>>
  BY DEF client
<1>2. /\ pc' \in [Threads -> Labels]
      /\ \A x \in Threads : pc'[x] = pc[x] \/ (pc[x] \notin Outside /\ pc'[x] \notin Outside)
  BY DEF IInv, Types1, InnerStep, Goto
<1>3. \A x : ClientOf(x)' = ClientOf(x)
  BY <1>1 DEF ClientOf
<1>4. \A h : Inside(h)' = Inside(h)
  BY <1>2, <1>3 DEF Inside, Outside
<1>5. Types1'
  BY <1>1, <1>2 DEF IInv, Types1
<1>6. OwnerInv'
  BY <1>1 DEF IInv, OwnerInv
<1>7. ThreadInv'
  <2>1. \A x \in Threads : /\ pc'[x] = "none" <=> pc[x] = "none"
                           /\ pc'[x] = "start" <=> pc[x] = "start"
    BY <1>2 DEF Outside
  <2>2. Clients \subseteq Threads
    BY DEF Threads
  <2>3. QED
    BY <1>1, <1>3, <2>1, <2>2 DEF IInv, ThreadInv
<1>8. CountInv' /\ DeletedInv'
  BY <1>1, <1>4 DEF IInv, CountInv, DeletedInv, Owned
<1>9. QED
  BY <1>5, <1>6, <1>7, <1>8 DEF IInv

(* The functions stay, and so does their client.                           *)
LEMMA FunctionsStay ==
  ASSUME IInv, UNCHANGED <<functions, batch, instance, owner>>,
         main' \in Restarting <=> main \in Restarting,
         batch # <<>> => main' \in {"run", "callback", "notify in callback"}
  PROVE  FunctionInv'
BY DEF IInv, FunctionInv, ClientOf

LEMMA WorkerInv ==
  ASSUME IInv, NEW x \in Threads,
         \/ x \in Clients /\ (NetworkThread(x) \/ SpuriousWakeup(x))
         \/ ProcessResponse(x) \/ Post(x)
  PROVE  IInv'
<1>1. UNCHANGED <<client, owner, main, batch>>
  BY DEF NetworkThread, Sleep, SpuriousWakeup, TakeRequest, ProcessResponse,
         PushResponse, Post, ClearRequests, ClearResponses, posts, history
<1>2. InnerStep
  BY DEF NetworkThread, Sleep, SpuriousWakeup, TakeRequest, ProcessResponse,
         PushResponse, Post, ClearRequests, ClearResponses, InnerStep, Outside, Labels
<1>3. functions' \in Seq(Threads) /\ FunctionInv'
  <2>1. CASE Post(x)
    <3>1. CASE UNCHANGED functions
      BY <1>1, <3>1, FunctionsStay DEF IInv, Types1, client, FunctionInv
    <3>2. CASE hasScheduler[ClientOf(x)] /\ functions' = Append(functions, x)
      <4>1. ClientOf(x) \in Clients
        BY <2>1 DEF IInv, ThreadInv, Post
      <4>2. ClientOf(x) = instance
        BY <3>2, <4>1 DEF IInv, OwnerInv
      <4>3. functions' \in Seq(Threads)
        BY <3>2, AppendProperties DEF IInv, Types1
      <4>4. Range(functions') \subseteq Range(functions) \cup {x}
        BY <3>2, RangeAppend DEF IInv, Types1
      <4>5. QED
        BY <1>1, <4>1, <4>2, <4>3, <4>4 DEF IInv, FunctionInv, ClientOf, client
    <3>3. QED
      BY <2>1, <3>1, <3>2 DEF Post
  <2>2. CASE ~Post(x)
    <3>1. UNCHANGED functions
      BY <2>2 DEF NetworkThread, Sleep, SpuriousWakeup, TakeRequest, ProcessResponse,
                  PushResponse, ClearRequests, ClearResponses, posts
    <3>2. QED
      BY <1>1, <3>1, FunctionsStay DEF IInv, Types1, client, FunctionInv
  <2>3. QED
    BY <2>1, <2>2
<1>4. QED
  BY <1>1, <1>2, <1>3, InnerInv DEF IInv, Types1

(* notify_one for the network thread of a client, or of none.              *)
LEMMA WakeInner ==
  ASSUME Types1, NEW h \in Clients \cup {None}, Wake(h)
  PROVE  InnerStep
<1>1. CASE h \in Clients
  BY <1>1 DEF Wake, InnerStep, Threads, Outside, Labels
<1>2. CASE h = None
  BY <1>2, Disjoint DEF Types1, Wake, Goto, InnerStep
<1>3. QED
  BY <1>1, <1>2

LEMMA MainInv ==
  ASSUME IInv, Notify \/ PushSentinel \/ NotifyQuit \/ Return \/ EndUpdate
  PROVE  IInv'
<1>1. UNCHANGED <<client, owner, functions, batch>>
  BY DEF Notify, PushSentinel, NotifyQuit, Return, EndUpdate, posts, history
<1>2. InnerStep
  <2>1. CASE Notify
    BY <2>1, WakeInner DEF IInv, Types1, Notify
  <2>2. CASE NotifyQuit
    BY <2>2, WakeInner DEF IInv, Types1, NotifyQuit
  <2>3. CASE PushSentinel \/ Return \/ EndUpdate
    BY <2>3 DEF PushSentinel, Return, EndUpdate, InnerStep
  <2>4. QED
    BY <2>1, <2>2, <2>3
<1>3. /\ main' \in Destroying <=> main \in Destroying
      /\ main' \in Restarting <=> main \in Restarting
  BY DEF Notify, PushSentinel, NotifyQuit, Return, EndUpdate, Destroying, Restarting
<1>4. batch # <<>> => main' \in {"run", "callback", "notify in callback"}
  BY DEF IInv, FunctionInv, Notify, PushSentinel, NotifyQuit, Return, EndUpdate
<1>5. FunctionInv'
  BY <1>1, <1>3, <1>4, FunctionsStay DEF client
<1>6. QED
  BY <1>1, <1>2, <1>3, <1>5, InnerInv DEF IInv, Types1

(* What is in the vector is run, or removed.                               *)
LEMMA RunInv ==
  ASSUME IInv, Update \/ RunFunction \/ RemoveFunctions
  PROVE  IInv'
<1>1. UNCHANGED <<client, owner, pc>>
  BY DEF Update, RunFunction, RemoveFunctions, history
<1>2. \A x : ClientOf(x)' = ClientOf(x)
  BY <1>1 DEF ClientOf
<1>3. /\ functions' \in Seq(Threads) /\ batch' \in Seq(Threads)
      /\ Range(functions') \cup Range(batch') \subseteq Range(functions) \cup Range(batch)
  <2>1. <<>> \in Seq(Threads) /\ Range(<<>>) = {}
    BY EmptySeq DEF Range
  <2>2. CASE Update
    BY <2>1, <2>2 DEF IInv, Types1, Update
  <2>3. CASE RunFunction
    BY <2>3, RangeTail DEF IInv, Types1, RunFunction
  <2>4. CASE RemoveFunctions
    BY <2>1, <2>4 DEF IInv, Types1, RemoveFunctions
  <2>5. QED
    BY <2>2, <2>3, <2>4
<1>4. /\ main' \in Destroying <=> main \in Destroying
      /\ main' \in Restarting => main \in Restarting
  BY DEF Update, RunFunction, RemoveFunctions, Destroying, Restarting
<1>5. FunctionInv'
  <2>1. CASE Update \/ RunFunction
    <3>1. main \notin Restarting /\ main' \in {"run", "callback"}
      BY <2>1 DEF Update, RunFunction, Restarting, Destroying
    <3>2. QED
      BY <1>1, <1>2, <1>3, <3>1 DEF IInv, FunctionInv, client
  <2>2. CASE RemoveFunctions
    <3>1. functions' = <<>> /\ batch' = <<>>
      BY <2>2 DEF IInv, FunctionInv, RemoveFunctions
    <3>2. Range(<<>>) = {}
      BY DEF Range
    <3>3. QED
      BY <3>1, <3>2 DEF FunctionInv
  <2>3. QED
    BY <2>1, <2>2
<1>6. QED
  BY <1>1, <1>3, <1>4, <1>5, InnerInv DEF InnerStep

------------------------------------------------------------------------------
(* A request that is sent changes no thread's client: the request's own    *)
(* thread was not there yet.                                               *)
LEMMA NewClient ==
  ASSUME IInv, NEW r \in Requests, New(r)
  PROVE  /\ instance \in Clients /\ memory[instance] = "alive"
         /\ main \notin Restarting
         /\ owner' \in [Requests -> Clients \cup {None}]
         /\ r \in Threads => pc[r] = "none" /\ ClientOf(r)' = instance
         /\ \A x \in Threads : pc[x] # "none" => ClientOf(x)' = ClientOf(x)
         /\ \A x \in Threads : ClientOf(x) \in Clients => ClientOf(x)' = ClientOf(x)
<1>1. instance \in Clients /\ owner[r] = None
  BY DEF IInv, Types1, New
<1>2. memory[instance] = "alive"
  BY <1>1 DEF IInv, OwnerInv
<1>3. main \notin Restarting
  BY DEF New, Restarting, Destroying
<1>4. owner' = [owner EXCEPT ![r] = instance] /\ owner \in [Requests -> Clients \cup {None}]
  BY DEF IInv, Types1, New
<1>5. \A x \in Threads : ClientOf(x) \in Clients => ClientOf(x)' = ClientOf(x)
  BY <1>1, <1>4, Disjoint DEF ClientOf, Threads, Requests
<1>6. \A x \in Threads : pc[x] # "none" => ClientOf(x) \in Clients
  BY DEF IInv, ThreadInv
<1>7. r \in Threads => pc[r] = "none" /\ ClientOf(r)' = instance
  <2>1. r \notin Clients
    BY Disjoint
  <2>2. ClientOf(r) = None /\ ClientOf(r)' = instance
    BY <1>1, <1>4, <2>1 DEF ClientOf
  <2>3. QED
    BY <1>6, <2>2, Disjoint
<1>8. QED
  BY <1>1, <1>2, <1>3, <1>4, <1>5, <1>6, <1>7

(* Whether its thread starts, or that of the client, or none.              *)
LEMMA StartInv ==
  ASSUME IInv, NEW r \in Requests, New(r), NEW x \in Threads,
         x = instance \/ x = r, pc[x] = "none",
         pc' = pc \/ Goto(x, "start"),
         isInited' \in [Clients -> BOOLEAN],
         \A h \in Clients : ~isInited'[h] => ~isInited[h] /\ (h # x \/ pc' = pc),
         UNCHANGED <<instance, thiz, memory, threadCount, hasScheduler, functions, batch>>,
         main' \notin Restarting,
         batch # <<>> => main' \in {"run", "callback", "notify in callback"}
  PROVE  IInv'
<1>1. pc' \in [Threads -> Labels]
  BY DEF IInv, Types1, Goto, Labels
<1>2. ClientOf(x)' = instance /\ instance \in Clients
  <2>1. CASE x = r
    BY <2>1, NewClient
  <2>2. CASE x = instance
    BY <2>2, NewClient DEF ClientOf
  <2>3. QED
    BY <2>1, <2>2
<1>3. \A y \in Threads : y # x => pc'[y] = pc[y]
  BY DEF IInv, Types1, Goto
<1>4. pc'[x] = "none" \/ pc'[x] = "start"
  BY DEF IInv, Types1, Goto
<1>5. \A h \in Clients : Inside(h)' = Inside(h)
  <2>1. \A y \in Threads : pc[y] # "none" => ClientOf(y)' = ClientOf(y)
    BY NewClient
  <2>2. QED
    BY <1>3, <1>4, <2>1 DEF Inside
<1>6. Types1'
  BY <1>1, NewClient DEF IInv, Types1
<1>7. OwnerInv'
  BY NewClient DEF IInv, OwnerInv, Restarting
<1>8. ThreadInv'
  <2>1. ASSUME NEW y \in Threads
        PROVE  /\ pc'[y] # "none" => ClientOf(y)' \in Clients /\ memory'[ClientOf(y)'] # "none"
               /\ pc'[y] = "start" => ClientOf(y)' = instance'
    <3>1. CASE y = x
      BY <1>2, <3>1, NewClient
    <3>2. CASE y # x
      BY <1>3, <3>2, NewClient DEF IInv, ThreadInv
    <3>3. QED
      BY <3>1, <3>2
  <2>2. \A h \in Clients : ~isInited'[h] => pc'[h] = "none"
    BY <1>3 DEF IInv, ThreadInv, Threads
  <2>3. QED
    BY <2>1, <2>2 DEF ThreadInv
<1>9. CountInv' /\ DeletedInv'
  BY <1>5 DEF IInv, CountInv, DeletedInv, Owned
<1>10. FunctionInv'
  <2>1. Range(functions) \cup Range(batch) \subseteq Threads
    BY RangeIn DEF IInv, Types1
  <2>2. QED
    BY <2>1, NewClient DEF IInv, FunctionInv
<1>11. QED
  BY <1>6, <1>7, <1>8, <1>9, <1>10 DEF IInv

LEMMA SendInv == ASSUME IInv, NEW r \in Queued, Send(r) PROVE IInv'
<1>1. New(r) /\ r \in Requests
  BY DEF Send, Requests
<1>2. instance \in Clients /\ instance \in Threads
  BY <1>1, NewClient DEF Threads
<1>3. /\ main' \notin Restarting
      /\ batch # <<>> => main' \in {"run", "callback", "notify in callback"}
  BY DEF IInv, FunctionInv, Send, New, Restarting, Destroying
<1>4. /\ isInited' = [isInited EXCEPT ![instance] = TRUE]
      /\ UNCHANGED <<instance, thiz, memory, threadCount, hasScheduler, functions, batch>>
  BY DEF Send, posts
<1>5. isInited' \in [Clients -> BOOLEAN]
  BY <1>4 DEF IInv, Types1
<1>6. \A h \in Clients : ~isInited'[h] => ~isInited[h] /\ h # instance
  BY <1>2, <1>4 DEF IInv, Types1
<1>7. CASE ~isInited[instance]
  <2>1. pc[instance] = "none" /\ Goto(instance, "start")
    BY <1>2, <1>7 DEF IInv, ThreadInv, Send
  <2>2. QED
    BY <1>1, <1>2, <1>3, <1>4, <1>5, <1>6, <2>1, StartInv
<1>8. CASE isInited[instance]
  <2>1. pc' = pc
    BY <1>8 DEF Send
  <2>2. \A h \in Clients : Inside(h)' = Inside(h)
    BY <1>1, <2>1, NewClient DEF Inside
  <2>3. Types1'
    BY <1>1, <1>4, <1>5, <2>1, NewClient DEF IInv, Types1
  <2>4. OwnerInv'
    BY <1>1, <1>3, <1>4, NewClient DEF IInv, OwnerInv, Restarting
  <2>5. ThreadInv'
    BY <1>1, <1>4, <1>6, <2>1, NewClient DEF IInv, ThreadInv
  <2>6. CountInv' /\ DeletedInv'
    BY <1>4, <2>2 DEF IInv, CountInv, DeletedInv, Owned
  <2>7. FunctionInv'
    <3>1. Range(functions) \cup Range(batch) \subseteq Threads
      BY RangeIn DEF IInv, Types1
    <3>2. QED
      BY <1>1, <1>3, <1>4, <3>1, NewClient DEF IInv, FunctionInv
  <2>8. QED
    BY <2>3, <2>4, <2>5, <2>6, <2>7 DEF IInv
<1>9. QED
  BY <1>7, <1>8

LEMMA SendImmediateInv == ASSUME IInv, NEW r \in Immediate, SendImmediate(r) PROVE IInv'
<1>1. New(r) /\ r \in Requests /\ r \in Threads /\ Goto(r, "start")
  BY DEF SendImmediate, Requests, Threads
<1>2. pc[r] = "none"
  BY <1>1, NewClient
<1>3. UNCHANGED <<instance, thiz, memory, threadCount, isInited, hasScheduler, functions,
                  batch, main>>
  BY DEF SendImmediate, client, posts
<1>4. r \notin Clients /\ isInited' \in [Clients -> BOOLEAN]
  BY <1>1, <1>3, Disjoint DEF IInv, Types1
<1>5. main' \notin Restarting
  BY <1>1, <1>3, NewClient
<1>6. batch # <<>> => main' \in {"run", "callback", "notify in callback"}
  BY <1>3 DEF IInv, FunctionInv
<1>7. \A h \in Clients : ~isInited'[h] => ~isInited[h] /\ (h # r \/ pc' = pc)
  BY <1>3, <1>4
<1>8. QED
  BY <1>1, <1>2, <1>3, <1>4, <1>5, <1>6, <1>7, StartInv

------------------------------------------------------------------------------
LEMMA GetInstanceInv == ASSUME IInv, GetInstance PROVE IInv'
<1>0. PICK c \in Clients : instance' = c /\ memory[c] = "none"
  BY DEF GetInstance
<1>1. /\ c \in Clients /\ memory[c] = "none" /\ instance = None /\ instance' = c
      /\ main \notin Restarting /\ main' = main
      /\ memory' = [memory EXCEPT ![c] = "alive"]
      /\ threadCount' = [threadCount EXCEPT ![c] = 1]
      /\ hasScheduler' = [hasScheduler EXCEPT ![c] = TRUE]
      /\ UNCHANGED <<thiz, isInited, functions, batch, pc, owner>>
  BY <1>0 DEF GetInstance, posts, history, Restarting, Destroying
<1>2. thiz = None
  BY <1>1 DEF IInv, OwnerInv, Restarting
<1>3. \A x : ClientOf(x)' = ClientOf(x)
  BY <1>1 DEF ClientOf
<1>4. \A h : Inside(h)' = Inside(h)
  BY <1>1, <1>3 DEF Inside
<1>5. Cardinality(Inside(c)) = 0
  <2>1. Inside(c) = {}
    BY <1>1 DEF IInv, ThreadInv, Inside
  <2>2. QED
    BY <2>1, FS_EmptySet
<1>6. Types1'
  BY <1>1 DEF IInv, Types1
<1>7. OwnerInv'
  BY <1>1, <1>2, Disjoint DEF IInv, Types1, OwnerInv
<1>8. ThreadInv'
  BY <1>1, <1>3, Disjoint DEF IInv, Types1, ThreadInv
<1>9. CountInv'
  <2>1. ASSUME NEW h \in Clients, h # c
        PROVE  threadCount'[h] = Cardinality(Inside(h)') + Owned(h)'
    BY <1>1, <1>2, <1>4, <2>1 DEF IInv, Types1, CountInv, Owned
  <2>2. threadCount'[c] = Cardinality(Inside(c)) + Owned(c)'
    <3>1. threadCount'[c] = 1
      BY <1>1 DEF IInv, Types1
    <3>2. Owned(c)' = 1
      BY <1>1 DEF Owned
    <3>3. QED
      BY <1>5, <3>1, <3>2
  <2>3. QED
    BY <1>4, <2>1, <2>2 DEF CountInv
<1>10. DeletedInv'
  BY <1>1 DEF IInv, Types1, DeletedInv
<1>11. FunctionInv'
  BY <1>1, <1>3, Disjoint DEF IInv, FunctionInv
<1>12. QED
  BY <1>6, <1>7, <1>8, <1>9, <1>10, <1>11 DEF IInv

LEMMA DestroyInstanceInv ==
  ASSUME IInv, CountedInTime, DestroyInstance
  PROVE  IInv'
<1>1. /\ instance \in Clients /\ thiz' = instance /\ instance' = None
      /\ main = "idle" /\ main' = "quit"
      /\ hasScheduler' = [hasScheduler EXCEPT ![instance] = FALSE]
      /\ UNCHANGED <<memory, threadCount, isInited, functions, batch, pc, owner>>
      /\ \A x \in Threads : pc[x] # "start"
  BY DEF IInv, Types1, DestroyInstance, posts, history, NoneStarting
<1>2. thiz = None /\ batch = <<>>
  BY <1>1 DEF IInv, OwnerInv, FunctionInv, Destroying
<1>3. \A x : ClientOf(x)' = ClientOf(x)
  BY <1>1 DEF ClientOf
<1>4. \A h : Inside(h)' = Inside(h)
  BY <1>1, <1>3 DEF Inside
<1>5. \A h \in Clients : Owned(h)' = Owned(h)
  BY <1>1, <1>2, Disjoint DEF Owned
<1>6. Types1'
  BY <1>1 DEF IInv, Types1
<1>7. OwnerInv'
  BY <1>1, Disjoint DEF IInv, Types1, OwnerInv, Destroying, Restarting
<1>8. ThreadInv'
  BY <1>1, <1>3 DEF IInv, ThreadInv
<1>9. CountInv' /\ DeletedInv'
  BY <1>1, <1>4, <1>5 DEF IInv, CountInv, DeletedInv
<1>10. FunctionInv'
  BY <1>1, <1>2, <1>3 DEF IInv, FunctionInv, Restarting, Destroying
<1>11. QED
  BY <1>6, <1>7, <1>8, <1>9, <1>10 DEF IInv

(* Letting go of a client: the count goes down with what it counts.        *)
LEMMA LastDeletes ==
  ASSUME IInv, NEW c \in Clients, DecreaseThreadCountAndMayDeleteThis(c),
         memory[c] # "none",
         \A h \in Clients :
           Cardinality(Inside(h)) + Owned(h) =
             Cardinality(Inside(h)') + Owned(h)' + IF h = c THEN 1 ELSE 0,
         \A h \in Clients : Cardinality(Inside(h)') \in Nat /\ Owned(h)' \in {0, 1}
  PROVE  /\ memory' \in [Clients -> {"none", "alive", "deleted"}]
         /\ threadCount' \in [Clients -> Int]
         /\ \A h \in Clients : memory'[h] = "none" => memory[h] = "none"
         /\ \A h \in Clients : Owned(h)' = 1 => memory'[h] = memory[h]
         /\ CountInv' /\ DeletedInv'
<1>1. /\ threadCount' = [threadCount EXCEPT ![c] = @ - 1]
      /\ memory' = IF threadCount[c] = 1 THEN [memory EXCEPT ![c] = "deleted"] ELSE memory
      /\ threadCount \in [Clients -> Int]
      /\ memory \in [Clients -> {"none", "alive", "deleted"}]
  BY DEF IInv, Types1, DecreaseThreadCountAndMayDeleteThis
<1>2. \A h \in Clients : threadCount[h] =
         Cardinality(Inside(h)') + Owned(h)' + IF h = c THEN 1 ELSE 0
  BY DEF IInv, CountInv
<1>3. \A h \in Clients : threadCount'[h] = Cardinality(Inside(h)') + Owned(h)'
  BY <1>1, <1>2
<1>4. threadCount[c] = threadCount'[c] + 1 /\ threadCount'[c] \in Nat
  BY <1>1, <1>3
<1>5. memory[c] # "deleted"
  BY <1>4 DEF IInv, DeletedInv
<1>6. Owned(c)' = 1 => threadCount[c] # 1
  BY <1>3, <1>4
<1>7. DeletedInv'
  BY <1>1, <1>4, <1>5 DEF IInv, DeletedInv
<1>8. QED
  BY <1>1, <1>3, <1>6, <1>7 DEF CountInv

LEMMA DecreaseOwnerInv == ASSUME IInv, DecreaseOwner PROVE IInv'
<1>1. /\ main = "decrease" /\ main' = "remove functions" /\ thiz' = None
      /\ DecreaseThreadCountAndMayDeleteThis(thiz)
      /\ UNCHANGED <<instance, isInited, hasScheduler, functions, batch, pc, owner>>
  BY DEF DecreaseOwner, posts, history
<1>2. thiz \in Clients /\ memory[thiz] = "alive" /\ instance = None
  BY <1>1 DEF IInv, Types1, OwnerInv, Destroying, Restarting
<1>3. \A x : ClientOf(x)' = ClientOf(x)
  BY <1>1 DEF ClientOf
<1>4. \A h : Inside(h)' = Inside(h)
  BY <1>1, <1>3 DEF Inside
<1>5. \A h \in Clients : Owned(h) = (IF h = thiz THEN 1 ELSE 0) /\ Owned(h)' = 0
  BY <1>1, <1>2, Disjoint DEF Owned
<1>6. \A h \in Clients :
         Cardinality(Inside(h)) + Owned(h) =
           Cardinality(Inside(h)') + Owned(h)' + IF h = thiz THEN 1 ELSE 0
  BY <1>4, <1>5, InsideFinite
<1>7. \A h \in Clients : Cardinality(Inside(h)') \in Nat /\ Owned(h)' \in {0, 1}
  BY <1>4, <1>5, InsideFinite
<1>8. /\ memory' \in [Clients -> {"none", "alive", "deleted"}]
      /\ threadCount' \in [Clients -> Int]
      /\ \A h \in Clients : memory'[h] = "none" => memory[h] = "none"
      /\ CountInv' /\ DeletedInv'
  BY <1>1, <1>2, <1>6, <1>7, LastDeletes
<1>9. Types1'
  BY <1>1, <1>8 DEF IInv, Types1
<1>10. OwnerInv'
  BY <1>1, <1>2, Disjoint DEF IInv, OwnerInv, Destroying, Restarting
<1>11. ThreadInv'
  BY <1>1, <1>3, <1>8 DEF IInv, ThreadInv
<1>12. FunctionInv'
  BY <1>1, <1>3 DEF IInv, FunctionInv, Restarting, Destroying
<1>13. QED
  BY <1>8, <1>9, <1>10, <1>11, <1>12 DEF IInv

LEMMA LeaveInv == ASSUME IInv, NEW x \in Threads, Leave(x) PROVE IInv'
<1>0. PICK c \in Clients : c = ClientOf(x)
  BY DEF IInv, ThreadInv, Leave, IncreaseThreadCount
<1>1. /\ pc[x] = "leave" /\ Goto(x, "done")
      /\ DecreaseThreadCountAndMayDeleteThis(c)
      /\ UNCHANGED <<instance, thiz, isInited, hasScheduler, functions, batch, main, owner>>
  BY <1>0 DEF Leave, posts, history
<1>2. c \in Clients /\ memory[c] # "none"
  BY <1>0, <1>1 DEF IInv, ThreadInv
<1>3. \A y : ClientOf(y)' = ClientOf(y)
  BY <1>1 DEF ClientOf
<1>4. /\ pc' \in [Threads -> Labels] /\ pc'[x] = "done"
      /\ \A y \in Threads : y # x => pc'[y] = pc[y]
  BY <1>1 DEF IInv, Types1, Goto, Labels
<1>5. \A h \in Clients : h # c => Inside(h)' = Inside(h)
  BY <1>0, <1>3, <1>4 DEF Inside
<1>6. Inside(c) = (Inside(c)') \cup {x} /\ x \notin Inside(c)'
  BY <1>0, <1>1, <1>3, <1>4 DEF Inside
<1>7. \A h \in Clients : Owned(h)' = Owned(h) /\ Owned(h) \in {0, 1}
  BY <1>1 DEF Owned
<1>8. IsFiniteSet(Inside(c)') /\ \A h \in Clients : Cardinality(Inside(h)') \in Nat
  <2>1. IsFiniteSet(Inside(c)')
    BY <1>6, InsideFinite, FS_Subset
  <2>2. Cardinality(Inside(c)') \in Nat
    BY <2>1, FS_CardinalityType
  <2>3. QED
    BY <1>5, <2>1, <2>2, InsideFinite
<1>9. Cardinality(Inside(c)) = Cardinality(Inside(c)') + 1
  BY <1>6, <1>8, FS_AddElement
<1>10. \A h \in Clients :
         Cardinality(Inside(h)) + Owned(h) =
           Cardinality(Inside(h)') + Owned(h)' + IF h = c THEN 1 ELSE 0
  BY <1>5, <1>7, <1>8, <1>9
<1>11. /\ memory' \in [Clients -> {"none", "alive", "deleted"}]
       /\ threadCount' \in [Clients -> Int]
       /\ \A h \in Clients : memory'[h] = "none" => memory[h] = "none"
       /\ \A h \in Clients : Owned(h)' = 1 => memory'[h] = memory[h]
       /\ CountInv' /\ DeletedInv'
  BY <1>1, <1>2, <1>7, <1>8, <1>10, LastDeletes
<1>12. Types1'
  BY <1>1, <1>4, <1>11 DEF IInv, Types1
<1>13. OwnerInv'
  BY <1>1, <1>11 DEF IInv, OwnerInv, Owned
<1>14. ThreadInv'
  <2>1. \A y \in Threads : pc'[y] # "none" => pc[y] # "none"
    BY <1>1, <1>4
  <2>2. \A y \in Threads : pc'[y] = "start" => pc[y] = "start"
    BY <1>4
  <2>3. \A h \in Clients : pc[h] = "none" => pc'[h] = "none"
    BY <1>1, <1>4 DEF Threads
  <2>4. QED
    BY <1>1, <1>3, <1>11, <2>1, <2>2, <2>3 DEF IInv, ThreadInv
<1>15. FunctionInv'
  BY <1>1, FunctionsStay DEF IInv, FunctionInv
<1>16. QED
  BY <1>11, <1>12, <1>13, <1>14, <1>15 DEF IInv

LEMMA IncreaseInv == ASSUME IInv, NEW x \in Threads, IncreaseThreadCount(x) PROVE IInv'
<1>0. PICK c \in Clients : c = ClientOf(x)
  BY DEF IInv, ThreadInv, Leave, IncreaseThreadCount
<1>1. /\ pc[x] = "start" /\ threadCount' = [threadCount EXCEPT ![c] = @ + 1]
      /\ Goto(x, "take") \/ Goto(x, "process")
      /\ UNCHANGED <<instance, thiz, memory, isInited, hasScheduler, functions, batch,
                     main, owner>>
  BY <1>0 DEF IncreaseThreadCount, posts, history
<1>2. c \in Clients /\ c = instance /\ memory[c] = "alive"
  BY <1>0, <1>1 DEF IInv, ThreadInv, OwnerInv
<1>3. \A y : ClientOf(y)' = ClientOf(y)
  BY <1>1 DEF ClientOf
<1>4. /\ pc' \in [Threads -> Labels] /\ pc'[x] \notin Outside
      /\ \A y \in Threads : y # x => pc'[y] = pc[y]
  BY <1>1 DEF IInv, Types1, Goto, Labels, Outside
<1>5. \A h \in Clients : h # c => Inside(h)' = Inside(h)
  BY <1>0, <1>3, <1>4 DEF Inside
<1>6. Inside(c)' = Inside(c) \cup {x} /\ x \notin Inside(c)
  BY <1>0, <1>1, <1>3, <1>4 DEF Inside, Outside
<1>7. \A h \in Clients : Owned(h)' = Owned(h) /\ Owned(h) \in {0, 1}
  BY <1>1 DEF Owned
<1>8. Cardinality(Inside(c)') = Cardinality(Inside(c)) + 1
  BY <1>6, InsideFinite, FS_AddElement
<1>9. CountInv'
  <2>1. ASSUME NEW h \in Clients
        PROVE  threadCount'[h] = Cardinality(Inside(h)') + Owned(h)'
    <3>1. threadCount[h] = Cardinality(Inside(h)) + Owned(h)
      BY DEF IInv, CountInv
    <3>2. threadCount'[h] = threadCount[h] + IF h = c THEN 1 ELSE 0
      BY <1>1, <1>2 DEF IInv, Types1
    <3>3. Cardinality(Inside(h)) \in Nat
      BY InsideFinite
    <3>4. QED
      BY <1>5, <1>7, <1>8, <3>1, <3>2, <3>3
  <2>2. QED
    BY <2>1 DEF CountInv
<1>10. DeletedInv'
  <2>1. threadCount'[c] # 0
    <3>1. threadCount[c] \in Nat
      BY <1>2, <1>7, InsideFinite DEF IInv, CountInv
    <3>2. QED
      BY <1>1, <1>2, <3>1 DEF IInv, Types1
  <2>2. QED
    BY <1>1, <1>2, <2>1 DEF IInv, Types1, DeletedInv
<1>11. Types1'
  BY <1>1, <1>2, <1>4 DEF IInv, Types1
<1>12. OwnerInv'
  BY <1>1 DEF IInv, OwnerInv
<1>13. ThreadInv'
  <2>1. \A y \in Threads : pc'[y] # "none" => pc[y] # "none"
    BY <1>1, <1>4
  <2>2. \A y \in Threads : pc'[y] = "start" => pc[y] = "start"
    BY <1>1, <1>4
  <2>3. \A h \in Clients : pc[h] = "none" => pc'[h] = "none"
    BY <1>1, <1>4 DEF Threads
  <2>4. QED
    BY <1>1, <1>3, <2>1, <2>2, <2>3 DEF IInv, ThreadInv
<1>14. FunctionInv'
  BY <1>1, FunctionsStay DEF IInv, FunctionInv
<1>15. QED
  BY <1>9, <1>10, <1>11, <1>12, <1>13, <1>14 DEF IInv

------------------------------------------------------------------------------
LEMMA InitInv == Init => IInv
<1> SUFFICES ASSUME Init PROVE IInv
  OBVIOUS
<1>1. Types1
  BY EmptySeq DEF Init, Types1, Labels
<1>2. OwnerInv
  BY Disjoint DEF Init, OwnerInv, Destroying, Restarting
<1>3. ThreadInv
  BY DEF Init, ThreadInv, Threads
<1>4. CountInv
  <2>1. ASSUME NEW h \in Clients PROVE Inside(h) = {} /\ Owned(h) = 0
    BY Disjoint DEF Init, Inside, Owned
  <2>2. Cardinality({}) = 0
    BY FS_EmptySet
  <2>3. \A h \in Clients : threadCount[h] = 0
    BY DEF Init
  <2>4. QED
    BY <2>1, <2>2, <2>3 DEF CountInv
<1>5. DeletedInv
  BY DEF Init, DeletedInv
<1>6. FunctionInv
  <2>1. Range(<<>>) = {}
    BY DEF Range
  <2>2. QED
    BY <2>1 DEF Init, FunctionInv
<1>7. QED
  BY <1>1, <1>2, <1>3, <1>4, <1>5, <1>6 DEF IInv

LEMMA NextInv == CountedInTime /\ IInv /\ [Next]_vars => IInv'
<1> SUFFICES ASSUME CountedInTime, IInv, [Next]_vars PROVE IInv'
  OBVIOUS
<1>1. CASE GetInstance \/ DestroyInstance
  BY <1>1, GetInstanceInv, DestroyInstanceInv
<1>2. ASSUME NEW r \in Queued, Send(r) PROVE IInv'
  BY <1>2, SendInv
<1>3. ASSUME NEW r \in Immediate, SendImmediate(r) PROVE IInv'
  BY <1>3, SendImmediateInv
<1>4. CASE MainThread
  BY <1>4, MainInv, RunInv, DecreaseOwnerInv DEF MainThread, Restart
<1>5. ASSUME NEW h \in Clients, NetworkThread(h) \/ SpuriousWakeup(h) PROVE IInv'
  BY <1>5, WorkerInv DEF Threads
<1>6. ASSUME NEW x \in Threads, NetworkThreadAlone(x) PROVE IInv'
  BY <1>6, WorkerInv, IncreaseInv, LeaveInv DEF NetworkThreadAlone
<1>7. CASE UNCHANGED vars
  <2>1. UNCHANGED <<client, owner, pc, functions, batch, main, instance>>
    BY <1>7 DEF vars, client, posts, history
  <2>2. FunctionInv'
    BY <2>1, FunctionsStay DEF IInv, FunctionInv
  <2>3. QED
    BY <2>1, <2>2, InnerInv DEF InnerStep, IInv, Types1
<1>8. QED
  BY <1>1, <1>2, <1>3, <1>4, <1>5, <1>6, <1>7 DEF Next

------------------------------------------------------------------------------
(* IInv, which holds both properties below and what they need of one       *)
(* another, is true in every reachable state.                              *)
THEOREM Invariance == ASSUME CountedInTime PROVE Spec => []IInv
<1>1. Init => IInv
  BY InitInv
<1>2. IInv /\ [Next]_vars => IInv'
  BY NextInv
<1>3. QED
  BY <1>1, <1>2, PTL DEF Spec

(* However many clients the engine destroys and makes while threads of the *)
(* earlier ones are working: the count of each is that of its threads and  *)
(* its owner, and whoever is last deletes it, once                         *)
(* (decreaseThreadCountAndMayDeleteThis).                                  *)
THEOREM LastOneDeletes == ASSUME CountedInTime PROVE Spec => []DeletedByTheLast
<1>1. IInv => DeletedByTheLast
  BY DEF IInv, CountInv, DeletedInv, Owned, DeletedByTheLast
<1>2. QED
  BY <1>1, Invariance, PTL

(* After a restart no function is left that would run with a client that   *)
(* was destroyed: the threads that are late find no scheduler to post to   *)
(* (destroyInstance clears it first), and what they had posted is removed. *)
THEOREM NoFunctionLeft == ASSUME CountedInTime PROVE Spec => []FunctionsHaveClient
<1>1. IInv => FunctionsHaveClient
  BY DEF IInv, FunctionInv, FunctionsHaveClient, Restarting, Destroying
<1>2. QED
  BY <1>1, Invariance, PTL

------------------------------------------------------------------------------
(* Where the requests are.                                                 *)

DistinctIn(s, T) == \A i, j \in DOMAIN s : s[i] = s[j] /\ s[i] \in T => i = j

Types2 ==
  /\ requestQueue \in [Clients -> Seq(Queued \cup {Sentinel})]
  /\ responseQueue \in [Clients -> Seq(Queued)]
  /\ request \in [Clients -> Queued \cup {None}]
  /\ answering \in Requests \cup {None}
  /\ refs \in [Requests -> Int] /\ responseRefs \in [Requests -> Int]
  /\ held \subseteq Requests
  /\ sent \in [Clients -> Seq(Queued)] /\ answered \in [Threads -> Seq(Requests)]

(* A request is in one place of its client: in the queue, with the network *)
(* thread, with the responses or answered.                                 *)
InPlace(h) ==
  /\ DistinctIn(requestQueue[h], Queued) /\ DistinctIn(responseQueue[h], Queued)
  /\ \A r \in Queued :
       /\ r \in Range(requestQueue[h]) =>
            /\ owner[r] = h /\ r # request[h]
            /\ r \notin Range(responseQueue[h]) /\ r \notin Range(answered[h])
       /\ r = request[h] =>
            /\ owner[r] = h
            /\ r \notin Range(responseQueue[h]) /\ r \notin Range(answered[h])
       /\ r \in Range(responseQueue[h]) => owner[r] = h /\ r \notin Range(answered[h])
       /\ r \in Range(answered[h]) => owner[r] = h

PlaceInv == \A h \in Clients : InPlace(h)

WorkInv ==
  \A h \in Clients :
    /\ request[h] # None <=> pc[h] \in {"process", "respond"}
    /\ memory[h] = "none" => /\ requestQueue[h] = <<>> /\ responseQueue[h] = <<>>
                             /\ sent[h] = <<>> /\ answered[h] = <<>>

(* The network thread of the instance does not come to its end.            *)
Ending == {"clear requests", "clear responses", "leave", "done"}

EndingInv == \A h \in Clients : pc[h] \in Ending => h # instance

(* The function of a request of sendImmediate is posted and run once.      *)
AloneInv ==
  /\ DistinctIn(functions, Immediate) /\ DistinctIn(batch, Immediate)
  /\ \A x \in Immediate :
       /\ pc[x] = "none" <=> owner[x] = None
       /\ x \in Range(functions) \cup Range(batch) \cup Range(answered[x]) =>
            pc[x] \in {"leave", "done"}
       /\ x \in Range(functions) => x \notin Range(batch)
       /\ x \in Range(answered[x]) => x \notin Range(functions) \cup Range(batch)

AnsweredInv ==
  /\ \A h \in Clients : answered[h] \in Seq(Queued)
  /\ \A x \in Immediate : Range(answered[x]) \subseteq {x}
  /\ answering # None => main \in {"callback", "notify in callback"} /\ Answered(answering)

HeldInv ==
  \A r \in Requests : (Pending(r) => r \in held) /\ (r \in held => owner[r] # None)

JInv ==
  /\ Types2
  /\ PlaceInv
  /\ WorkInv
  /\ EndingInv
  /\ AloneInv
  /\ AnsweredInv
  /\ HeldInv
  /\ InOrderOnce
  /\ RefsExact

------------------------------------------------------------------------------
(* What a sequence holds when an element is appended or taken.             *)
LEMMA Appended ==
  ASSUME NEW S, NEW T, NEW s \in Seq(S), NEW x \in S
  PROVE  /\ Range(Append(s, x)) = Range(s) \cup {x}
         /\ DistinctIn(s, T) /\ (x \in T => x \notin Range(s)) =>
              DistinctIn(Append(s, x), T)
<1> DEFINE n == Len(s)
           t == Append(s, x)
<1>1. /\ DOMAIN s = 1..n /\ n \in Nat /\ DOMAIN t = 1..(n + 1)
      /\ \A i \in 1..n : t[i] = s[i]
      /\ t[n + 1] = x
  BY AppendProperties, LenProperties
<1> HIDE DEF n, t
<1>2. \A i : i \in 1..(n + 1) <=> i \in 1..n \/ i = n + 1
  BY <1>1
<1>3. Range(t) = Range(s) \cup {x}
  BY <1>1, <1>2 DEF Range
<1>4. DistinctIn(s, T) /\ (x \in T => x \notin Range(s)) => DistinctIn(t, T)
  BY <1>1, <1>2 DEF DistinctIn, Range
<1>5. QED
  BY <1>3, <1>4 DEF t

LEMMA Taken ==
  ASSUME NEW S, NEW T, NEW s \in Seq(S), s # <<>>
  PROVE  /\ Head(s) \in S /\ Tail(s) \in Seq(S)
         /\ Range(s) = Range(Tail(s)) \cup {Head(s)}
         /\ DistinctIn(s, T) => /\ DistinctIn(Tail(s), T)
                                /\ Head(s) \in T => Head(s) \notin Range(Tail(s))
<1> DEFINE n == Len(s)
           t == Tail(s)
<1>1. n \in Nat \ {0} /\ DOMAIN s = 1..n
  BY EmptySeq, LenProperties
<1>2. /\ t \in Seq(S) /\ Head(s) \in S /\ Head(s) = s[1]
      /\ DOMAIN t = 1..(n - 1)
      /\ \A i \in 1..(n - 1) : t[i] = s[i + 1]
  BY HeadTailProperties, LenProperties
<1> HIDE DEF n, t
<1>3. /\ \A i \in 1..(n - 1) : i + 1 \in 1..n /\ i + 1 # 1
      /\ \A i \in 1..n : i = 1 \/ (i - 1 \in 1..(n - 1) /\ (i - 1) + 1 = i)
      /\ 1 \in 1..n
      /\ \A i, j \in 1..(n - 1) : i + 1 = j + 1 => i = j
  BY <1>1
<1>4. Range(s) \subseteq Range(t) \cup {s[1]}
  <2>1. \A i \in 1..(n - 1) : t[i] \in Range(t)
    BY <1>2 DEF Range
  <2>2. ASSUME NEW i \in 1..n PROVE s[i] \in Range(t) \cup {s[1]}
    <3>1. CASE i = 1
      BY <3>1
    <3>2. CASE i # 1
      <4>1. i - 1 \in 1..(n - 1) /\ s[i] = t[i - 1]
        BY <1>1, <1>2, <3>2
      <4>2. QED
        BY <2>1, <4>1
    <3>3. QED
      BY <3>1, <3>2
  <2>3. Range(s) = {s[i] : i \in 1..n}
    BY <1>1 DEF Range
  <2>4. QED
    BY <2>2, <2>3
<1>5. Range(t) \cup {s[1]} \subseteq Range(s)
  <2>1. \A i \in 1..n : s[i] \in Range(s)
    BY <1>1 DEF Range
  <2>2. \A i \in 1..(n - 1) : t[i] \in Range(s)
    BY <1>2, <1>3, <2>1
  <2>3. Range(t) = {t[i] : i \in 1..(n - 1)}
    BY <1>2 DEF Range
  <2>4. QED
    BY <1>3, <2>1, <2>2, <2>3
<1>6. ASSUME DistinctIn(s, T)
      PROVE  DistinctIn(t, T) /\ (s[1] \in T => s[1] \notin Range(t))
  <2>1. \A i, j \in 1..n : s[i] = s[j] /\ s[i] \in T => i = j
    BY <1>1, <1>6 DEF DistinctIn
  <2>2. \A i, j \in 1..(n - 1) : t[i] = t[j] /\ t[i] \in T => i = j
    BY <1>2, <1>3, <2>1
  <2>3. \A i \in 1..(n - 1) : s[1] \in T => t[i] # s[1]
    BY <1>2, <1>3, <2>1
  <2>4. QED
    BY <1>2, <2>2, <2>3 DEF DistinctIn, Range
<1>7. QED
  BY <1>2, <1>4, <1>5, <1>6 DEF t

LEMMA Nothing ==
  ASSUME NEW T
  PROVE  Range(<<>>) = {} /\ DistinctIn(<<>>, T)
BY DEF Range, DistinctIn

(* The first of one sequence moved to the end of another.                  *)
LEMMA Moved ==
  ASSUME NEW S, NEW s \in Seq(S), NEW t \in Seq(S), t # <<>>
  PROVE  Append(s, Head(t)) \o Tail(t) = s \o t
<1>1. Head(t) \in S /\ Tail(t) \in Seq(S)
  BY HeadTailProperties
<1>2. Append(s, Head(t)) = s \o <<Head(t)>> /\ <<Head(t)>> \in Seq(S)
  BY <1>1, AppendIsConcat
<1>3. <<Head(t)>> \o Tail(t) = t
  <2> DEFINE h == <<Head(t)>>
             u == Tail(t)
             n == Len(t)
  <2>1. /\ h \o u \in Seq(S) /\ Len(h \o u) = 1 + Len(u)
        /\ \A i \in 1 .. 1 + Len(u) : (h \o u)[i] = IF i <= 1 THEN h[i] ELSE u[i - 1]
    BY <1>1, <1>2, ConcatProperties
  <2>2. /\ n \in Nat \ {0} /\ Len(u) = n - 1
        /\ \A i \in 1..(n - 1) : u[i] = t[i + 1]
        /\ h[1] = t[1]
    BY EmptySeq, HeadTailProperties
  <2> HIDE DEF h, u, n
  <2>3. Len(h \o u) = n /\ \A i \in 1..n : (h \o u)[i] = t[i]
    BY <2>1, <2>2
  <2>4. QED
    BY <2>1, <2>3, SeqEqual DEF h, u, n
<1>4. (s \o <<Head(t)>>) \o Tail(t) = s \o (<<Head(t)>> \o Tail(t))
  BY <1>1, <1>2, ConcatAssociative
<1>5. QED
  BY <1>2, <1>3, <1>4

LEMMA Longer ==
  ASSUME NEW S, NEW s \in Seq(S), NEW t \in Seq(S), NEW e \in S
  PROVE  s \o Append(t, e) = Append(s \o t, e)
<1>1. /\ s \o t \in Seq(S) /\ <<e>> \in Seq(S)
      /\ Append(s \o t, e) = (s \o t) \o <<e>> /\ Append(t, e) = t \o <<e>>
  BY ConcatProperties, AppendIsConcat
<1>2. QED
  BY <1>1, ConcatAssociative

------------------------------------------------------------------------------
LEMMA SentinelApart == Sentinel \notin Requests /\ Sentinel \notin Queued /\ None \notin Queued
BY HttpClientAssumption, Disjoint DEF Requests

LEMMA RangeQueued ==
  ASSUME Types2
  PROVE  \A h \in Clients : /\ Range(requestQueue[h]) \subseteq Queued \cup {Sentinel}
                            /\ Range(responseQueue[h]) \subseteq Queued
<1>1. ASSUME NEW S, NEW s \in Seq(S) PROVE Range(s) \subseteq S
  BY RangeOfSeq
<1>2. QED
  BY <1>1 DEF Types2

(* The places to look for a request in: those of its client.               *)
WhereInv ==
  \A r \in Requests :
    /\ r \in Immediate => ~Waiting(r) /\ ~InResponses(r)
    /\ r \in Queued /\ owner[r] \notin Clients =>
         ~Waiting(r) /\ ~InResponses(r) /\ (HasResponse(r) <=> answering = r)
    /\ \A h \in Clients : r \in Queued /\ owner[r] = h =>
         /\ Waiting(r) <=> r \in Range(requestQueue[h])
         /\ InResponses(r) <=> r \in Range(responseQueue[h])
         /\ HasResponse(r) <=> \/ answering = r
                               \/ r \in Range(responseQueue[h])
                               \/ request[h] = r /\ pc[h] = "respond"
    /\ r \in Immediate => (HasResponse(r) <=> Pending(r))

LEMMA Where == Types2 /\ PlaceInv => WhereInv
<1> SUFFICES ASSUME Types2, PlaceInv PROVE WhereInv
  OBVIOUS
<1>1. Queued \cap Immediate = {} /\ Requests = Queued \cup Immediate
  BY HttpClientAssumption DEF Requests
<1>2. ASSUME NEW r \in Immediate PROVE ~Waiting(r) /\ ~InResponses(r) /\ (HasResponse(r) <=> Pending(r))
  BY <1>1, RangeQueued, SentinelApart DEF Waiting, InResponses, HasResponse
<1>3. ASSUME NEW r \in Queued, NEW h \in Clients, owner[r] = h
      PROVE  /\ Waiting(r) <=> r \in Range(requestQueue[h])
             /\ InResponses(r) <=> r \in Range(responseQueue[h])
             /\ HasResponse(r) <=> \/ answering = r
                                   \/ r \in Range(responseQueue[h])
                                   \/ request[h] = r /\ pc[h] = "respond"
  BY <1>1, <1>3 DEF Waiting, InResponses, HasResponse, PlaceInv, InPlace
<1>4. ASSUME NEW r \in Queued, owner[r] \notin Clients
      PROVE  ~Waiting(r) /\ ~InResponses(r) /\ (HasResponse(r) <=> answering = r)
  BY <1>1, <1>4 DEF Waiting, InResponses, HasResponse, PlaceInv, InPlace
<1>5. QED
  BY <1>1, <1>2, <1>3, <1>4 DEF WhereInv

LEMMA WhereNext == (Types2 /\ PlaceInv)' => WhereInv'
BY Where, PTL

(* A client's functions answer its requests.                               *)
AnsweredBy ==
  \A r \in Requests :
    /\ r \in Immediate => (Answered(r) <=> r \in Range(answered[r]))
    /\ r \in Queued /\ owner[r] \notin Clients => ~Answered(r)
    /\ \A h \in Clients :
         r \in Queued /\ owner[r] = h => (Answered(r) <=> r \in Range(answered[h]))

LEMMA ByWhom == Types2 /\ PlaceInv /\ AnsweredInv => AnsweredBy
<1> SUFFICES ASSUME Types2, PlaceInv, AnsweredInv PROVE AnsweredBy
  OBVIOUS
<1>1. /\ Queued \cap Immediate = {} /\ Threads = Clients \cup Immediate
      /\ Clients \cap Immediate = {}
  BY HttpClientAssumption DEF Threads
<1>2. \A h \in Clients : Range(answered[h]) \subseteq Queued
  BY RangeOfSeq DEF AnsweredInv
<1>3. ASSUME NEW r \in Immediate PROVE Answered(r) <=> r \in Range(answered[r])
  BY <1>1, <1>2 DEF Answered, AnsweredInv
<1>4. ASSUME NEW r \in Queued, NEW x \in Threads, r \in Range(answered[x])
      PROVE  x \in Clients /\ owner[r] = x
  BY <1>1, <1>4 DEF AnsweredInv, PlaceInv, InPlace
<1>5. QED
  BY <1>1, <1>3, <1>4 DEF AnsweredBy, Answered

(* A request that was not sent is nowhere.                                 *)
LEMMA NotSent ==
  ASSUME IInv, JInv, NEW r \in Requests, owner[r] = None
  PROVE  /\ ~Answered(r) /\ answering # r
         /\ ~Waiting(r) /\ ~HasResponse(r) /\ ~InResponses(r) /\ r \notin held
         /\ responseRefs[r] = 0
         /\ r \in Immediate => pc[r] = "none"
         /\ \A h \in Clients :
              /\ r \notin Range(requestQueue[h]) /\ r \notin Range(responseQueue[h])
              /\ r # request[h] /\ r \notin Range(answered[h])
<1>1. AnsweredBy /\ WhereInv
  BY ByWhom, Where DEF JInv
<1>2. r \in Immediate => pc[r] = "none" /\ r \notin Range(answered[r])
  BY DEF JInv, AloneInv
<1>3. ~Answered(r)
  BY <1>1, <1>2, Disjoint DEF AnsweredBy, Requests
<1>4. answering # r
  BY <1>3, Disjoint DEF JInv, AnsweredInv
<1>5. ~Waiting(r) /\ ~HasResponse(r) /\ ~InResponses(r) /\ responseRefs[r] = 0
  <2>1. ~Waiting(r) /\ ~HasResponse(r) /\ ~InResponses(r)
    BY <1>1, <1>4, Disjoint DEF WhereInv, Pending, Requests
  <2>2. ~Left(r)
    BY DEF Left, Pending
  <2>3. QED
    BY <2>1, <2>2 DEF JInv, RefsExact, ResponseCount
<1>6. r \notin held
  BY DEF JInv, HeldInv
<1>7. Queued \cap Immediate = {} /\ Requests = Queued \cup Immediate
  BY HttpClientAssumption DEF Requests
<1>8. \A h \in Clients : r \notin Range(requestQueue[h]) /\ r \notin Range(responseQueue[h])
                          /\ r \notin Range(answered[h]) /\ r # request[h]
  <2>1. CASE r \in Queued
    BY <2>1, Disjoint DEF JInv, PlaceInv, InPlace
  <2>2. CASE r \in Immediate
    <3>1. \A h \in Clients : Range(answered[h]) \subseteq Queued
      BY RangeOfSeq DEF JInv, AnsweredInv
    <3>2. r \notin Queued /\ r # None /\ r # Sentinel
      BY <1>7, <2>2, Disjoint, SentinelApart
    <3>3. QED
      BY <3>1, <3>2, RangeQueued DEF JInv, Types2
  <2>3. QED
    BY <1>7, <2>1, <2>2
<1>9. QED
  BY <1>2, <1>3, <1>4, <1>5, <1>6, <1>8

(* What the requests of a client are before they are in the queue.         *)
Before(h) ==
  answered[h] \o responseQueue[h] \o (IF request[h] = None THEN <<>> ELSE <<request[h]>>)

LEMMA BeforeSeq ==
  ASSUME JInv, NEW h \in Clients
  PROVE  /\ answered[h] \in Seq(Queued) /\ responseQueue[h] \in Seq(Queued)
         /\ answered[h] \o responseQueue[h] \in Seq(Queued)
         /\ Before(h) \in Seq(Queued)
         /\ h = instance => sent[h] = Before(h) \o requestQueue[h]
<1>1. answered[h] \in Seq(Queued) /\ responseQueue[h] \in Seq(Queued)
  BY DEF JInv, Types2, AnsweredInv
<1>2. answered[h] \o responseQueue[h] \in Seq(Queued)
  BY <1>1, ConcatProperties
<1>3. (IF request[h] = None THEN <<>> ELSE <<request[h]>>) \in Seq(Queued)
  BY DEF JInv, Types2
<1>4. Before(h) \in Seq(Queued)
  BY <1>2, <1>3, ConcatProperties DEF Before
<1>5. h = instance => sent[h] = Before(h) \o requestQueue[h]
  BY Disjoint DEF JInv, InOrderOnce, Before
<1>6. QED
  BY <1>1, <1>2, <1>4, <1>5

(* The counts of a request whose holders stay.                             *)
LEMMA CountsStay ==
  ASSUME JInv, NEW r \in Requests,
         refs'[r] = refs[r], responseRefs'[r] = responseRefs[r], r \in held' <=> r \in held,
         Pending(r)' <=> Pending(r), Waiting(r)' <=> Waiting(r),
         HasResponse(r)' <=> HasResponse(r), InResponses(r)' <=> InResponses(r),
         Left(r) => Left(r)'
  PROVE  RequestCount(r)' /\ ResponseCount(r)'
<1>1. RequestCount(r) /\ ResponseCount(r)
  BY DEF JInv, RefsExact
<1>2. RequestCount(r)'
  BY <1>1 DEF RequestCount, One
<1>3. ResponseCount(r)'
  BY <1>1 DEF ResponseCount, One
<1>4. QED
  BY <1>2, <1>3

(* No request goes from one place to another.                              *)
LEMMA RequestsStay ==
  ASSUME JInv, UNCHANGED <<requestQueue, responseQueue, request, answering, refs,
                           responseRefs, held, owner, sent, answered>>,
         \A h \in Clients : /\ pc'[h] = "process" <=> pc[h] = "process"
                            /\ pc'[h] = "respond" <=> pc[h] = "respond"
                            /\ pc[h] \in {"leave", "done"} => pc'[h] \in {"leave", "done"}
                            /\ memory'[h] = "none" => memory[h] = "none",
         answering # None => main' \in {"callback", "notify in callback"},
         EndingInv', AloneInv', InOrderOnce'
  PROVE  JInv'
<1>1. Types2' /\ PlaceInv' /\ WorkInv' /\ AnsweredInv'
  <2>1. Types2'
    BY DEF JInv, Types2
  <2>2. PlaceInv'
    BY Zenon DEF JInv, PlaceInv, InPlace
  <2>3. WorkInv'
    BY DEF JInv, WorkInv
  <2>4. AnsweredInv'
    BY DEF JInv, AnsweredInv, Answered
  <2>5. QED
    BY <2>1, <2>2, <2>3, <2>4
<1>2. \A r : /\ Pending(r)' <=> Pending(r)
             /\ Waiting(r)' <=> Waiting(r)
             /\ HasResponse(r)' <=> HasResponse(r)
             /\ InResponses(r)' <=> InResponses(r)
             /\ Left(r) => Left(r)'
  BY DEF Pending, Waiting, HasResponse, InResponses, Left, Answered
<1>3. HeldInv'
  BY <1>2 DEF JInv, HeldInv
<1>4. RefsExact'
  <2>1. ASSUME NEW r \in Requests PROVE RequestCount(r)' /\ ResponseCount(r)'
    BY <1>2, CountsStay
  <2>2. QED
    BY <2>1 DEF RefsExact
<1>5. QED
  BY <1>1, <1>3, <1>4 DEF JInv

LEMMA EndingStays ==
  ASSUME JInv, UNCHANGED instance,
         \A h \in Clients : pc'[h] \in Ending => pc[h] \in Ending
  PROVE  EndingInv'
BY DEF JInv, EndingInv

LEMMA AloneStay ==
  ASSUME JInv, UNCHANGED <<functions, batch, owner, answered>>,
         \A x \in Immediate : /\ pc'[x] = "none" <=> pc[x] = "none"
                              /\ pc[x] \in {"leave", "done"} => pc'[x] \in {"leave", "done"}
  PROVE  AloneInv'
BY DEF JInv, AloneInv

LEMMA OrderStays ==
  ASSUME JInv, UNCHANGED <<instance, requestQueue, responseQueue, request, sent, answered>>
  PROVE  InOrderOnce'
BY DEF JInv, InOrderOnce

(* Where a thread wakes up, goes to sleep, or counts itself in or out.     *)
QuietStep ==
  \/ UNCHANGED pc
  \/ \E x \in Clients, l \in Labels \ {"process", "respond"} :
       pc[x] \notin {"none", "process", "respond"}
         /\ (l \in Ending => pc[x] \in Ending) /\ Goto(x, l)
         /\ (pc[x] \in {"leave", "done"} => l \in {"leave", "done"})
  \/ \E x \in Immediate, l \in Labels \ {"none"} :
       pc[x] \in {"start", "process", "post", "leave"}
         /\ (pc[x] = "leave" => l = "done") /\ Goto(x, l)

LEMMA Quiet ==
  ASSUME IInv, JInv, QuietStep
  PROVE  /\ \A h \in Clients : /\ pc'[h] = "process" <=> pc[h] = "process"
                               /\ pc'[h] = "respond" <=> pc[h] = "respond"
                               /\ pc'[h] \in Ending => pc[h] \in Ending
                               /\ pc[h] \in {"leave", "done"} => pc'[h] \in {"leave", "done"}
         /\ \A x \in Immediate :
              /\ pc'[x] = "none" <=> pc[x] = "none"
              /\ pc[x] \in {"leave", "done"} => pc'[x] \in {"leave", "done"}
<1>1. pc \in [Threads -> Labels] /\ Threads = Clients \cup Immediate
      /\ Clients \cap Immediate = {}
  BY Disjoint DEF IInv, Types1, Threads, Requests
<1>2. CASE UNCHANGED pc
  BY <1>2
<1>3. ASSUME NEW x \in Clients, NEW l \in Labels \ {"process", "respond"},
             pc[x] \notin {"none", "process", "respond"},
             l \in Ending => pc[x] \in Ending, Goto(x, l),
             pc[x] \in {"leave", "done"} => l \in {"leave", "done"}
      PROVE  /\ \A h \in Clients : /\ pc'[h] = "process" <=> pc[h] = "process"
                                   /\ pc'[h] = "respond" <=> pc[h] = "respond"
                                   /\ pc'[h] \in Ending => pc[h] \in Ending
                                   /\ pc[h] \in {"leave", "done"} => pc'[h] \in {"leave", "done"}
             /\ \A y \in Immediate : pc'[y] = pc[y]
  BY <1>1, <1>3 DEF Goto
<1>4. ASSUME NEW x \in Immediate, NEW l \in Labels \ {"none"},
             pc[x] \in {"start", "process", "post", "leave"},
             pc[x] = "leave" => l = "done", Goto(x, l)
      PROVE  /\ \A h \in Clients : pc'[h] = pc[h]
             /\ \A y \in Immediate :
                  /\ pc'[y] = "none" <=> pc[y] = "none"
                  /\ pc[y] \in {"leave", "done"} => pc'[y] \in {"leave", "done"}
  BY <1>1, <1>4 DEF Goto
<1>5. QED
  BY <1>2, <1>3, <1>4 DEF QuietStep

LEMMA WakeQuiet ==
  ASSUME IInv, NEW h \in Clients \cup {None}, Wake(h)
  PROVE  QuietStep
<1>1. CASE h \in Clients
  BY <1>1 DEF Wake, QuietStep, Labels, Ending
<1>2. CASE h = None
  BY <1>2, Disjoint DEF IInv, Types1, Wake, Goto, QuietStep
<1>3. QED
  BY <1>1, <1>2

LEMMA QuietInv ==
  ASSUME IInv, JInv,
         \/ Notify \/ NotifyQuit \/ DecreaseOwner \/ EndUpdate \/ UNCHANGED vars
         \/ \E h \in Clients : Sleep(h) \/ SpuriousWakeup(h)
         \/ \E x \in Threads : IncreaseThreadCount(x) \/ Leave(x)
  PROVE  JInv'
<1>1. /\ UNCHANGED <<requestQueue, responseQueue, request, answering, refs, responseRefs, held, owner,
                     sent, answered, functions, batch, instance>>
      /\ main \notin {"callback", "notify in callback"} \/ main' = main \/ main' = "callback"
  BY DEF Notify, NotifyQuit, DecreaseOwner, EndUpdate, Sleep, SpuriousWakeup,
         IncreaseThreadCount, Leave, vars, client, queues, posts, counts, history
<1>2. QuietStep
  <2>1. CASE Notify
    BY <2>1, WakeQuiet DEF Notify, IInv, Types1
  <2>2. CASE NotifyQuit
    BY <2>2, WakeQuiet DEF NotifyQuit, IInv, Types1
  <2>3. CASE DecreaseOwner \/ EndUpdate \/ UNCHANGED vars
    BY <2>3 DEF DecreaseOwner, EndUpdate, vars, QuietStep
  <2>4. ASSUME NEW h \in Clients, Sleep(h) \/ SpuriousWakeup(h) PROVE QuietStep
    BY <2>4 DEF Sleep, SpuriousWakeup, QuietStep, Labels, Ending
  <2>5. ASSUME NEW x \in Threads, IncreaseThreadCount(x) \/ Leave(x) PROVE QuietStep
    <3>1. CASE x \in Clients
      BY <2>5, <3>1 DEF IncreaseThreadCount, Leave, QuietStep, Labels, Ending
    <3>2. CASE x \in Immediate
      BY <2>5, <3>2, Disjoint DEF IncreaseThreadCount, Leave, QuietStep, Labels, Requests
    <3>3. QED
      BY <3>1, <3>2 DEF Threads
  <2>6. QED
    BY <2>1, <2>2, <2>3, <2>4, <2>5
<1>3. \A h \in Clients : memory'[h] = "none" => memory[h] = "none"
  BY DEF IInv, Types1, Notify, NotifyQuit, DecreaseOwner, EndUpdate, Sleep, SpuriousWakeup,
         IncreaseThreadCount, Leave, DecreaseThreadCountAndMayDeleteThis, vars, client
<1>4. answering # None => main' \in {"callback", "notify in callback"}
  BY <1>1 DEF JInv, AnsweredInv
<1>5. AloneInv' /\ InOrderOnce' /\ EndingInv'
  BY <1>1, <1>2, Quiet, AloneStay, OrderStays, EndingStays
<1>6. QED
  BY <1>1, <1>2, <1>3, <1>4, <1>5, Quiet, RequestsStay

(* A client comes or goes.                                                 *)
LEMMA InstanceInv == ASSUME IInv, JInv, GetInstance \/ DestroyInstance PROVE JInv'
<1>1. UNCHANGED <<requestQueue, responseQueue, request, answering, refs, responseRefs, held, owner,
                  sent, answered, functions, batch, pc>>
  BY DEF GetInstance, DestroyInstance, queues, posts, counts, history
<1>2. \A h \in Clients : memory'[h] = "none" => memory[h] = "none"
  BY DEF IInv, Types1, GetInstance, DestroyInstance
<1>3. answering # None => main' \in {"callback", "notify in callback"}
  BY DEF JInv, AnsweredInv, GetInstance, DestroyInstance
<1>4. AloneInv'
  BY <1>1, AloneStay
<1>5. InOrderOnce'
  <2>1. CASE DestroyInstance
    BY <2>1 DEF DestroyInstance, InOrderOnce
  <2>2. CASE GetInstance
    <3>1. PICK c \in Clients : instance' = c /\ memory[c] = "none"
      BY <2>2 DEF GetInstance
    <3>2. request[c] = None
      BY <3>1 DEF IInv, ThreadInv, Threads, ClientOf, JInv, WorkInv
    <3>3. /\ requestQueue[c] = <<>> /\ responseQueue[c] = <<>>
          /\ sent[c] = <<>> /\ answered[c] = <<>>
      BY <3>1 DEF JInv, WorkInv
    <3>4. <<>> \o <<>> = <<>>
      BY EmptySeq, ConcatEmptySeq
    <3>5. sent[c] = answered[c] \o responseQueue[c] \o <<>> \o requestQueue[c]
      BY <3>3, <3>4
    <3>6. QED
      BY <1>1, <3>1, <3>2, <3>5 DEF InOrderOnce
  <2>3. QED
    BY <2>1, <2>2
<1>6. EndingInv'
  BY <1>1, Disjoint DEF IInv, ThreadInv, Threads, ClientOf, JInv, EndingInv, Ending,
     GetInstance, DestroyInstance
<1>7. QED
  BY <1>1, <1>2, <1>3, <1>4, <1>5, <1>6, RequestsStay

(* What the threads have posted is taken, or removed.                      *)
LEMMA FunctionsTaken == ASSUME IInv, JInv, Update \/ RemoveFunctions PROVE JInv'
<1>1. UNCHANGED <<requestQueue, responseQueue, request, answering, refs, responseRefs, held, owner,
                  sent, answered, instance, memory, pc>>
  BY DEF Update, RemoveFunctions, client, queues, counts, history
<1>2. answering # None => main' \in {"callback", "notify in callback"}
  BY DEF JInv, AnsweredInv, Update, RemoveFunctions
<1>3. AloneInv'
  <2>1. Range(<<>>) = {} /\ DistinctIn(<<>>, Immediate)
    BY Nothing
  <2>2. CASE Update
    <3>1. batch = <<>> /\ batch' = functions /\ functions' = <<>>
      BY <2>2 DEF Update
    <3>2. QED
      BY <1>1, <2>1, <3>1 DEF JInv, AloneInv
  <2>3. CASE RemoveFunctions
    <3>1. functions' = <<>> /\ batch' = batch
      BY <2>3 DEF RemoveFunctions
    <3>2. QED
      BY <1>1, <2>1, <3>1 DEF JInv, AloneInv
  <2>4. QED
    BY <2>2, <2>3
<1>4. InOrderOnce'
  BY <1>1, OrderStays
<1>5. EndingInv'
  BY <1>1, EndingStays
<1>6. QED
  BY <1>1, <1>2, <1>3, <1>4, <1>5, RequestsStay

LEMMA PostInv == ASSUME IInv, JInv, NEW x \in Threads, Post(x) PROVE JInv'
<1>1. UNCHANGED <<requestQueue, responseQueue, request, answering, refs, responseRefs, held, owner,
                  sent, answered, instance, memory, main, batch>>
  BY DEF Post, client, queues, counts, history
<1>2. Clients \cap Immediate = {} /\ Threads = Clients \cup Immediate
  BY Disjoint DEF Requests, Threads
<1>3. QuietStep
  BY <1>2 DEF Post, QuietStep, Labels, Ending
<1>4. AloneInv'
  <2>1. CASE UNCHANGED functions
    BY <1>1, <1>3, <2>1, Quiet, AloneStay
  <2>2. CASE functions' = Append(functions, x)
    <3>1. x \in Immediate => x \notin Range(functions) \cup Range(batch) \cup Range(answered[x])
      BY DEF Post, JInv, AloneInv
    <3>2. /\ Range(functions') = Range(functions) \cup {x}
          /\ DistinctIn(functions', Immediate)
      BY <2>2, <3>1, Appended DEF IInv, Types1, JInv, AloneInv
    <3>3. x \in Immediate => pc'[x] = "leave"
      BY <1>2 DEF Post, Goto, IInv, Types1
    <3>4. QED
      BY <1>1, <1>2, <1>3, <3>1, <3>2, <3>3, Quiet DEF JInv, AloneInv
  <2>3. QED
    BY <2>1, <2>2 DEF Post
<1>5. InOrderOnce'
  BY <1>1, OrderStays
<1>6. EndingInv'
  BY <1>1, <1>3, Quiet, EndingStays
<1>7. QED
  BY <1>1, <1>3, <1>4, <1>5, <1>6, Quiet, RequestsStay DEF JInv, AnsweredInv

------------------------------------------------------------------------------
(* The actions that move a request.                                        *)

LEMMA SendRequests == ASSUME IInv, JInv, NEW r \in Queued, Send(r) PROVE JInv'
<1>0. PICK h \in Clients : h = instance
  BY DEF IInv, Types1, Send, New
<1>1. /\ owner[r] = None /\ owner' = [owner EXCEPT ![r] = h] /\ held' = held \cup {r}
      /\ refs' = [refs EXCEPT ![r] = 3]
      /\ requestQueue' = [requestQueue EXCEPT ![h] = Append(@, r)]
      /\ sent' = [sent EXCEPT ![h] = Append(@, r)]
      /\ main \in {"idle", "callback"} /\ (main = "callback" => main' = "notify in callback")
      /\ UNCHANGED <<instance, memory, responseQueue, request, functions, batch, answering,
                     responseRefs, answered>>
      /\ UNCHANGED pc \/ (~isInited[h] /\ Goto(h, "start"))
  BY <1>0 DEF Send, New, posts
<1>2. /\ r \in Requests /\ r \notin Immediate /\ r # None
      /\ Clients \cap Immediate = {} /\ Threads = Clients \cup Immediate
      /\ r \in Queued \cup {Sentinel}
  BY HttpClientAssumption DEF Requests, Threads
<1>3. /\ ~Answered(r) /\ answering # r /\ ~Waiting(r) /\ ~HasResponse(r) /\ r \notin held
      /\ responseRefs[r] = 0
      /\ \A g \in Clients :
           /\ r \notin Range(requestQueue[g]) /\ r \notin Range(responseQueue[g])
           /\ r # request[g] /\ r \notin Range(answered[g])
  BY <1>1, <1>2, NotSent
<1>4. memory[h] = "alive"
  BY <1>0 DEF IInv, OwnerInv
<1>5. /\ \A x \in Immediate : pc'[x] = pc[x]
      /\ \A g \in Clients : /\ pc'[g] \in {"process", "respond"} <=> pc[g] \in {"process", "respond"}
                            /\ pc'[g] = "respond" <=> pc[g] = "respond"
                            /\ pc'[g] \in Ending => pc[g] \in Ending
                            /\ pc[g] \in {"leave", "done"} => pc'[g] = pc[g]
  BY <1>1, <1>2 DEF IInv, Types1, ThreadInv, Goto, Ending
<1>6. requestQueue[h] \in Seq(Queued \cup {Sentinel}) /\ sent[h] \in Seq(Queued)
  BY DEF JInv, Types2
<1>7. /\ requestQueue'[h] = Append(requestQueue[h], r)
      /\ requestQueue'[h] \in Seq(Queued \cup {Sentinel})
      /\ Range(requestQueue'[h]) = Range(requestQueue[h]) \cup {r}
      /\ DistinctIn(requestQueue'[h], Queued)
      /\ \A g \in Clients : g # h => requestQueue'[g] = requestQueue[g]
  <2>1. requestQueue'[h] = Append(requestQueue[h], r)
    BY <1>1 DEF JInv, Types2
  <2>2. Append(requestQueue[h], r) \in Seq(Queued \cup {Sentinel})
    BY <1>2, <1>6, AppendProperties
  <2>3. DistinctIn(requestQueue[h], Queued) /\ r \notin Range(requestQueue[h])
    BY <1>3 DEF JInv, PlaceInv, InPlace
  <2>4. /\ Range(Append(requestQueue[h], r)) = Range(requestQueue[h]) \cup {r}
        /\ DistinctIn(Append(requestQueue[h], r), Queued)
    BY <1>2, <1>6, <2>3, Appended
  <2>5. \A g \in Clients : g # h => requestQueue'[g] = requestQueue[g]
    BY <1>1 DEF JInv, Types2
  <2>6. QED
    BY <2>1, <2>2, <2>4, <2>5
<1>8. sent'[h] = Append(sent[h], r) /\ sent'[h] \in Seq(Queued)
  BY <1>1, <1>6, AppendProperties DEF JInv, Types2
<1>9. Types2'
  <2>1. requestQueue' \in [Clients -> Seq(Queued \cup {Sentinel})]
    BY <1>1, <1>7 DEF JInv, Types2
  <2>2. sent' \in [Clients -> Seq(Queued)]
    BY <1>1, <1>8 DEF JInv, Types2
  <2>3. refs' \in [Requests -> Int]
    <3>1. refs \in [Requests -> Int] /\ 3 \in Int
      BY DEF JInv, Types2
    <3>2. QED
      BY <1>1, <3>1, Zenon
  <2>4. held' \subseteq Requests
    BY <1>1, <1>2 DEF JInv, Types2
  <2>5. QED
    BY <1>1, <2>1, <2>2, <2>3, <2>4 DEF JInv, Types2
<1>10. PlaceInv'
  <2>1. \A q \in Queued : q # r => owner'[q] = owner[q]
    BY <1>1 DEF IInv, Types1, Requests
  <2>2. owner'[r] = h
    BY <1>1, <1>2 DEF IInv, Types1
  <2>3. ASSUME NEW g \in Clients, g # h
        PROVE  /\ requestQueue'[g] = requestQueue[g] /\ responseQueue'[g] = responseQueue[g]
               /\ request'[g] = request[g] /\ answered'[g] = answered[g]
    BY <1>1, <1>7, <2>3
  <2>4. QED
    <3>1. ASSUME NEW g \in Clients, g # h PROVE InPlace(g)'
      BY <1>3, <2>1, <2>3, <3>1 DEF JInv, PlaceInv, InPlace
    <3>2. InPlace(h)'
      <4>1. responseQueue'[h] = responseQueue[h] /\ request'[h] = request[h] /\ answered'[h] = answered[h]
        BY <1>1
      <4>2. InPlace(h)
        BY DEF JInv, PlaceInv
      <4>3. /\ DistinctIn(requestQueue'[h], Queued)
            /\ \A q : q \in Range(requestQueue'[h]) <=> q \in Range(requestQueue[h]) \/ q = r
        BY <1>7
      <4>4. QED
        BY <1>3, <2>1, <2>2, <4>1, <4>2, <4>3 DEF InPlace
    <3>3. QED
      BY <3>1, <3>2 DEF PlaceInv
<1>11. WorkInv' /\ EndingInv'
  BY <1>1, <1>4, <1>5, <1>7 DEF JInv, Types2, WorkInv, EndingInv
<1>12. AloneInv'
  <2>1. \A x \in Immediate : owner'[x] = owner[x]
    BY <1>1, <1>2 DEF IInv, Types1, Requests
  <2>2. QED
    BY <1>1, <1>5, <2>1 DEF JInv, AloneInv
<1>13. AnsweredInv'
  BY <1>1 DEF JInv, AnsweredInv, Answered
<1>14. /\ Pending(r)' /\ Waiting(r)' /\ ~HasResponse(r)'
       /\ \A q \in Requests : q # r => /\ Pending(q)' <=> Pending(q)
                                       /\ Waiting(q)' <=> Waiting(q)
                                       /\ HasResponse(q)' <=> HasResponse(q)
                                       /\ InResponses(q)' <=> InResponses(q)
                                       /\ Left(q) => Left(q)'
  <2>1. owner'[r] = h /\ \A q \in Requests : q # r => owner'[q] = owner[q]
    BY <1>1, <1>2 DEF IInv, Types1
  <2>2. Pending(r)'
    BY <1>1, <1>3, <2>1, Disjoint DEF Pending, Answered
  <2>3. Waiting(r)' /\ \A q : q # r => (Waiting(q)' <=> Waiting(q))
    BY <1>7 DEF Waiting
  <2>4. \A q \in Requests : q # r => /\ Pending(q)' <=> Pending(q)
                                     /\ HasResponse(q)' <=> HasResponse(q)
                                     /\ InResponses(q)' <=> InResponses(q)
                                     /\ Left(q) => Left(q)'
    <3>1. UNCHANGED <<responseQueue, request, answering, answered>>
      BY <1>1
    <3>2. ASSUME NEW q \in Requests, q # r PROVE Pending(q)' <=> Pending(q)
      BY <2>1, <3>1, <3>2 DEF Pending, Answered
    <3>3. ASSUME NEW q \in Requests, q # r PROVE HasResponse(q)' <=> HasResponse(q)
      BY <1>5, <3>1, <3>2, <3>3 DEF HasResponse, InResponses
    <3>4. ASSUME NEW q \in Requests, q # r PROVE Left(q) => Left(q)'
      BY <1>5, <2>1, <3>2, <3>4 DEF Left
    <3>5. \A q : InResponses(q)' <=> InResponses(q)
      BY <3>1 DEF InResponses
    <3>6. QED
      BY <3>2, <3>3, <3>4, <3>5
  <2>5. ~HasResponse(r)'
    BY <1>1, <1>2, <1>3 DEF HasResponse, InResponses
  <2>6. QED
    BY <2>2, <2>3, <2>4, <2>5
<1>15. HeldInv'
  BY <1>1, <1>2, <1>14, Disjoint DEF JInv, HeldInv, IInv, Types1
<1>16. RefsExact'
  <2>1. ASSUME NEW q \in Requests PROVE RequestCount(q)' /\ ResponseCount(q)'
    <3>1. CASE q = r
      <4>1. refs'[q] = 3 /\ responseRefs'[q] = 0
        BY <1>1, <1>3, <3>1 DEF JInv, Types2
      <4>2. q \in held'
        BY <1>1, <3>1
      <4>3. QED
        BY <1>14, <3>1, <4>1, <4>2 DEF RequestCount, ResponseCount, One
    <3>2. CASE q # r
      <4>1. /\ refs'[q] = refs[q] /\ responseRefs'[q] = responseRefs[q]
            /\ q \in held' <=> q \in held
        BY <1>1, <3>2 DEF JInv, Types2
      <4>2. QED
        BY <1>14, <3>2, <4>1, CountsStay
    <3>3. QED
      BY <3>1, <3>2
  <2>2. QED
    BY <2>1 DEF RefsExact
<1>17. InOrderOnce'
  <2>1. sent[h] = Before(h) \o requestQueue[h] /\ Before(h) \in Seq(Queued \cup {Sentinel})
    BY <1>0, BeforeSeq, SeqMonotonic
  <2>2. Append(sent[h], r) = Before(h) \o Append(requestQueue[h], r)
    <3>1. Before(h) \o Append(requestQueue[h], r) = Append(Before(h) \o requestQueue[h], r)
      <4> DEFINE S == Queued \cup {Sentinel}
      <4>1. Before(h) \in Seq(S) /\ requestQueue[h] \in Seq(S) /\ r \in S
        BY <1>2, <1>6, <2>1
      <4> HIDE DEF S
      <4>2. QED
        BY <4>1, Longer
    <3>2. QED
      BY <2>1, <3>1
  <2>3. Before(h)' = Before(h)
    BY <1>1 DEF Before
  <2>4. sent'[h] = Before(h)' \o requestQueue'[h]
    BY <1>7, <1>8, <2>2, <2>3
  <2>5. QED
    BY <1>0, <1>1, <2>4 DEF InOrderOnce, Before
<1>18. QED
  BY <1>9, <1>10, <1>11, <1>12, <1>13, <1>15, <1>16, <1>17 DEF JInv

LEMMA SendImmediateRequests ==
  ASSUME IInv, JInv, NEW r \in Immediate, SendImmediate(r)
  PROVE  JInv'
<1>0. instance \in Clients
  BY DEF IInv, Types1, SendImmediate, New
<1>1. /\ owner[r] = None /\ owner' = [owner EXCEPT ![r] = instance] /\ held' = held \cup {r}
      /\ refs' = [refs EXCEPT ![r] = 3] /\ responseRefs' = [responseRefs EXCEPT ![r] = 1]
      /\ Goto(r, "start")
      /\ UNCHANGED <<instance, memory, main, requestQueue, responseQueue, request, functions,
                     batch, answering, sent, answered>>
  BY DEF SendImmediate, New, posts, client, queues
<1>2. /\ r \in Requests /\ r \notin Queued
      /\ Clients \cap Immediate = {} /\ Threads = Clients \cup Immediate
  BY HttpClientAssumption DEF Requests, Threads
<1>3. /\ ~Answered(r) /\ answering # r /\ ~Waiting(r) /\ ~HasResponse(r) /\ r \notin held
      /\ responseRefs[r] = 0
      /\ pc[r] = "none"
  BY <1>1, <1>2, NotSent
<1>4. pc'[r] = "start" /\ \A x \in Threads : x # r => pc'[x] = pc[x]
  BY <1>1, <1>2 DEF IInv, Types1, Goto
<1>5. owner'[r] = instance /\ instance # None /\ \A q \in Requests : q # r => owner'[q] = owner[q]
  BY <1>0, <1>1, <1>2, Disjoint DEF IInv, Types1
<1>6. Types2'
  <2>1. refs' \in [Requests -> Int] /\ responseRefs' \in [Requests -> Int]
    <3>1. /\ refs \in [Requests -> Int] /\ responseRefs \in [Requests -> Int]
          /\ 3 \in Int /\ 1 \in Int
      BY DEF JInv, Types2
    <3>2. QED
      BY <1>1, <3>1, Zenon
  <2>2. QED
    BY <1>1, <1>2, <2>1 DEF JInv, Types2
<1>7. PlaceInv'
  <2>1. \A q \in Queued : owner'[q] = owner[q]
    BY <1>2, <1>5 DEF Requests
  <2>2. QED
    BY <1>1, <2>1 DEF JInv, PlaceInv, InPlace
<1>8. WorkInv' /\ EndingInv'
  BY <1>1, <1>2, <1>4 DEF JInv, WorkInv, EndingInv
<1>9. AloneInv'
  <2>1. r \notin Range(functions) \cup Range(batch) \cup Range(answered[r])
    BY <1>3 DEF JInv, AloneInv
  <2>2. QED
    BY <1>1, <1>2, <1>4, <1>5, <2>1 DEF JInv, AloneInv
<1>10. AnsweredInv'
  BY <1>1 DEF JInv, AnsweredInv, Answered
<1>11. /\ Pending(r)' /\ ~Waiting(r)' /\ HasResponse(r)' /\ ~InResponses(r)'
       /\ \A q \in Requests : q # r => /\ Pending(q)' <=> Pending(q)
                                       /\ Waiting(q)' <=> Waiting(q)
                                       /\ HasResponse(q)' <=> HasResponse(q)
                                       /\ InResponses(q)' <=> InResponses(q)
                                       /\ Left(q) => Left(q)'
  <2>1. Pending(r)' /\ \A q \in Requests : q # r => (Pending(q)' <=> Pending(q))
    BY <1>1, <1>3, <1>5 DEF Pending, Answered
  <2>2. \A q : (Waiting(q)' <=> Waiting(q)) /\ (InResponses(q)' <=> InResponses(q))
    BY <1>1 DEF Waiting, InResponses
  <2>3. HasResponse(r)'
    BY <2>1 DEF HasResponse
  <2>4. \A q \in Requests : q # r => (HasResponse(q)' <=> HasResponse(q))
    BY <1>1, <1>2, <1>4, <2>1, <2>2 DEF HasResponse
  <2>5. ~InResponses(r)
    BY <1>1, <1>2, NotSent
  <2>6. \A q \in Requests : q # r /\ Left(q) => Left(q)'
    BY <1>2, <1>4, <1>5, <2>1 DEF Left
  <2>7. QED
    BY <1>3, <2>1, <2>2, <2>3, <2>4, <2>5, <2>6
<1>12. HeldInv'
  BY <1>1, <1>5, <1>11 DEF JInv, HeldInv
<1>13. RefsExact'
  <2>1. ASSUME NEW q \in Requests PROVE RequestCount(q)' /\ ResponseCount(q)'
    <3>1. CASE q = r
      <4>1. refs'[q] = 3 /\ responseRefs'[q] = 1 /\ q \in held'
        BY <1>1, <3>1 DEF JInv, Types2
      <4>2. QED
        BY <1>11, <3>1, <4>1 DEF RequestCount, ResponseCount, One
    <3>2. CASE q # r
      <4>1. /\ refs'[q] = refs[q] /\ responseRefs'[q] = responseRefs[q]
            /\ q \in held' <=> q \in held
        BY <1>1, <3>2 DEF JInv, Types2
      <4>2. QED
        BY <1>11, <3>2, <4>1, CountsStay
    <3>3. QED
      BY <3>1, <3>2
  <2>2. QED
    BY <2>1 DEF RefsExact
<1>14. InOrderOnce'
  BY <1>1, OrderStays
<1>15. QED
  BY <1>6, <1>7, <1>8, <1>9, <1>10, <1>12, <1>13, <1>14 DEF JInv

------------------------------------------------------------------------------
(* The network thread of h moves a request, and with it the references.    *)

Responded(q, h) ==
  \/ answering = q
  \/ q \in Range(responseQueue[h])
  \/ request[h] = q /\ pc[h] = "respond"

Holders(q, h) == One(q \in Range(requestQueue[h])) + One(responseRefs[q] > 0)

(* The count of a response of h.                                           *)
Responses(q, h) ==
  IF Responded(q, h)
  THEN responseRefs[q] = 1 + One(q \in Range(responseQueue[h]))
  ELSE \/ responseRefs[q] = 0
       \/ responseRefs[q] = 1 /\ Pending(q) /\ pc[h] \in {"leave", "done"}

ResponsesInv ==
  \A h \in Clients : \A q \in Queued : owner[q] = h => (ResponseCount(q) <=> Responses(q, h))

LEMMA ResponsesOf == WhereInv => ResponsesInv
<1> SUFFICES ASSUME WhereInv, NEW h \in Clients, NEW q \in Queued, owner[q] = h
             PROVE  ResponseCount(q) <=> Responses(q, h)
  BY DEF ResponsesInv
<1>1. /\ HasResponse(q) <=> Responded(q, h)
      /\ InResponses(q) <=> q \in Range(responseQueue[h])
  BY DEF WhereInv, Responded, Requests
<1>2. Left(q) <=> Pending(q) /\ pc[h] \in {"leave", "done"}
  BY DEF Left
<1>3. QED
  BY <1>1, <1>2 DEF ResponseCount, Responses, One

LEMMA ResponsesNext == WhereInv' => ResponsesInv'
BY ResponsesOf, PTL

LEMMA ResponsesNow ==
  ASSUME JInv, NEW h \in Clients, NEW q \in Queued, owner[q] = h
  PROVE  Responses(q, h) /\ q \in Requests /\ responseRefs[q] \in Int /\ refs[q] \in Int
<1>1. q \in Requests
  BY DEF Requests
<1>2. ResponsesInv /\ ResponseCount(q)
  BY <1>1, Where, ResponsesOf DEF JInv, RefsExact
<1>3. QED
  BY <1>1, <1>2 DEF ResponsesInv, JInv, Types2

LEMMA MoveInv ==
  ASSUME IInv, JInv, NEW h \in Clients,
         UNCHANGED <<instance, memory, main, functions, batch, held, answering, sent, answered, owner>>,
         \A g \in Clients \ {h} :
           /\ requestQueue'[g] = requestQueue[g] /\ responseQueue'[g] = responseQueue[g]
           /\ request'[g] = request[g],
         pc'[h] \in Labels \ {"none"}, \A x \in Threads \ {h} : pc'[x] = pc[x],
         memory[h] # "none",
         Types2', InPlace(h)', request'[h] # None <=> pc'[h] \in {"process", "respond"},
         \A q \in Queued : owner[q] = h => refs'[q] - refs[q] = Holders(q, h)' - Holders(q, h),
         \A q \in Queued : owner[q] = h => Responses(q, h)',
         \A q \in Requests : owner[q] # h \/ q \in Immediate =>
           refs'[q] = refs[q] /\ responseRefs'[q] = responseRefs[q],
         h = instance => pc'[h] \notin Ending,
         h = instance => sent[h] = (Before(h) \o requestQueue[h])'
  PROVE  JInv'
<1>1. Clients \cap Immediate = {} /\ Threads = Clients \cup Immediate
      /\ Requests = Queued \cup Immediate /\ Queued \cap Immediate = {}
  BY HttpClientAssumption DEF Requests, Threads
<1>2. PlaceInv'
  <2>1. ASSUME NEW g \in Clients, g # h PROVE InPlace(g)'
    <3>1. InPlace(g)
      BY DEF JInv, PlaceInv
    <3>2. /\ requestQueue'[g] = requestQueue[g] /\ responseQueue'[g] = responseQueue[g]
          /\ request'[g] = request[g]
      BY <2>1
    <3>3. QED
      BY <3>1, <3>2 DEF InPlace
  <2>2. QED
    BY <2>1 DEF PlaceInv
<1>3. WorkInv'
  <2>1. ASSUME NEW g \in Clients, g # h
        PROVE  /\ request'[g] # None <=> pc'[g] \in {"process", "respond"}
               /\ memory'[g] = "none" => /\ requestQueue'[g] = <<>> /\ responseQueue'[g] = <<>>
                                         /\ sent'[g] = <<>> /\ answered'[g] = <<>>
    BY <1>1, <2>1 DEF JInv, WorkInv
  <2>2. QED
    BY <2>1 DEF WorkInv
<1>4. EndingInv'
  BY <1>1 DEF JInv, EndingInv
<1>5. AloneInv'
  BY <1>1, AloneStay
<1>6. AnsweredInv'
  BY DEF JInv, AnsweredInv, Answered
<1>7. \A q : Pending(q)' <=> Pending(q)
  BY DEF Pending, Answered
<1>8. HeldInv'
  BY <1>7 DEF JInv, HeldInv
<1>9. InOrderOnce'
  <2>1. CASE h = instance
    BY <2>1 DEF InOrderOnce, Before
  <2>2. CASE h # instance
    <3>1. CASE instance = None
      BY <3>1 DEF InOrderOnce
    <3>2. CASE instance \in Clients \ {h}
      BY <3>2 DEF JInv, InOrderOnce
    <3>3. QED
      BY <2>2, <3>1, <3>2 DEF IInv, Types1
  <2>3. QED
    BY <2>1, <2>2
<1>10. RefsExact'
  <2>1. WhereInv /\ WhereInv' /\ ResponsesInv'
    BY <1>2, Where, WhereNext, ResponsesNext DEF JInv
  <2>2. ASSUME NEW q \in Requests PROVE RequestCount(q)' /\ ResponseCount(q)'
    <3>0. /\ RequestCount(q)
          /\ refs[q] \in Int /\ refs'[q] \in Int
          /\ q \in held' <=> q \in held
      BY DEF JInv, RefsExact, Types2
    <3>1. CASE q \in Queued /\ owner[q] = h
      <4>1. Waiting(q) <=> q \in Range(requestQueue[h])
        BY <2>1, <3>1 DEF WhereInv
      <4>2. Waiting(q)' <=> q \in Range(requestQueue'[h])
        BY <2>1, <3>1 DEF WhereInv
      <4>3. refs'[q] - refs[q] = Holders(q, h)' - Holders(q, h)
        BY <3>1
      <4>4. RequestCount(q)'
        BY <1>7, <3>0, <4>1, <4>2, <4>3 DEF One, Holders, RequestCount
      <4>5. owner'[q] = h /\ Responses(q, h)'
        BY <3>1
      <4>6. ResponseCount(q)'
        BY <2>1, <3>1, <4>5 DEF ResponsesInv
      <4>7. QED
        BY <4>4, <4>6
    <3>2. CASE q \in Queued /\ owner[q] # h
      <4>1. /\ Waiting(q)' <=> Waiting(q)
            /\ HasResponse(q)' <=> HasResponse(q)
            /\ InResponses(q)' <=> InResponses(q)
        <5>1. CASE owner[q] \in Clients
          <6>1. PICK g \in Clients : g = owner[q] /\ g # h
            BY <3>2, <5>1
          <6>2. /\ requestQueue'[g] = requestQueue[g] /\ responseQueue'[g] = responseQueue[g]
                /\ request'[g] = request[g] /\ pc'[g] = pc[g]
            BY <1>1, <6>1
          <6>3. /\ Waiting(q) <=> q \in Range(requestQueue[g])
                /\ HasResponse(q) <=> Responded(q, g)
                /\ InResponses(q) <=> q \in Range(responseQueue[g])
            BY <2>1, <3>2, <6>1 DEF WhereInv, Responded
          <6>4. /\ Waiting(q)' <=> q \in Range(requestQueue'[g])
                /\ HasResponse(q)' <=> Responded(q, g)'
                /\ InResponses(q)' <=> q \in Range(responseQueue'[g])
            BY <2>1, <3>2, <6>1 DEF WhereInv, Responded
          <6>5. QED
            BY <6>2, <6>3, <6>4 DEF Responded
        <5>2. CASE owner[q] \notin Clients
          BY <2>1, <3>2, <5>2 DEF WhereInv
        <5>3. QED
          BY <5>1, <5>2
      <4>2. Left(q) => Left(q)'
        BY <1>1, <1>7, <3>2 DEF Left
      <4>3. QED
        BY <1>7, <3>0, <3>2, <4>1, <4>2, CountsStay
    <3>3. CASE q \in Immediate
      <4>1. /\ Waiting(q)' <=> Waiting(q)
            /\ HasResponse(q)' <=> HasResponse(q)
            /\ InResponses(q)' <=> InResponses(q)
        BY <1>7, <2>1, <3>3 DEF WhereInv
      <4>2. ~Left(q)
        BY <1>1, <3>3 DEF Left
      <4>3. QED
        BY <1>7, <3>0, <3>3, <4>1, <4>2, CountsStay
    <3>4. QED
      BY <1>1, <3>1, <3>2, <3>3
  <2>3. QED
    BY <2>2 DEF RefsExact
<1>11. QED
  BY <1>2, <1>3, <1>4, <1>5, <1>6, <1>8, <1>9, <1>10 DEF JInv

(* The instance has no sentinel.                                           *)
LEMMA NoSentinel ==
  ASSUME JInv, NEW h \in Clients, h = instance, requestQueue[h] # <<>>
  PROVE  Head(requestQueue[h]) \in Queued
<1> DEFINE S == Queued \cup {Sentinel}
           b == Before(h)
           s == requestQueue[h]
           n == Len(b) + 1
<1>1. b \in Seq(S) /\ sent[h] = b \o s /\ sent[h] \in Seq(Queued) /\ s \in Seq(S)
  BY BeforeSeq, SeqMonotonic DEF JInv, Types2
<1>2. s # <<>>
  OBVIOUS
<1> HIDE DEF S, b, s
<1>3. Len(s) \in Nat \ {0} /\ Len(b) \in Nat /\ Head(s) = s[1]
  BY <1>1, <1>2, EmptySeq, LenProperties
<1>4. /\ n \in 1 .. Len(b) + Len(s) /\ ~(n <= Len(b)) /\ n - Len(b) = 1
  BY <1>3
<1>5. (b \o s)[n] = s[1] /\ Len(b \o s) = Len(b) + Len(s)
  BY <1>1, <1>4, ConcatProperties
<1>6. sent[h][n] \in Queued
  BY <1>1, <1>4, <1>5, ElementOfSeq
<1>7. QED
  BY <1>1, <1>3, <1>5, <1>6 DEF s

LEMMA ReleasedCounts ==
  ASSUME NEW count \in [Requests -> Int], NEW S
  PROVE  /\ Released(S, count) \in [Requests -> Int]
         /\ \A q \in Requests :
              Released(S, count)[q] = IF q \in S THEN count[q] - 1 ELSE count[q]
<1>1. \A q \in Requests : /\ count[q] - One(q \in S) \in Int
                          /\ count[q] - One(q \in S) = IF q \in S THEN count[q] - 1 ELSE count[q]
  BY DEF One
<1> DEFINE left(q) == count[q] - One(q \in S)
<1>2. \A q \in Requests : left(q) \in Int /\ left(q) = IF q \in S THEN count[q] - 1 ELSE count[q]
  BY <1>1
<1>3. Released(S, count) = [q \in Requests |-> left(q)]
  BY DEF Released
<1> HIDE DEF left
<1>4. QED
  BY <1>2, <1>3

LEMMA ReleasedRefs ==
  ASSUME Types2, NEW S
  PROVE  /\ Released(S, refs) \in [Requests -> Int]
         /\ \A q \in Requests : Released(S, refs)[q] = IF q \in S THEN refs[q] - 1 ELSE refs[q]
         /\ Released(S, responseRefs) \in [Requests -> Int]
         /\ \A q \in Requests :
              Released(S, responseRefs)[q] = IF q \in S THEN responseRefs[q] - 1 ELSE responseRefs[q]
<1>1. refs \in [Requests -> Int] /\ responseRefs \in [Requests -> Int]
  BY DEF Types2
<1>2. QED
  BY <1>1, ReleasedCounts

LEMMA WorkerAt ==
  ASSUME IInv, NEW h \in Clients, NEW l \in Labels, pc[h] # "none", Goto(h, l)
  PROVE  /\ pc'[h] = l /\ \A x \in Threads \ {h} : pc'[x] = pc[x]
         /\ memory[h] # "none"
BY DEF IInv, Types1, ThreadInv, Goto, Threads, ClientOf

(* A request that waits, is worked on or has its response waiting was not  *)
(* answered.                                                               *)
LEMMA NotAnswering ==
  ASSUME JInv, NEW h \in Clients, NEW q \in Queued,
         q \in Range(requestQueue[h]) \/ q = request[h] \/ q \in Range(responseQueue[h])
  PROVE  answering # q /\ owner[q] = h /\ ~Answered(q)
<1>1. AnsweredBy
  BY ByWhom DEF JInv
<1>2. owner[q] = h /\ q \notin Range(answered[h])
  BY DEF JInv, PlaceInv, InPlace
<1>3. ~Answered(q)
  BY <1>1, <1>2 DEF AnsweredBy, Requests
<1>4. q # None
  BY Disjoint DEF Requests
<1>5. QED
  BY <1>2, <1>3, <1>4 DEF JInv, AnsweredInv

LEMMA TakeRequestRequests == ASSUME IInv, JInv, NEW h \in Clients, TakeRequest(h) PROVE JInv'
<1>0. PICK r : r = Head(requestQueue[h])
  OBVIOUS
<1>1. /\ pc[h] = "take" /\ requestQueue[h] # <<>>
      /\ requestQueue' = [requestQueue EXCEPT ![h] = Tail(@)]
      /\ refs' = Released({r}, refs)
      /\ \/ r = Sentinel /\ Goto(h, "clear requests") /\ request' = request
         \/ r # Sentinel /\ Goto(h, "process") /\ request' = [request EXCEPT ![h] = r]
      /\ UNCHANGED <<instance, memory, main, responseQueue, functions, batch, answering,
                     responseRefs, held, owner, sent, answered>>
  BY <1>0 DEF TakeRequest, client, posts, history
<1>2. requestQueue[h] \in Seq(Queued \cup {Sentinel})
  BY DEF JInv, Types2
<1>3. /\ r \in Queued \cup {Sentinel} /\ Tail(requestQueue[h]) \in Seq(Queued \cup {Sentinel})
      /\ Range(requestQueue[h]) = Range(Tail(requestQueue[h])) \cup {r}
      /\ DistinctIn(Tail(requestQueue[h]), Queued)
      /\ r \in Queued => r \notin Range(Tail(requestQueue[h]))
  BY <1>0, <1>1, <1>2, Taken DEF JInv, PlaceInv, InPlace
<1>4. /\ pc'[h] = (IF r = Sentinel THEN "clear requests" ELSE "process")
      /\ \A x \in Threads \ {h} : pc'[x] = pc[x]
      /\ memory[h] # "none"
  BY <1>1, WorkerAt DEF Labels
<1>5. request[h] = None
  BY <1>1 DEF JInv, WorkInv
<1>6. /\ requestQueue'[h] = Tail(requestQueue[h])
      /\ request'[h] = (IF r = Sentinel THEN None ELSE r)
      /\ \A g \in Clients \ {h} : requestQueue'[g] = requestQueue[g] /\ request'[g] = request[g]
  BY <1>1, <1>5 DEF JInv, Types2
<1>7. \A q \in Queued : Responded(q, h)' <=> Responded(q, h)
  BY <1>1, <1>4, SentinelApart DEF Responded
<1>8. \A q \in Requests : refs'[q] = IF q = r THEN refs[q] - 1 ELSE refs[q]
  BY <1>1, ReleasedRefs DEF JInv
<1>9. Types2'
  <2>1. requestQueue' \in [Clients -> Seq(Queued \cup {Sentinel})]
    BY <1>1, <1>3, <1>6 DEF JInv, Types2
  <2>2. request' \in [Clients -> Queued \cup {None}]
    BY <1>1, <1>3 DEF JInv, Types2
  <2>3. refs' \in [Requests -> Int]
    BY <1>1, ReleasedRefs DEF JInv
  <2>4. QED
    BY <1>1, <2>1, <2>2, <2>3 DEF JInv, Types2
<1>10. InPlace(h)'
  <2>1. InPlace(h)
    BY DEF JInv, PlaceInv
  <2>2. r \in Range(requestQueue[h])
    BY <1>3
  <2>3. \A q \in Queued : q # None /\ q # Sentinel
    BY SentinelApart
  <2>4. DistinctIn(requestQueue'[h], Queued)
    BY <1>3, <1>6
  <2>5. \A q : q \in Range(requestQueue'[h]) => q \in Range(requestQueue[h])
    BY <1>3, <1>6
  <2>6. r \in Queued => r \notin Range(requestQueue'[h])
    BY <1>3, <1>6
  <2>7. /\ responseQueue'[h] = responseQueue[h] /\ answered'[h] = answered[h]
        /\ owner' = owner
    BY <1>1
  <2>8. QED
    BY <1>3, <1>5, <1>6, <2>1, <2>2, <2>3, <2>4, <2>5, <2>6, <2>7 DEF InPlace
<1>11. request'[h] # None <=> pc'[h] \in {"process", "respond"}
  BY <1>3, <1>4, <1>6, SentinelApart
<1>12. ASSUME NEW q \in Queued, owner[q] = h
       PROVE  refs'[q] - refs[q] = Holders(q, h)' - Holders(q, h) /\ Responses(q, h)'
  <2>1. Responses(q, h)'
    BY <1>1, <1>7, <1>12, ResponsesNow DEF Responses
  <2>2. q \in Range(requestQueue[h]) <=> q \in Range(requestQueue'[h]) \/ q = r
    BY <1>3, <1>6
  <2>3. q = r => q \notin Range(requestQueue'[h])
    BY <1>3, <1>6
  <2>4. refs'[q] = (IF q = r THEN refs[q] - 1 ELSE refs[q]) /\ refs[q] \in Int
    BY <1>8 DEF JInv, Types2, Requests
  <2>5. responseRefs' = responseRefs
    BY <1>1
  <2>6. QED
    BY <2>1, <2>2, <2>3, <2>4, <2>5 DEF Holders, One
<1>13. ASSUME NEW q \in Requests, owner[q] # h \/ q \in Immediate
       PROVE  refs'[q] = refs[q] /\ responseRefs'[q] = responseRefs[q]
  <2>1. r \in Range(requestQueue[h])
    BY <1>3
  <2>2. r \in Queued => owner[r] = h /\ r \notin Immediate
    BY <2>1, HttpClientAssumption DEF JInv, PlaceInv, InPlace
  <2>3. q # r
    BY <1>3, <1>13, <2>2, SentinelApart
  <2>4. QED
    BY <1>1, <1>8, <2>3
<1>14. ASSUME h = instance PROVE pc'[h] \notin Ending /\ sent[h] = (Before(h) \o requestQueue[h])'
  <2>1. r \in Queued /\ r # Sentinel /\ r # None
    BY <1>0, <1>1, <1>14, NoSentinel, SentinelApart
  <2>2. pc'[h] \notin Ending
    BY <1>4, <2>1 DEF Ending
  <2> DEFINE S == Queued \cup {Sentinel}
             b == answered[h] \o responseQueue[h]
             s == requestQueue[h]
  <2>3. b \in Seq(Queued) /\ b \in Seq(S) /\ s \in Seq(S) /\ s # <<>> /\ sent[h] = Before(h) \o s
    BY <1>1, <1>2, <1>14, BeforeSeq, SeqMonotonic
  <2>4. b \o <<>> = b
    BY <2>3, ConcatEmptySeq
  <2>5. Before(h) = b
    BY <1>5, <2>4 DEF Before
  <2>6. Before(h)' = b \o <<r>>
    BY <1>1, <1>6, <2>1 DEF Before
  <2>7. b \o <<r>> = Append(b, r)
    <3> HIDE DEF b
    <3>1. Append(b, r) = b \o <<r>>
      BY <2>1, <2>3, AppendIsConcat
    <3>2. QED
      BY <3>1
  <2>8. Append(b, Head(s)) \o Tail(s) = b \o s
    <3> HIDE DEF b, s, S
    <3>1. QED
      BY <2>3, Moved
  <2>9. (Before(h) \o requestQueue[h])' = sent[h]
    BY <1>0, <1>6, <2>3, <2>5, <2>6, <2>7, <2>8
  <2>10. QED
    BY <2>2, <2>9
<1>15. pc'[h] \in Labels \ {"none"}
  BY <1>4 DEF Labels
<1>16. QED
  BY <1>1, <1>4, <1>6, <1>9, <1>10, <1>11, <1>12, <1>13, <1>14, <1>15, MoveInv

LEMMA PushResponseRequests == ASSUME IInv, JInv, NEW h \in Clients, PushResponse(h) PROVE JInv'
<1>0. PICK r : r = request[h]
  OBVIOUS
<1>1. /\ pc[h] = "respond"
      /\ responseQueue' = [responseQueue EXCEPT ![h] = Append(@, r)]
      /\ responseRefs' = [responseRefs EXCEPT ![r] = @ + 1]
      /\ request' = [request EXCEPT ![h] = None]
      /\ Goto(h, "post")
      /\ UNCHANGED <<instance, memory, main, requestQueue, functions, batch, answering, held,
                     refs, owner, sent, answered>>
  BY <1>0 DEF PushResponse, client, posts, history
<1>2. responseQueue[h] \in Seq(Queued) /\ r \in Queued /\ r # None
  BY <1>0, <1>1 DEF JInv, Types2, WorkInv
<1>3. InPlace(h) /\ r \notin Range(responseQueue[h])
  BY <1>0, <1>2 DEF JInv, PlaceInv, InPlace
<1>4. /\ Append(responseQueue[h], r) \in Seq(Queued)
      /\ Range(Append(responseQueue[h], r)) = Range(responseQueue[h]) \cup {r}
      /\ DistinctIn(Append(responseQueue[h], r), Queued)
  <2>1. Append(responseQueue[h], r) \in Seq(Queued)
    BY <1>2, AppendProperties
  <2>2. DistinctIn(responseQueue[h], Queued)
    BY <1>3 DEF InPlace
  <2>3. QED
    BY <1>2, <1>3, <2>1, <2>2, Appended
<1>5. /\ pc'[h] = "post" /\ \A x \in Threads \ {h} : pc'[x] = pc[x]
      /\ memory[h] # "none"
  BY <1>1, WorkerAt DEF Labels
<1>6. /\ responseQueue'[h] = Append(responseQueue[h], r) /\ request'[h] = None
      /\ \A g \in Clients \ {h} : responseQueue'[g] = responseQueue[g] /\ request'[g] = request[g]
  BY <1>1 DEF JInv, Types2
<1>7. Types2'
  <2>1. responseQueue' \in [Clients -> Seq(Queued)]
    BY <1>1, <1>4, <1>6 DEF JInv, Types2
  <2>2. request' \in [Clients -> Queued \cup {None}]
    BY <1>1 DEF JInv, Types2
  <2>3. responseRefs' \in [Requests -> Int]
    <3>1. responseRefs \in [Requests -> Int] /\ responseRefs[r] + 1 \in Int
      BY <1>2 DEF JInv, Types2, Requests
    <3>2. QED
      BY <1>1, <3>1, Zenon
  <2>4. QED
    BY <1>1, <2>1, <2>2, <2>3 DEF JInv, Types2
<1>8. InPlace(h)'
  <2>1. /\ requestQueue'[h] = requestQueue[h] /\ answered'[h] = answered[h] /\ owner' = owner
    BY <1>1
  <2>2. /\ DistinctIn(responseQueue'[h], Queued)
        /\ \A q : q \in Range(responseQueue'[h]) <=> q \in Range(responseQueue[h]) \/ q = r
    BY <1>4, <1>6
  <2>3. \A q \in Queued : q # None
    BY SentinelApart
  <2>4. QED
    BY <1>0, <1>2, <1>3, <1>6, <2>1, <2>2, <2>3 DEF InPlace
<1>9. request'[h] # None <=> pc'[h] \in {"process", "respond"}
  BY <1>5, <1>6
<1>10. \A q \in Requests :
         responseRefs'[q] = IF q = r THEN responseRefs[q] + 1 ELSE responseRefs[q]
  BY <1>1, <1>2 DEF JInv, Types2, Requests
<1>11. ASSUME NEW q \in Queued, owner[q] = h
       PROVE  refs'[q] - refs[q] = Holders(q, h)' - Holders(q, h) /\ Responses(q, h)'
  <2>1. Responded(q, h)' <=> Responded(q, h)
    BY <1>0, <1>1, <1>4, <1>5, <1>6 DEF Responded
  <2>2. /\ q \in Range(responseQueue'[h]) <=> q \in Range(responseQueue[h]) \/ q = r
        /\ r \notin Range(responseQueue[h])
    BY <1>3, <1>4, <1>6
  <2>3. Responses(q, h) /\ q \in Requests /\ responseRefs[q] \in Int /\ refs[q] \in Int
    BY <1>11, ResponsesNow
  <2>4. q = r => Responded(q, h) /\ responseRefs[q] = 1
    <3>1. q = r => Responded(q, h)
      BY <1>0, <1>1 DEF Responded
    <3>2. QED
      BY <2>2, <2>3, <3>1 DEF Responses, One
  <2>5. ~Responded(q, h) => responseRefs[q] = 0
    BY <1>1, <2>3 DEF Responses
  <2>6. responseRefs'[q] = IF q = r THEN responseRefs[q] + 1 ELSE responseRefs[q]
    BY <1>10, <2>3
  <2>7. Responses(q, h)'
    BY <2>1, <2>2, <2>3, <2>4, <2>5, <2>6 DEF Responses, One
  <2>8. refs'[q] = refs[q] /\ requestQueue'[h] = requestQueue[h]
    BY <1>1
  <2>9. responseRefs'[q] > 0 <=> responseRefs[q] > 0
    BY <2>3, <2>4, <2>6
  <2>10. refs'[q] - refs[q] = Holders(q, h)' - Holders(q, h)
    BY <2>3, <2>8, <2>9 DEF Holders, One
  <2>11. QED
    BY <2>7, <2>10
<1>12. ASSUME NEW q \in Requests, owner[q] # h \/ q \in Immediate
       PROVE  refs'[q] = refs[q] /\ responseRefs'[q] = responseRefs[q]
  <2>1. owner[r] = h /\ r \notin Immediate
    BY <1>0, <1>2, NotAnswering, HttpClientAssumption
  <2>2. QED
    BY <1>1, <1>10, <1>12, <2>1
<1>13. ASSUME h = instance PROVE pc'[h] \notin Ending /\ sent[h] = (Before(h) \o requestQueue[h])'
  <2>1. sent[h] = Before(h) \o requestQueue[h]
    BY <1>13, BeforeSeq
  <2>2. answered[h] \in Seq(Queued) /\ <<r>> \in Seq(Queued)
    BY <1>2, BeforeSeq
  <2>3. Append(responseQueue[h], r) = responseQueue[h] \o <<r>>
    BY <1>2, AppendIsConcat
  <2>4. answered[h] \o (responseQueue[h] \o <<r>>) = (answered[h] \o responseQueue[h]) \o <<r>>
    <3>1. PICK s, t, u : s = answered[h] /\ t = responseQueue[h] /\ u = <<r>>
      OBVIOUS
    <3>2. s \in Seq(Queued) /\ t \in Seq(Queued) /\ u \in Seq(Queued)
      BY <1>2, <2>2, <3>1
    <3>3. s \o (t \o u) = (s \o t) \o u
      BY <3>2, ConcatAssociative
    <3>4. QED
      BY <3>1, <3>3
  <2>5. answered[h] \o Append(responseQueue[h], r) \in Seq(Queued)
    BY <1>4, <2>2, ConcatProperties
  <2>6. (answered[h] \o Append(responseQueue[h], r)) \o <<>> = answered[h] \o Append(responseQueue[h], r)
    BY <2>5, ConcatEmptySeq
  <2>7. Before(h) = answered[h] \o responseQueue[h] \o <<r>>
    BY <1>0, <1>2 DEF Before
  <2>8. Before(h)' = answered[h] \o Append(responseQueue[h], r) \o <<>>
    BY <1>1, <1>6 DEF Before
  <2>9. Before(h)' = Before(h)
    BY <2>3, <2>4, <2>6, <2>7, <2>8
  <2>10. QED
    BY <1>1, <1>5, <2>1, <2>9 DEF Ending
<1>14. pc'[h] \in Labels \ {"none"}
  BY <1>5 DEF Labels
<1>15. QED
  BY <1>1, <1>5, <1>6, <1>7, <1>8, <1>9, <1>11, <1>12, <1>13, <1>14, MoveInv

(* Of an immediate request, curl's answer is its thread's own.             *)
LEMMA ProcessRequests == ASSUME IInv, JInv, NEW x \in Threads, ProcessResponse(x) PROVE JInv'
<1>1. /\ pc[x] = "process"
      /\ UNCHANGED <<instance, memory, main, requestQueue, responseQueue, request, functions,
                     batch, answering, held, owner, sent, answered>>
  BY DEF ProcessResponse, client, queues, posts, history
<1>2. CASE x \in Clients
  <2>0. PICK h \in Clients : h = x
    BY <1>2
  <2>1. PICK r : r = request[h]
    OBVIOUS
  <2>2. /\ refs' = [refs EXCEPT ![r] = @ + 1] /\ Goto(h, "respond")
        /\ responseRefs' = [responseRefs EXCEPT ![r] = 1]
    BY <2>0, <2>1 DEF ProcessResponse
  <2>3. r \in Queued /\ r \in Requests
    BY <1>1, <2>0, <2>1 DEF JInv, WorkInv, Types2, Requests
  <2>4. /\ pc'[h] = "respond" /\ \A y \in Threads \ {h} : pc'[y] = pc[y]
        /\ memory[h] # "none"
    BY <1>1, <2>0, <2>2, WorkerAt DEF Labels
  <2>5. \A q \in Requests : /\ refs'[q] = IF q = r THEN refs[q] + 1 ELSE refs[q]
                            /\ responseRefs'[q] = IF q = r THEN 1 ELSE responseRefs[q]
    BY <2>2, <2>3 DEF JInv, Types2
  <2>6. Types2'
    <3>1. refs' \in [Requests -> Int] /\ responseRefs' \in [Requests -> Int]
      <4>1. /\ refs \in [Requests -> Int] /\ refs[r] + 1 \in Int
            /\ responseRefs \in [Requests -> Int] /\ 1 \in Int
        BY <2>3 DEF JInv, Types2
      <4>2. QED
        BY <2>2, <4>1, Zenon
    <3>2. QED
      BY <1>1, <3>1 DEF JInv, Types2
  <2>7. InPlace(h)'
    BY <1>1 DEF JInv, PlaceInv, InPlace
  <2>8. request'[h] # None <=> pc'[h] \in {"process", "respond"}
    BY <1>1, <2>0, <2>4 DEF JInv, WorkInv
  <2>9. answering # r /\ owner[r] = h /\ r \notin Range(responseQueue[h])
    BY <2>1, <2>3, NotAnswering DEF JInv, PlaceInv, InPlace
  <2>10. ASSUME NEW q \in Queued, owner[q] = h
         PROVE  refs'[q] - refs[q] = Holders(q, h)' - Holders(q, h) /\ Responses(q, h)'
    <3>1. Responded(q, h)' <=> Responded(q, h) \/ q = r
      BY <1>1, <2>0, <2>1, <2>4 DEF Responded
    <3>2. q = r => ~Responded(q, h)
      BY <1>1, <2>0, <2>9 DEF Responded
    <3>3. Responses(q, h) /\ q \in Requests /\ responseRefs[q] \in Int /\ refs[q] \in Int
      BY <2>10, ResponsesNow
    <3>4. ~Responded(q, h) => responseRefs[q] = 0
      BY <1>1, <2>0, <3>3 DEF Responses
    <3>5. /\ refs'[q] = (IF q = r THEN refs[q] + 1 ELSE refs[q])
          /\ responseRefs'[q] = (IF q = r THEN 1 ELSE responseRefs[q])
      BY <2>5, <3>3
    <3>6. requestQueue'[h] = requestQueue[h] /\ responseQueue'[h] = responseQueue[h]
      BY <1>1
    <3>7. Responses(q, h)'
      BY <2>9, <3>1, <3>2, <3>3, <3>4, <3>5, <3>6 DEF Responses, One
    <3>8. refs'[q] - refs[q] = Holders(q, h)' - Holders(q, h)
      BY <3>2, <3>3, <3>4, <3>5, <3>6 DEF Holders, One
    <3>9. QED
      BY <3>7, <3>8
  <2>11. ASSUME NEW q \in Requests, owner[q] # h \/ q \in Immediate
         PROVE  refs'[q] = refs[q] /\ responseRefs'[q] = responseRefs[q]
    BY <2>3, <2>5, <2>9, <2>11, HttpClientAssumption
  <2>12. ASSUME h = instance PROVE pc'[h] \notin Ending /\ sent[h] = (Before(h) \o requestQueue[h])'
    BY <1>1, <2>4, <2>12, BeforeSeq DEF Before, Ending
  <2>13. pc'[h] \in Labels \ {"none"}
    BY <2>4 DEF Labels
  <2>14. QED
    BY <1>1, <2>4, <2>6, <2>7, <2>8, <2>10, <2>11, <2>12, <2>13, MoveInv
<1>3. CASE x \in Immediate
  <2>1. x \notin Clients
    BY <1>3, Disjoint DEF Requests
  <2>2. UNCHANGED <<refs, responseRefs>> /\ QuietStep
    BY <1>1, <1>3, <2>1 DEF ProcessResponse, QuietStep, Labels
  <2>3. AloneInv' /\ InOrderOnce' /\ EndingInv'
    BY <1>1, <2>2, Quiet, AloneStay, OrderStays, EndingStays
  <2>4. QED
    BY <1>1, <2>2, <2>3, Quiet, RequestsStay DEF JInv, AnsweredInv
<1>4. QED
  BY <1>2, <1>3 DEF Threads

LEMMA ClearRequestsRequests ==
  ASSUME IInv, JInv, NEW h \in Clients, ClearRequests(h)
  PROVE  JInv'
<1>1. /\ pc[h] = "clear requests"
      /\ refs' = Released(Range(requestQueue[h]), refs)
      /\ requestQueue' = [requestQueue EXCEPT ![h] = <<>>]
      /\ Goto(h, "clear responses")
      /\ UNCHANGED <<instance, memory, main, responseQueue, request, functions, batch, answering,
                     responseRefs, held, owner, sent, answered>>
  BY DEF ClearRequests, client, posts, history
<1>2. /\ pc'[h] = "clear responses" /\ \A x \in Threads \ {h} : pc'[x] = pc[x]
      /\ memory[h] # "none"
  BY <1>1, WorkerAt DEF Labels
<1>3. /\ requestQueue'[h] = <<>>
      /\ \A g \in Clients \ {h} : requestQueue'[g] = requestQueue[g]
  BY <1>1 DEF JInv, Types2
<1>4. Range(<<>>) = {} /\ DistinctIn(<<>>, Queued)
  BY Nothing
<1>5. Types2'
  <2>1. requestQueue' \in [Clients -> Seq(Queued \cup {Sentinel})]
    BY <1>1, EmptySeq DEF JInv, Types2
  <2>2. QED
    BY <1>1, <2>1, ReleasedRefs DEF JInv, Types2
<1>6. InPlace(h)'
  <2>1. InPlace(h)
    BY DEF JInv, PlaceInv
  <2>2. QED
    BY <1>1, <1>3, <1>4, <2>1 DEF InPlace
<1>7. request'[h] # None <=> pc'[h] \in {"process", "respond"}
  BY <1>1, <1>2 DEF JInv, WorkInv
<1>8. ASSUME NEW q \in Queued, owner[q] = h
      PROVE  refs'[q] - refs[q] = Holders(q, h)' - Holders(q, h) /\ Responses(q, h)'
  <2>1. Responses(q, h)' /\ responseRefs' = responseRefs
    <3>1. Responded(q, h)' <=> Responded(q, h)
      BY <1>1, <1>2 DEF Responded
    <3>2. QED
      BY <1>1, <1>8, <3>1, ResponsesNow DEF Responses
  <2>2. /\ refs'[q] = (IF q \in Range(requestQueue[h]) THEN refs[q] - 1 ELSE refs[q])
        /\ refs[q] \in Int
    BY <1>1, ReleasedRefs DEF JInv, Types2, Requests
  <2>3. q \notin Range(requestQueue'[h])
    BY <1>3, <1>4
  <2>4. QED
    BY <2>1, <2>2, <2>3 DEF Holders, One
<1>9. ASSUME NEW q \in Requests, owner[q] # h \/ q \in Immediate 
      PROVE  refs'[q] = refs[q] /\ responseRefs'[q] = responseRefs[q]
  <2>1. q \notin Range(requestQueue[h])
    BY <1>9, RangeQueued, SentinelApart, HttpClientAssumption DEF JInv, PlaceInv, InPlace, Requests
  <2>2. QED
    BY <1>1, <2>1, ReleasedRefs DEF JInv
<1>10. h # instance
  BY <1>1 DEF JInv, EndingInv, Ending
<1>11. pc'[h] \in Labels \ {"none"}
  BY <1>2 DEF Labels
<1>12. QED
  BY <1>1, <1>2, <1>3, <1>5, <1>6, <1>7, <1>8, <1>9, <1>10, <1>11, MoveInv

LEMMA ClearResponsesRequests ==
  ASSUME IInv, JInv, NEW h \in Clients, ClearResponses(h)
  PROVE  JInv'
<1>1. /\ pc[h] = "clear responses"
      /\ responseRefs' = Released(Range(responseQueue[h]), responseRefs)
      /\ refs' = Released({r \in Range(responseQueue[h]) : responseRefs[r] = 1}, refs)
      /\ responseQueue' = [responseQueue EXCEPT ![h] = <<>>]
      /\ Goto(h, "leave")
      /\ UNCHANGED <<instance, memory, main, requestQueue, request, functions, batch, answering,
                     held, owner, sent, answered>>
  BY DEF ClearResponses, ReleaseResponses, client, posts, history
<1>2. /\ pc'[h] = "leave" /\ \A x \in Threads \ {h} : pc'[x] = pc[x]
      /\ memory[h] # "none"
  BY <1>1, WorkerAt DEF Labels
<1>3. /\ responseQueue'[h] = <<>>
      /\ \A g \in Clients \ {h} : responseQueue'[g] = responseQueue[g]
  BY <1>1 DEF JInv, Types2
<1>4. Range(<<>>) = {} /\ DistinctIn(<<>>, Queued)
  BY Nothing
<1>5. Types2'
  <2>1. responseQueue' \in [Clients -> Seq(Queued)]
    BY <1>1, EmptySeq DEF JInv, Types2
  <2>2. QED
    BY <1>1, <2>1, ReleasedRefs DEF JInv, Types2
<1>6. InPlace(h)'
  <2>1. InPlace(h)
    BY DEF JInv, PlaceInv
  <2>2. QED
    BY <1>1, <1>3, <1>4, <2>1 DEF InPlace
<1>7. request'[h] # None <=> pc'[h] \in {"process", "respond"}
  BY <1>1, <1>2 DEF JInv, WorkInv
<1>8. ASSUME NEW q \in Queued, owner[q] = h
      PROVE  refs'[q] - refs[q] = Holders(q, h)' - Holders(q, h) /\ Responses(q, h)'
  <2>1. Responded(q, h) <=> answering = q \/ q \in Range(responseQueue[h])
    BY <1>1 DEF Responded
  <2>2. Responded(q, h)' <=> answering = q
    BY <1>1, <1>2, <1>3, <1>4 DEF Responded
  <2>3. q \in Range(responseQueue[h]) => answering # q /\ Pending(q)'
    <3>1. q \in Range(responseQueue[h]) => answering # q /\ ~Answered(q)
      BY NotAnswering
    <3>2. Pending(q)' <=> Pending(q)
      BY <1>1 DEF Pending, Answered
    <3>3. QED
      BY <1>8, <3>1, <3>2, Disjoint DEF Pending
  <2>4. Responses(q, h) /\ q \in Requests /\ responseRefs[q] \in Int /\ refs[q] \in Int
    BY <1>8, ResponsesNow
  <2>5. /\ q \in Range(responseQueue[h]) => responseRefs[q] = 2
        /\ q \notin Range(responseQueue[h]) /\ answering = q => responseRefs[q] = 1
        /\ q \notin Range(responseQueue[h]) /\ answering # q => responseRefs[q] = 0
    <3>1. Responded(q, h) => responseRefs[q] = 1 + One(q \in Range(responseQueue[h]))
      BY <2>4 DEF Responses
    <3>2. ~Responded(q, h) => responseRefs[q] = 0
      BY <1>1, <2>4 DEF Responses
    <3>3. QED
      BY <2>1, <3>1, <3>2 DEF One
  <2>6. /\ responseRefs'[q] = (IF q \in Range(responseQueue[h]) THEN responseRefs[q] - 1
                               ELSE responseRefs[q])
        /\ refs'[q] = refs[q]
    <3>1. q \notin {r \in Range(responseQueue[h]) : responseRefs[r] = 1}
      BY <2>5
    <3>2. QED
      BY <1>1, <2>4, <3>1, ReleasedRefs DEF JInv
  <2>7. requestQueue'[h] = requestQueue[h]
    BY <1>1
  <2>8. Responses(q, h)'
    BY <1>2, <1>3, <1>4, <2>2, <2>3, <2>5, <2>6 DEF Responses, One
  <2>9. responseRefs'[q] > 0 <=> responseRefs[q] > 0
    BY <2>5, <2>6
  <2>10. refs'[q] - refs[q] = Holders(q, h)' - Holders(q, h)
    BY <2>4, <2>6, <2>7, <2>9 DEF Holders, One
  <2>11. QED
    BY <2>8, <2>10
<1>9. ASSUME NEW q \in Requests, owner[q] # h \/ q \in Immediate
      PROVE  refs'[q] = refs[q] /\ responseRefs'[q] = responseRefs[q]
  <2>1. q \notin Range(responseQueue[h])
    BY <1>9, RangeQueued, HttpClientAssumption DEF JInv, PlaceInv, InPlace, Requests
  <2>2. q \notin {r \in Range(responseQueue[h]) : responseRefs[r] = 1}
    BY <2>1
  <2>3. QED
    BY <1>1, <2>1, <2>2, ReleasedRefs DEF JInv
<1>10. h # instance
  BY <1>1 DEF JInv, EndingInv, Ending
<1>11. pc'[h] \in Labels \ {"none"}
  BY <1>2 DEF Labels
<1>12. QED
  BY <1>1, <1>2, <1>3, <1>5, <1>6, <1>7, <1>8, <1>9, <1>10, <1>11, MoveInv

LEMMA PushSentinelRequests == ASSUME IInv, JInv, PushSentinel PROVE JInv'
<1>0. PICK h \in Clients : h = thiz
  BY Disjoint DEF PushSentinel, IInv, Types1, OwnerInv, Destroying
<1>1. /\ main = "quit" /\ main' = "notify quit"
      /\ requestQueue' = [requestQueue EXCEPT ![h] = Append(@, Sentinel)]
      /\ UNCHANGED <<instance, memory, responseQueue, request, functions, batch, answering, pc,
                     held, refs, responseRefs, owner, sent, answered>>
  BY <1>0 DEF PushSentinel, client, posts, counts, history
<1>2. requestQueue[h] \in Seq(Queued \cup {Sentinel}) /\ Sentinel \in Queued \cup {Sentinel}
  BY DEF JInv, Types2
<1>3. /\ Append(requestQueue[h], Sentinel) \in Seq(Queued \cup {Sentinel})
      /\ Range(Append(requestQueue[h], Sentinel)) = Range(requestQueue[h]) \cup {Sentinel}
      /\ DistinctIn(Append(requestQueue[h], Sentinel), Queued)
  <2>1. Append(requestQueue[h], Sentinel) \in Seq(Queued \cup {Sentinel})
    BY <1>2, AppendProperties
  <2>2. DistinctIn(requestQueue[h], Queued) /\ Sentinel \notin Queued
    BY SentinelApart DEF JInv, PlaceInv, InPlace
  <2>3. QED
    BY <1>2, <2>1, <2>2, Appended
<1>4. /\ requestQueue'[h] = Append(requestQueue[h], Sentinel)
      /\ \A g \in Clients \ {h} : requestQueue'[g] = requestQueue[g]
  BY <1>1 DEF JInv, Types2
<1>5. instance = None /\ memory[h] = "alive" /\ answering = None
  BY <1>0, <1>1 DEF IInv, OwnerInv, Restarting, Destroying, JInv, AnsweredInv
<1>6. \A g \in Clients : \A q \in Queued :
         q \in Range(requestQueue'[g]) <=> q \in Range(requestQueue[g])
  <2>1. ASSUME NEW q \in Queued PROVE q \in Range(requestQueue'[h]) <=> q \in Range(requestQueue[h])
    BY <1>3, <1>4, SentinelApart
  <2>2. QED
    BY <1>4, <2>1
<1>7. Types2'
  <2>1. requestQueue' \in [Clients -> Seq(Queued \cup {Sentinel})]
    BY <1>1, <1>3, <1>4 DEF JInv, Types2
  <2>2. QED
    BY <1>1, <2>1 DEF JInv, Types2
<1>8. PlaceInv'
  <2>1. ASSUME NEW g \in Clients PROVE InPlace(g)'
    <3>1. InPlace(g) /\ DistinctIn(requestQueue'[g], Queued)
      BY <1>3, <1>4 DEF JInv, PlaceInv, InPlace
    <3>2. /\ responseQueue'[g] = responseQueue[g] /\ request'[g] = request[g]
          /\ answered'[g] = answered[g] /\ owner' = owner
      BY <1>1
    <3>3. \A q \in Queued : q \in Range(requestQueue'[g]) <=> q \in Range(requestQueue[g])
      BY <1>6
    <3>4. QED
      BY <3>1, <3>2, <3>3 DEF InPlace
  <2>2. QED
    BY <2>1 DEF PlaceInv
<1>9. WorkInv' /\ EndingInv'
  BY <1>1, <1>4, <1>5 DEF JInv, WorkInv, EndingInv
<1>10. AloneInv'
  BY <1>1, AloneStay
<1>11. AnsweredInv'
  BY <1>1, <1>5 DEF JInv, AnsweredInv
<1>12. \A q \in Requests : /\ Pending(q)' <=> Pending(q)
                           /\ Waiting(q)' <=> Waiting(q)
                           /\ HasResponse(q)' <=> HasResponse(q)
                           /\ InResponses(q)' <=> InResponses(q)
                           /\ Left(q)' <=> Left(q)
  <2>1. \A q : Pending(q)' <=> Pending(q)
    BY <1>1 DEF Pending, Answered
  <2>2. \A q : /\ HasResponse(q)' <=> HasResponse(q)
               /\ InResponses(q)' <=> InResponses(q)
               /\ Left(q)' <=> Left(q)
    BY <1>1, <2>1 DEF HasResponse, InResponses, Left
  <2>3. \A q \in Queued : Waiting(q)' <=> Waiting(q)
    BY <1>6 DEF Waiting
  <2>4. \A q \in Immediate : ~Waiting(q) /\ ~Waiting(q)'
    BY <1>7, <1>8, Where, WhereNext DEF JInv, WhereInv, Requests
  <2>5. QED
    BY <2>1, <2>2, <2>3, <2>4 DEF Requests
<1>13. HeldInv'
  BY <1>1, <1>12 DEF JInv, HeldInv
<1>14. RefsExact'
  <2>1. ASSUME NEW q \in Requests PROVE RequestCount(q)' /\ ResponseCount(q)'
    BY <1>1, <1>12, CountsStay
  <2>2. QED
    BY <2>1 DEF RefsExact
<1>15. InOrderOnce'
  BY <1>1, <1>5 DEF InOrderOnce
<1>16. QED
  BY <1>7, <1>8, <1>9, <1>10, <1>11, <1>13, <1>14, <1>15 DEF JInv

------------------------------------------------------------------------------
(* The main thread answers.                                                *)
LEMMA AnswerOne ==
  ASSUME Types2, NEW x \in Threads, NEW r \in Requests,
         answered' = [answered EXCEPT ![x] = Append(@, r)]
  PROVE  /\ answered' \in [Threads -> Seq(Requests)]
         /\ answered'[x] = Append(answered[x], r)
         /\ Range(answered'[x]) = Range(answered[x]) \cup {r}
         /\ \A y \in Threads \ {x} : answered'[y] = answered[y]
         /\ \A q : Answered(q)' <=> Answered(q) \/ q = r
<1>1. answered[x] \in Seq(Requests)
  BY DEF Types2
<1>2. Append(answered[x], r) \in Seq(Requests)
  BY <1>1, AppendProperties
<1>3. answered'[x] = Append(answered[x], r) /\ \A y \in Threads \ {x} : answered'[y] = answered[y]
  BY DEF Types2
<1>4. answered' \in [Threads -> Seq(Requests)]
  BY <1>2 DEF Types2
<1>5. Range(Append(answered[x], r)) = Range(answered[x]) \cup {r}
  BY <1>1, Appended
<1>6. \A q : Answered(q)' <=> Answered(q) \/ q = r
  BY <1>3, <1>5 DEF Answered
<1>7. QED
  BY <1>3, <1>4, <1>5, <1>6

(* What the functions taken from the batch leave to AloneInv.              *)
LEMMA BatchTaken ==
  ASSUME IInv, JInv, batch # <<>>, batch' = Tail(batch), UNCHANGED <<functions, owner, pc>>,
         \A x \in Immediate :
           \/ answered'[x] = answered[x]
           \/ x = Head(batch)
  PROVE  AloneInv'
<1>1. batch \in Seq(Threads)
  BY DEF IInv, Types1
<1>2. DistinctIn(batch, Immediate)
  BY DEF JInv, AloneInv
<1>3. /\ Range(batch) = Range(batch') \cup {Head(batch)}
      /\ DistinctIn(batch', Immediate)
      /\ Head(batch) \in Immediate => Head(batch) \notin Range(batch')
  BY <1>1, <1>2, Taken
<1>4. DistinctIn(functions', Immediate)
  BY DEF JInv, AloneInv
<1>5. ASSUME NEW x \in Immediate
      PROVE  /\ pc'[x] = "none" <=> owner'[x] = None
             /\ x \in Range(functions') \cup Range(batch') \cup Range(answered'[x]) =>
                  pc'[x] \in {"leave", "done"}
             /\ x \in Range(functions') => x \notin Range(batch')
             /\ x \in Range(answered'[x]) => x \notin Range(functions') \cup Range(batch')
  <2>1. /\ pc[x] = "none" <=> owner[x] = None
        /\ x \in Range(functions) \cup Range(batch) \cup Range(answered[x]) =>
             pc[x] \in {"leave", "done"}
        /\ x \in Range(functions) => x \notin Range(batch)
        /\ x \in Range(answered[x]) => x \notin Range(functions) \cup Range(batch)
    BY DEF JInv, AloneInv
  <2>2. CASE x = Head(batch)
    <3>1. x \in Range(batch) /\ x \notin Range(batch')
      BY <1>3, <2>2
    <3>2. QED
      BY <2>1, <3>1
  <2>3. CASE x # Head(batch)
    <3>1. answered'[x] = answered[x] /\ (x \in Range(batch') => x \in Range(batch))
      BY <1>3, <2>3
    <3>2. QED
      BY <2>1, <3>1
  <2>4. QED
    BY <2>2, <2>3
<1>6. QED
  BY <1>3, <1>4, <1>5 DEF AloneInv

LEMMA AloneAnswered ==
  ASSUME IInv, JInv, RunFunction, Head(batch) \in Immediate
  PROVE  JInv'
<1>0. PICK x \in Immediate : x = Head(batch)
  OBVIOUS
<1>1. /\ x \in Requests /\ x \in Threads /\ x \notin Queued /\ x \notin Clients /\ x # None
      /\ Requests = Queued \cup Immediate /\ Threads = Clients \cup Immediate
  BY HttpClientAssumption DEF Requests, Threads
<1>2. /\ main = "run" /\ main' = "callback" /\ batch # <<>> /\ batch' = Tail(batch)
      /\ answering' = x /\ answered' = [answered EXCEPT ![x] = Append(@, x)]
      /\ UNCHANGED <<instance, memory, requestQueue, responseQueue, request, functions, pc,
                     refs, responseRefs, held, owner, sent>>
  BY <1>0, <1>1 DEF RunFunction, client, counts
<1>3. answering = None
  BY <1>2 DEF JInv, AnsweredInv
<1>4. /\ answered' \in [Threads -> Seq(Requests)]
      /\ Range(answered'[x]) = Range(answered[x]) \cup {x}
      /\ \A y \in Threads \ {x} : answered'[y] = answered[y]
      /\ \A q : Answered(q)' <=> Answered(q) \/ q = x
  BY <1>1, <1>2, AnswerOne DEF JInv
<1>5. \A h \in Clients : h \in Threads \ {x}
  BY <1>1
<1>6. x \in Range(batch)
  <2>1. batch \in Seq(Threads)
    BY DEF IInv, Types1
  <2>2. DistinctIn(batch, Immediate)
    BY DEF JInv, AloneInv
  <2>3. Range(batch) = Range(Tail(batch)) \cup {Head(batch)}
    BY <1>2, <2>1, <2>2, Taken
  <2>4. QED
    BY <1>0, <2>3
<1>7. owner[x] # None /\ ~Answered(x)
  <2>1. pc[x] # "none" /\ owner[x] # None /\ x \notin Range(answered[x])
    BY <1>6 DEF JInv, AloneInv
  <2>2. AnsweredBy
    BY ByWhom DEF JInv
  <2>3. QED
    BY <1>1, <2>1, <2>2 DEF AnsweredBy
<1>8. Types2'
  BY <1>1, <1>2, <1>4 DEF JInv, Types2
<1>9. PlaceInv'
  <2>1. \A h \in Clients : answered'[h] = answered[h]
    BY <1>4, <1>5
  <2>2. QED
    BY <1>2, <2>1 DEF JInv, PlaceInv, InPlace
<1>10. WorkInv' /\ EndingInv'
  <2>1. \A h \in Clients : answered'[h] = answered[h]
    BY <1>4, <1>5
  <2>2. QED
    BY <1>2, <2>1 DEF JInv, WorkInv, EndingInv
<1>11. AloneInv'
  BY <1>0, <1>1, <1>2, <1>4, BatchTaken
<1>12. AnsweredInv'
  <2>1. \A h \in Clients : answered'[h] \in Seq(Queued)
    BY <1>4, <1>5 DEF JInv, AnsweredInv
  <2>2. \A y \in Immediate : Range(answered'[y]) \subseteq {y}
    BY <1>1, <1>4 DEF JInv, AnsweredInv
  <2>3. QED
    BY <1>2, <1>4, <2>1, <2>2 DEF AnsweredInv
<1>13. ASSUME NEW q \in Requests
       PROVE  /\ Pending(q)' <=> Pending(q)
              /\ Waiting(q)' <=> Waiting(q)
              /\ HasResponse(q)' <=> HasResponse(q)
              /\ InResponses(q)' <=> InResponses(q)
              /\ Left(q)' <=> Left(q)
  <2>1. Pending(q)' <=> Pending(q)
    BY <1>1, <1>2, <1>3, <1>4, <1>7, Disjoint DEF Pending
  <2>2. /\ Waiting(q)' <=> Waiting(q)
        /\ InResponses(q)' <=> InResponses(q)
        /\ Left(q)' <=> Left(q)
    BY <1>2, <2>1 DEF Waiting, InResponses, Left
  <2>3. CASE q \in Immediate
    BY <2>1, <2>2, <2>3 DEF HasResponse
  <2>4. CASE q \in Queued
    <3>1. q # None /\ q # x /\ q \notin Immediate
      BY <1>1, <2>4, SentinelApart, HttpClientAssumption
    <3>2. HasResponse(q)' <=> HasResponse(q)
      BY <1>2, <1>3, <2>2, <3>1 DEF HasResponse
    <3>3. QED
      BY <2>1, <2>2, <3>2
  <2>5. QED
    BY <1>1, <2>3, <2>4
<1>14. HeldInv'
  BY <1>2, <1>13 DEF JInv, HeldInv
<1>15. RefsExact'
  <2>1. ASSUME NEW q \in Requests PROVE RequestCount(q)' /\ ResponseCount(q)'
    BY <1>2, <1>13, CountsStay
  <2>2. QED
    BY <2>1 DEF RefsExact
<1>16. InOrderOnce'
  <2>1. instance # None => answered'[instance] = answered[instance]
    BY <1>4, <1>5 DEF IInv, Types1
  <2>2. QED
    BY <1>2, <2>1 DEF JInv, InOrderOnce
<1>17. QED
  BY <1>8, <1>9, <1>10, <1>11, <1>12, <1>14, <1>15, <1>16 DEF JInv

LEMMA ClientAnswered ==
  ASSUME IInv, JInv, RunFunction, NEW h \in Clients, h = Head(batch), responseQueue[h] # <<>>
  PROVE  JInv'
<1>0. PICK r : r = Head(responseQueue[h])
  OBVIOUS
<1>1. /\ h \in Threads /\ h \notin Immediate
      /\ Requests = Queued \cup Immediate /\ Threads = Clients \cup Immediate
  BY HttpClientAssumption DEF Requests, Threads
<1>2. responseQueue[h] \in Seq(Queued) /\ InPlace(h) /\ DistinctIn(responseQueue[h], Queued)
  BY DEF JInv, Types2, PlaceInv, InPlace
<1>3. /\ r \in Queued /\ Tail(responseQueue[h]) \in Seq(Queued)
      /\ Range(responseQueue[h]) = Range(Tail(responseQueue[h])) \cup {r}
      /\ DistinctIn(Tail(responseQueue[h]), Queued)
      /\ r \notin Range(Tail(responseQueue[h]))
  BY <1>0, <1>2, Taken
<1>4. r # None /\ r \in Requests /\ r \notin Immediate
  BY <1>1, <1>3, SentinelApart, HttpClientAssumption
<1>5. /\ main = "run" /\ main' = "callback" /\ batch # <<>> /\ batch' = Tail(batch)
      /\ answering' = r /\ answered' = [answered EXCEPT ![h] = Append(@, r)]
      /\ responseQueue' = [responseQueue EXCEPT ![h] = Tail(@)]
      /\ responseRefs' = Released({r}, responseRefs)
      /\ refs' = Released({q \in {r} : responseRefs[q] = 1}, refs)
      /\ UNCHANGED <<instance, memory, requestQueue, request, functions, pc, held, owner, sent>>
  BY <1>0, <1>1, <1>4 DEF RunFunction, ReleaseResponses, client
<1>6. answering = None
  BY <1>5 DEF JInv, AnsweredInv
<1>7. /\ answered' \in [Threads -> Seq(Requests)]
      /\ answered'[h] = Append(answered[h], r)
      /\ Range(answered'[h]) = Range(answered[h]) \cup {r}
      /\ \A y \in Threads \ {h} : answered'[y] = answered[y]
      /\ \A q : Answered(q)' <=> Answered(q) \/ q = r
  BY <1>1, <1>4, <1>5, AnswerOne DEF JInv
<1>8. /\ responseQueue'[h] = Tail(responseQueue[h])
      /\ \A g \in Clients \ {h} : responseQueue'[g] = responseQueue[g] /\ answered'[g] = answered[g]
  BY <1>1, <1>5, <1>7 DEF JInv, Types2
<1>9. owner[r] = h /\ ~Answered(r)
  BY <1>3, NotAnswering
<1>10. Types2'
  <2>1. responseQueue' \in [Clients -> Seq(Queued)]
    BY <1>3, <1>5 DEF JInv, Types2
  <2>2. QED
    BY <1>4, <1>5, <1>7, <2>1, ReleasedRefs DEF JInv, Types2
<1>11. PlaceInv'
  <2>1. ASSUME NEW g \in Clients, g # h PROVE InPlace(g)'
    <3>1. InPlace(g)
      BY DEF JInv, PlaceInv
    <3>2. /\ requestQueue'[g] = requestQueue[g] /\ responseQueue'[g] = responseQueue[g]
          /\ request'[g] = request[g] /\ answered'[g] = answered[g] /\ owner' = owner
      BY <1>5, <1>8, <2>1
    <3>3. QED
      BY <3>1, <3>2 DEF InPlace
  <2>2. InPlace(h)'
    <3>1. requestQueue'[h] = requestQueue[h] /\ request'[h] = request[h] /\ owner' = owner
      BY <1>5
    <3>2. /\ DistinctIn(responseQueue'[h], Queued)
          /\ \A q : q \in Range(responseQueue'[h]) <=> q \in Range(responseQueue[h]) /\ q # r
          /\ \A q : q \in Range(answered'[h]) <=> q \in Range(answered[h]) \/ q = r
      BY <1>3, <1>7, <1>8
    <3>3. r \in Range(responseQueue[h])
      BY <1>3
    <3>4. QED
      BY <1>2, <1>3, <3>1, <3>2, <3>3 DEF InPlace
  <2>3. QED
    BY <2>1, <2>2 DEF PlaceInv
<1>12. WorkInv' /\ EndingInv'
  <2>1. memory[h] # "none"
    BY DEF JInv, WorkInv
  <2>2. QED
    BY <1>5, <1>8, <2>1 DEF JInv, WorkInv, EndingInv
<1>13. AloneInv'
  <2>1. \A x \in Immediate : answered'[x] = answered[x]
    BY <1>1, <1>7
  <2>2. QED
    BY <1>5, <2>1, BatchTaken
<1>14. AnsweredInv'
  <2>1. answered'[h] \in Seq(Queued)
    <3>1. answered[h] \in Seq(Queued)
      BY DEF JInv, AnsweredInv
    <3>2. Append(answered[h], r) \in Seq(Queued)
      BY <1>3, <3>1, AppendProperties
    <3>3. QED
      BY <1>7, <3>2
  <2>2. \A x \in Immediate : Range(answered'[x]) \subseteq {x}
    BY <1>1, <1>7 DEF JInv, AnsweredInv
  <2>3. \A g \in Clients : answered'[g] \in Seq(Queued)
    BY <1>8, <2>1 DEF JInv, AnsweredInv
  <2>4. QED
    BY <1>5, <1>7, <2>2, <2>3 DEF AnsweredInv
<1>15. ASSUME NEW q \in Requests
       PROVE  /\ Pending(q)' <=> Pending(q)
              /\ Waiting(q)' <=> Waiting(q)
              /\ HasResponse(q)' <=> HasResponse(q)
              /\ InResponses(q)' <=> InResponses(q) /\ q # r
              /\ Left(q)' <=> Left(q)
  <2>1. Pending(q)' <=> Pending(q)
    <3>1. h # None /\ q # None
      BY Disjoint
    <3>2. QED
      BY <1>4, <1>5, <1>6, <1>7, <1>9, <3>1 DEF Pending
  <2>2. (Waiting(q)' <=> Waiting(q)) /\ (Left(q)' <=> Left(q))
    BY <1>5, <2>1 DEF Waiting, Left
  <2>3. CASE q \in Immediate
    <3>1. ~InResponses(q) /\ ~InResponses(q)'
      BY <1>10, <1>11, <2>3, Where, WhereNext DEF JInv, WhereInv
    <3>2. QED
      BY <2>1, <2>2, <2>3, <3>1 DEF HasResponse
  <2>4. CASE q \in Queued
    <3>1. q # None /\ q \notin Immediate
      BY <2>4, SentinelApart, HttpClientAssumption
    <3>2. \A g \in Clients : q \in Range(responseQueue[g]) <=>
                               q \in Range(responseQueue'[g]) \/ (g = h /\ q = r)
      BY <1>3, <1>8
    <3>3. HasResponse(q)' <=> HasResponse(q)
      BY <1>5, <1>6, <3>1, <3>2 DEF HasResponse, InResponses
    <3>4. \A g \in Clients : r \notin Range(responseQueue'[g])
      BY <1>3, <1>8, <1>9 DEF JInv, PlaceInv, InPlace
    <3>5. InResponses(q)' <=> InResponses(q) /\ q # r
      BY <3>2, <3>4 DEF InResponses
    <3>6. QED
      BY <2>1, <2>2, <3>3, <3>5
  <2>5. QED
    BY <1>1, <2>3, <2>4
<1>16. HeldInv'
  BY <1>5, <1>15 DEF JInv, HeldInv
<1>17. RefsExact'
  <2>1. HasResponse(r) /\ InResponses(r) /\ ~InResponses(r)'
    <3>1. r \in Range(responseQueue[h])
      BY <1>3
    <3>2. InResponses(r)
      BY <3>1 DEF InResponses
    <3>3. QED
      BY <1>4, <1>15, <3>2 DEF HasResponse
  <2>2. responseRefs[r] = 2
    BY <1>4, <2>1 DEF JInv, RefsExact, ResponseCount, One
  <2>3. {q \in {r} : responseRefs[q] = 1} = {}
    BY <2>2
  <2>4. \A q \in Requests : /\ refs'[q] = refs[q]
                            /\ responseRefs'[q] = IF q = r THEN 1 ELSE responseRefs[q]
    BY <1>5, <2>2, <2>3, ReleasedRefs DEF JInv
  <2>5. RequestCount(r)' /\ ResponseCount(r)'
    <3>1. RequestCount(r) /\ refs'[r] = refs[r] /\ responseRefs'[r] = 1 /\ held' = held
      BY <1>4, <1>5, <2>4 DEF JInv, RefsExact
    <3>2. HasResponse(r)' /\ (Pending(r)' <=> Pending(r)) /\ (Waiting(r)' <=> Waiting(r))
      BY <1>4, <1>15, <2>1
    <3>3. RequestCount(r)'
      BY <2>2, <3>1, <3>2 DEF RequestCount, One
    <3>4. ResponseCount(r)'
      BY <2>1, <3>1, <3>2 DEF ResponseCount, One
    <3>5. QED
      BY <3>3, <3>4
  <2>6. ASSUME NEW q \in Requests, q # r PROVE RequestCount(q)' /\ ResponseCount(q)'
    BY <1>5, <1>15, <2>4, <2>6, CountsStay
  <2>7. QED
    BY <2>5, <2>6 DEF RefsExact
<1>18. InOrderOnce'
  <2>1. CASE instance = h
    <3>1. PICK s, t : s = answered[h] /\ t = responseQueue[h]
      OBVIOUS
    <3>2. s \in Seq(Queued) /\ t \in Seq(Queued) /\ t # <<>>
      BY <1>2, <3>1 DEF JInv, AnsweredInv
    <3>3. Append(s, Head(t)) \o Tail(t) = s \o t
      BY <3>2, Moved
    <3>4. answered'[h] \o responseQueue'[h] = answered[h] \o responseQueue[h]
      BY <1>0, <1>7, <1>8, <3>1, <3>3
    <3>5. QED
      BY <1>5, <2>1, <3>4 DEF JInv, InOrderOnce
  <2>2. CASE instance # h
    <3>1. instance # None => /\ responseQueue'[instance] = responseQueue[instance]
                             /\ answered'[instance] = answered[instance]
      BY <1>8, <2>2 DEF IInv, Types1
    <3>2. QED
      BY <1>5, <3>1 DEF JInv, InOrderOnce
  <2>3. QED
    BY <2>1, <2>2
<1>19. QED
  BY <1>10, <1>11, <1>12, <1>13, <1>14, <1>16, <1>17, <1>18 DEF JInv

LEMMA RunFunctionRequests == ASSUME IInv, JInv, RunFunction PROVE JInv'
<1>1. batch # <<>> /\ Head(batch) \in Threads
  BY RangeTail DEF RunFunction, IInv, Types1
<1>2. CASE Head(batch) \in Immediate
  BY <1>2, AloneAnswered
<1>3. ASSUME NEW h \in Clients, h = Head(batch) PROVE JInv'
  <2>1. CASE responseQueue[h] # <<>>
    BY <1>3, <2>1, ClientAnswered
  <2>2. CASE responseQueue[h] = <<>>
    <3>1. h \notin Immediate
      BY HttpClientAssumption
    <3>2. /\ main = "run" /\ main' = "callback" /\ batch' = Tail(batch)
          /\ answering' = None /\ answered' = answered
          /\ UNCHANGED <<instance, memory, requestQueue, responseQueue, request, functions, pc,
                         refs, responseRefs, held, owner, sent>>
      BY <1>3, <2>2, <3>1 DEF RunFunction, client, counts
    <3>3. answering = None
      BY <3>2 DEF JInv, AnsweredInv
    <3>4. AloneInv'
      BY <1>1, <3>2, BatchTaken
    <3>5. InOrderOnce' /\ EndingInv'
      BY <3>2, OrderStays, EndingStays
    <3>6. QED
      BY <3>2, <3>3, <3>4, <3>5, RequestsStay
  <2>3. QED
    BY <2>1, <2>2
<1>4. QED
  BY <1>1, <1>2, <1>3 DEF Threads

LEMMA ReturnRequests == ASSUME IInv, JInv, Return PROVE JInv'
<1>1. /\ main = "callback" /\ main' = "run" /\ answering' = None
      /\ held' \in {held, held \ {answering}}
      /\ responseRefs' = Released({answering}, responseRefs)
      /\ refs' = [r \in Requests |->
                    IF r # answering THEN refs[r]
                    ELSE refs[r] - One(r \in held \ held') - One(responseRefs[r] = 1) - 1]
      /\ UNCHANGED <<instance, memory, requestQueue, responseQueue, request, functions, batch,
                     pc, owner, sent, answered>>
  BY DEF Return, client, queues, posts, history
<1>2. Types2'
  <2>1. refs' \in [Requests -> Int]
    <3>1. \A r \in Requests :
            (IF r # answering THEN refs[r]
             ELSE refs[r] - One(r \in held \ held') - One(responseRefs[r] = 1) - 1) \in Int
      BY DEF JInv, Types2, One
    <3>2. QED
      BY <1>1, <3>1
  <2>2. responseRefs' \in [Requests -> Int]
    BY <1>1, ReleasedRefs DEF JInv
  <2>3. QED
    BY <1>1, <2>1, <2>2 DEF JInv, Types2
<1>3. PlaceInv' /\ WorkInv' /\ EndingInv'
  <2>1. PlaceInv'
    BY <1>1, Zenon DEF JInv, PlaceInv, InPlace
  <2>2. WorkInv' /\ EndingInv'
    BY <1>1 DEF JInv, WorkInv, EndingInv
  <2>3. QED
    BY <2>1, <2>2
<1>4. AloneInv' /\ InOrderOnce'
  BY <1>1, AloneStay, OrderStays
<1>5. AnsweredInv'
  BY <1>1 DEF JInv, AnsweredInv
<1>6. \A r : Answered(r)' <=> Answered(r)
  BY <1>1 DEF Answered
<1>7. ASSUME NEW r \in Requests
      PROVE  /\ Waiting(r)' <=> Waiting(r)
             /\ Pending(r)' <=> Pending(r) /\ r # answering
             /\ HasResponse(r)' <=> HasResponse(r) /\ r # answering
             /\ r = answering => Pending(r) /\ HasResponse(r) /\ r \in held
             /\ InResponses(r)' <=> InResponses(r)
             /\ r = answering => ~InResponses(r)
             /\ r # answering => (Left(r) => Left(r)')
  <2>1. Waiting(r)' <=> Waiting(r)
    BY <1>1 DEF Waiting
  <2>2. r # None
    BY Disjoint
  <2>3. r = answering => Answered(r)
    BY <2>2 DEF JInv, AnsweredInv
  <2>4. r = answering => owner[r] # None
    BY NotSent
  <2>5. r = answering => Pending(r) /\ r \in held
    BY <2>4 DEF Pending, JInv, HeldInv
  <2>6. Pending(r)' <=> Pending(r) /\ r # answering
    BY <1>1, <1>6, <2>2, <2>3 DEF Pending
  <2>7. HasResponse(r)' <=> HasResponse(r) /\ r # answering
    <3>1. CASE r \in Immediate
      BY <2>6, <3>1 DEF HasResponse
    <3>2. CASE r \in Queued
      <4>1. \A h \in Clients : r \in Range(responseQueue[h]) \/ r = request[h] => r # answering
        BY <3>2, NotAnswering
      <4>2. r \notin Immediate
        BY <3>2, HttpClientAssumption
      <4>3. HasResponse(r) <=> \/ answering = r
                               \/ \E h \in Clients : \/ r \in Range(responseQueue[h])
                                                     \/ request[h] = r /\ pc[h] = "respond"
        BY <4>2 DEF HasResponse, InResponses
      <4>4. HasResponse(r)' <=> \E h \in Clients : \/ r \in Range(responseQueue[h])
                                                   \/ request[h] = r /\ pc[h] = "respond"
        BY <1>1, <2>2, <4>2 DEF HasResponse, InResponses
      <4>5. QED
        BY <4>1, <4>3, <4>4
    <3>3. QED
      BY <3>1, <3>2 DEF Requests
  <2>8. r = answering => HasResponse(r)
    BY <2>5 DEF HasResponse
  <2>9. InResponses(r)' <=> InResponses(r)
    BY <1>1 DEF InResponses
  <2>10. r = answering => ~InResponses(r)
    <3>1. CASE r \in Immediate
      BY <3>1, Where DEF JInv, WhereInv
    <3>2. CASE r \in Queued
      BY <3>2, NotAnswering DEF InResponses
    <3>3. QED
      BY <3>1, <3>2 DEF Requests
  <2>11. r # answering => (Left(r) => Left(r)')
    BY <1>1, <2>6 DEF Left
  <2>12. QED
    BY <2>1, <2>5, <2>6, <2>7, <2>8, <2>9, <2>10, <2>11
<1>8. HeldInv'
  BY <1>1, <1>7 DEF JInv, HeldInv
<1>9. RefsExact'
  <2>1. ASSUME NEW r \in Requests PROVE RequestCount(r)' /\ ResponseCount(r)'
    <3>1. RequestCount(r) /\ ResponseCount(r)
      BY DEF JInv, RefsExact
    <3>2. CASE r = answering
      <4>1. responseRefs[r] = 1
        BY <1>7, <3>1, <3>2 DEF ResponseCount, One
      <4>2. responseRefs'[r] = 0
        BY <1>1, <3>2, <4>1, ReleasedRefs DEF JInv
      <4>3. refs'[r] = refs[r] - One(r \in held \ held') - One(responseRefs[r] = 1) - 1
        BY <1>1, <3>2
      <4>4. refs[r] \in Int
        BY DEF JInv, Types2
      <4>5. RequestCount(r)'
        BY <1>1, <1>7, <3>1, <3>2, <4>1, <4>2, <4>3, <4>4 DEF RequestCount, One
      <4>6. ResponseCount(r)'
        BY <1>7, <3>2, <4>2 DEF ResponseCount
      <4>7. QED
        BY <4>5, <4>6
    <3>3. CASE r # answering
      <4>1. /\ refs'[r] = refs[r] /\ (r \in held' <=> r \in held)
            /\ responseRefs'[r] = responseRefs[r]
        BY <1>1, <3>3, ReleasedRefs DEF JInv
      <4>2. QED
        BY <1>7, <3>3, <4>1, CountsStay
    <3>4. QED
      BY <3>2, <3>3
  <2>2. QED
    BY <2>1 DEF RefsExact
<1>10. QED
  BY <1>2, <1>3, <1>4, <1>5, <1>8, <1>9 DEF JInv

------------------------------------------------------------------------------
LEMMA InitRequests == Init => JInv
<1> SUFFICES ASSUME Init PROVE JInv
  OBVIOUS
<1>1. /\ instance = None /\ answering = None /\ functions = <<>> /\ batch = <<>> /\ held = {}
      /\ pc = [x \in Threads |-> "none"] /\ owner = [r \in Requests |-> None]
      /\ refs = [r \in Requests |-> 0] /\ responseRefs = [r \in Requests |-> 0]
      /\ memory = [h \in Clients |-> "none"]
      /\ request = [h \in Clients |-> None]
      /\ requestQueue = [h \in Clients |-> <<>>] /\ responseQueue = [h \in Clients |-> <<>>]
      /\ sent = [h \in Clients |-> <<>>] /\ answered = [x \in Threads |-> <<>>]
  BY DEF Init
<1>2. /\ Range(<<>>) = {} /\ DistinctIn(<<>>, Queued) /\ DistinctIn(<<>>, Immediate)
  BY Nothing
<1>3. Types2
  BY <1>1, EmptySeq DEF Types2
<1>4. PlaceInv
  <2>1. ASSUME NEW h \in Clients PROVE InPlace(h)
    <3>1. requestQueue[h] = <<>> /\ responseQueue[h] = <<>> /\ answered[h] = <<>> /\ request[h] = None
      BY <1>1 DEF Threads
    <3>2. \A q \in Queued : q # None
      BY SentinelApart
    <3>3. QED
      BY <1>2, <3>1, <3>2 DEF InPlace
  <2>2. QED
    BY <2>1 DEF PlaceInv
<1>5. WorkInv /\ EndingInv
  BY <1>1 DEF WorkInv, EndingInv, Ending, Threads
<1>6. AloneInv
  <2>1. \A x \in Immediate : pc[x] = "none" /\ owner[x] = None /\ answered[x] = <<>>
    BY <1>1 DEF Threads, Requests
  <2>2. QED
    BY <1>1, <1>2, <2>1 DEF AloneInv
<1>7. \A r : ~Answered(r) /\ ~Waiting(r)
  BY <1>1, <1>2 DEF Answered, Waiting
<1>8. AnsweredInv
  <2>1. (\A h \in Clients : answered[h] = <<>>) /\ (\A x \in Immediate : answered[x] = <<>>)
    BY <1>1 DEF Threads
  <2>2. QED
    BY <1>1, <1>2, <2>1, EmptySeq DEF AnsweredInv
<1>9. \A r \in Requests : ~Pending(r) /\ ~HasResponse(r)
  <2>1. \A r \in Requests : ~Pending(r) /\ r # None
    BY <1>1, Disjoint DEF Pending
  <2>2. QED
    BY <1>1, <1>2, <2>1 DEF HasResponse, InResponses, Threads
<1>10. HeldInv
  BY <1>1, <1>9 DEF HeldInv
<1>11. InOrderOnce
  BY <1>1 DEF InOrderOnce
<1>12. RefsExact
  BY <1>1, <1>7, <1>9 DEF RefsExact, RequestCount, ResponseCount, One
<1>13. QED
  BY <1>3, <1>4, <1>5, <1>6, <1>8, <1>10, <1>11, <1>12 DEF JInv

LEMMA NextRequests == IInv /\ JInv /\ [Next]_vars => JInv'
<1> SUFFICES ASSUME IInv, JInv, [Next]_vars PROVE JInv'
  OBVIOUS
<1>1. CASE GetInstance \/ DestroyInstance
  BY <1>1, InstanceInv
<1>2. ASSUME NEW r \in Queued, Send(r) PROVE JInv'
  BY <1>2, SendRequests
<1>3. ASSUME NEW r \in Immediate, SendImmediate(r) PROVE JInv'
  BY <1>3, SendImmediateRequests
<1>4. CASE MainThread
  <2>1. CASE Notify \/ NotifyQuit \/ DecreaseOwner \/ EndUpdate
    BY <2>1, QuietInv
  <2>2. CASE Update \/ RemoveFunctions
    BY <2>2, FunctionsTaken
  <2>3. CASE PushSentinel
    BY <2>3, PushSentinelRequests
  <2>4. CASE RunFunction \/ Return
    BY <2>4, RunFunctionRequests, ReturnRequests
  <2>5. QED
    BY <1>4, <2>1, <2>2, <2>3, <2>4 DEF MainThread, Restart
<1>5. ASSUME NEW h \in Clients, NetworkThread(h) \/ SpuriousWakeup(h) PROVE JInv'
  <2>1. CASE Sleep(h) \/ SpuriousWakeup(h)
    BY <2>1, QuietInv
  <2>2. CASE TakeRequest(h) \/ PushResponse(h) \/ ClearRequests(h) \/ ClearResponses(h)
    BY <2>2, TakeRequestRequests, PushResponseRequests, ClearRequestsRequests,
       ClearResponsesRequests
  <2>3. QED
    BY <1>5, <2>1, <2>2 DEF NetworkThread
<1>6. ASSUME NEW x \in Threads, NetworkThreadAlone(x) PROVE JInv'
  <2>1. CASE IncreaseThreadCount(x) \/ Leave(x)
    BY <2>1, QuietInv
  <2>2. CASE ProcessResponse(x) \/ Post(x)
    BY <2>2, ProcessRequests, PostInv
  <2>3. QED
    BY <1>6, <2>1, <2>2 DEF NetworkThreadAlone
<1>7. CASE UNCHANGED vars
  BY <1>7, QuietInv
<1>8. QED
  BY <1>1, <1>2, <1>3, <1>4, <1>5, <1>6, <1>7 DEF Next

------------------------------------------------------------------------------
(* Where every request is, who answered it and who refers to it (JInv),    *)
(* from the invariant of the threads (IInv), in every reachable state.     *)
THEOREM RequestsInvariance == ASSUME CountedInTime PROVE Spec => []JInv
<1>1. Init => JInv
  BY InitRequests
<1>2. IInv /\ JInv /\ [Next]_vars => JInv'
  BY NextRequests
<1>3. Spec => []IInv
  BY Invariance
<1>4. QED
  BY <1>1, <1>2, <1>3, PTL DEF Spec

(* However the network thread, the main thread and the threads of          *)
(* sendImmediate interleave: a live client's requests are, in the order    *)
(* they were sent, those it has answered, those whose response waits, the  *)
(* one being worked on and those in the queue; none is lost or answered    *)
(* twice (networkThread, dispatchResponseCallbacks).                       *)
THEOREM AnsweredInOrder == ASSUME CountedInTime PROVE Spec => []InOrderOnce
<1>1. JInv => InOrderOnce
  BY DEF JInv
<1>2. QED
  BY <1>1, RequestsInvariance, PTL

(* No request and no response is released too early or kept too long, but  *)
(* for those of a client destroyed before it answers, for which it says    *)
(* exactly what is kept: their counts are those of who refers to them,     *)
(* over send, the two queues, the response and the callback (new, addRef,  *)
(* release, pushBack, erase and clear of the two vectors).                 *)
THEOREM ReferencesExact == ASSUME CountedInTime PROVE Spec => []RefsExact
<1>1. JInv => RefsExact
  BY DEF JInv
<1>2. QED
  BY <1>1, RequestsInvariance, PTL

MainPlaces ==
  main \in {"idle", "notify", "notify in callback", "run", "callback", "quit",
           "notify quit", "decrease", "remove functions"}

(* Every variable has its type: no count, of threads or of references,     *)
(* becomes negative.                                                       *)
THEOREM TypeCorrect == ASSUME CountedInTime PROVE Spec => []TypeOK
<1>1. Init => MainPlaces
  BY DEF Init, MainPlaces
<1>2. MainPlaces /\ [Next]_vars => MainPlaces'
  BY DEF Next, vars, client, queues, posts, counts, history, GetInstance, Send, New,
         SendImmediate, DestroyInstance, MainThread, Notify, Restart, PushSentinel, NotifyQuit,
         DecreaseOwner, RemoveFunctions, Update, RunFunction, Return, EndUpdate, NetworkThread,
         SpuriousWakeup, NetworkThreadAlone, Sleep, TakeRequest, PushResponse, ClearRequests,
         ClearResponses, IncreaseThreadCount, ProcessResponse, Post, Leave, MainPlaces
<1>3. Spec => []MainPlaces
  BY <1>1, <1>2, PTL DEF Spec
<1>4. IInv /\ JInv /\ MainPlaces => TypeOK
  <2> SUFFICES ASSUME IInv, JInv, MainPlaces PROVE TypeOK
    OBVIOUS
  <2>1. threadCount \in [Clients -> Nat]
    <3>1. \A h \in Clients : threadCount[h] \in Nat
      <4>1. ASSUME NEW h \in Clients PROVE threadCount[h] \in Nat
        <5>1. threadCount[h] = Cardinality(Inside(h)) + Owned(h) /\ Owned(h) \in {0, 1}
          BY DEF IInv, CountInv, Owned
        <5>2. Cardinality(Inside(h)) \in Nat
          BY InsideFinite
        <5>3. QED
          BY <5>1, <5>2
      <4>2. QED
        BY <4>1
    <3>2. QED
      BY <3>1 DEF IInv, Types1
  <2>2. refs \in [Requests -> Nat] /\ responseRefs \in [Requests -> Nat]
    <3>1. \A b : One(b) \in Nat
      BY DEF One
    <3>2. ASSUME NEW r \in Requests PROVE refs[r] \in Nat /\ responseRefs[r] \in Nat
      <4>1. RequestCount(r) /\ ResponseCount(r)
        BY DEF JInv, RefsExact
      <4>2. refs[r] \in Nat
        BY <3>1, <4>1 DEF RequestCount
      <4>3. responseRefs[r] \in Nat
        BY <3>1, <4>1 DEF ResponseCount
      <4>4. QED
        BY <4>2, <4>3
    <3>3. QED
      BY <3>2 DEF JInv, Types2
  <2>3. QED
    BY <2>1, <2>2 DEF IInv, Types1, JInv, Types2, TypeOK, MainPlaces
<1>5. QED
  BY <1>3, <1>4, Invariance, RequestsInvariance, PTL
==============================================================================
