---------------------------- MODULE MessageQueue ----------------------------
(***************************************************************************)
(* The threads of cc::MessageQueue (cocos/base/threading/MessageQueue.cpp):*)
(* a producer (the main thread) that writes messages and kicks, and the    *)
(* detached consumer thread that runs consumerThreadLoop.  They share the  *)
(* written-message counter, the condition variable _event (EventCV), the   *)
(* counting semaphore on the producer's stack (EventSem) and the flag      *)
(* _workerAttached.  The producer drives the mode as                       *)
(* DeviceAgent::setMultithreaded does.                                     *)
(*                                                                         *)
(* The linked list of messages is abstracted to the sequence of the kinds  *)
(* of the messages that the consumer has not read yet; how the list is     *)
(* laid out in chunks of memory is the subject of MessageMemory.           *)
(***************************************************************************)
EXTENDS Naturals, Sequences

CONSTANTS
  CounterMod,         \* counters are unsigned: 2^32 in the code
  MaxUnread,          \* bound: messages written and not yet read
  JoinBeforeRestart   \* TRUE: multithreading is switched on again only when
                      \* the previous consumer thread has gone

ASSUME QueueAssumption ==
  /\ CounterMod \in Nat
  /\ MaxUnread \in Nat
  /\ MaxUnread + 2 < CounterMod
  /\ JoinBeforeRestart \in BOOLEAN

VARIABLES
  unread,           \* kinds of the messages after _reader.lastMessage
  pending,          \* _writer.pendingMessageCount
  written,          \* _writer.writtenMessageCount
  snap,             \* _reader.writtenMessageCountSnap
  newCount,         \* _reader.newMessageCount
  finished,         \* _reader.flushingFinished
  terminate,        \* _reader.terminateConsumerThread
  immediate,        \* _immediateMode
  attached,         \* _workerAttached
  sem,              \* the count of the EventSem the producer waits on
  ppc,              \* where the producer is
  op,               \* the call it is in
  cpc,              \* where the consumer is, "none": there is no thread
  current           \* the message being executed

writer == <<pending, written>>
reader == <<snap, newCount, finished, terminate>>
threads == <<ppc, op, cpc, current>>
vars == <<unread, pending, written, snap, newCount, finished, terminate,
          immediate, attached, sem, ppc, op, cpc, current>>

------------------------------------------------------------------------------
(* Kinds of messages.  "work" stands for every ENQUEUE_MESSAGE of the      *)
(* agents; "switch" and "dummy" are the pair that links two chunks.        *)
Kinds == {"work", "switch", "dummy", "wake", "finish", "terminate"}

NoMessage == "none"

(* Arithmetic on uint32_t.                                                 *)
Plus(a, b) == IF a + b < CounterMod THEN a + b ELSE a + b - CounterMod
Minus(a, b) == IF b <= a THEN a - b ELSE a + CounterMod - b

(* MessageQueue::MessageQueue: a sentinel is written, published, pulled    *)
(* and counted as read.  The queue starts in immediate mode.               *)
Init ==
  /\ unread = <<>>
  /\ pending = 0
  /\ written = 1
  /\ snap = 1
  /\ newCount = 0
  /\ finished = FALSE
  /\ terminate = FALSE
  /\ immediate = TRUE
  /\ attached = FALSE
  /\ sem = 0
  /\ ppc = "idle"
  /\ op = "none"
  /\ cpc = "none"
  /\ current = NoMessage

------------------------------------------------------------------------------
(* The producer.                                                           *)

(* A message of kind m is allocated; when it does not fit the current      *)
(* chunk, allocateImpl writes the switch message and the dummy that heads  *)
(* the next chunk first.                                                   *)
Allocations(m) == {<<m>>, <<"switch", "dummy", m>>}

Allocate(m) ==
  \E batch \in Allocations(m) :
    /\ Len(unread) + Len(batch) <= MaxUnread
    /\ unread' = unread \o batch
    /\ pending' = pending + Len(batch)

(* WRITE_MESSAGE when not in immediate mode (in immediate mode the message *)
(* is executed in place and the queue does not change).                    *)
WriteMessage ==
  /\ ppc = "idle"
  /\ ~immediate
  /\ Allocate("work")
  /\ UNCHANGED <<written, reader, immediate, attached, sem, threads>>

(* kick(), called from outside or by freeChunksInFreeQueue.                *)
Kick ==
  /\ ppc = "idle"
  /\ ppc' = "push"
  /\ op' = "kick"
  /\ UNCHANGED <<unread, writer, reader, immediate, attached, sem, cpc,
                 current>>

(* kickAndWait(): in immediate mode the message signals the semaphore at   *)
(* once.                                                                   *)
KickAndWait ==
  /\ ppc = "idle"
  /\ IF immediate
     THEN sem' = 1 /\ UNCHANGED <<unread, pending>>
     ELSE sem' = 0 /\ Allocate("wake")
  /\ ppc' = "push"
  /\ op' = "kickAndWait"
  /\ UNCHANGED <<written, reader, immediate, attached, cpc, current>>

FinishWriting ==
  /\ ppc = "idle"
  /\ ~immediate
  /\ Allocate("finish")
  /\ ppc' = "push"
  /\ op' = "kick"
  /\ UNCHANGED <<written, reader, immediate, attached, sem, cpc, current>>

(* setMultithreaded(true): leave immediate mode, runConsumerThread, which  *)
(* does nothing when a consumer still counts as attached, and write        *)
(* DeviceMakeCurrentTrue.                                                  *)
RunConsumerThread ==
  IF attached
  THEN UNCHANGED <<finished, terminate, attached, cpc>>
  ELSE /\ terminate' = FALSE
       /\ finished' = FALSE
       /\ attached' = TRUE
       /\ cpc' = "loop"

SetMultithreadedOn ==
  /\ ppc = "idle"
  /\ immediate
  /\ JoinBeforeRestart => cpc = "none"
  /\ immediate' = FALSE
  /\ RunConsumerThread
  /\ Allocate("work")
  /\ UNCHANGED <<written, snap, newCount, sem, ppc, op, current>>

(* setMultithreaded(false): write DeviceMakeCurrentFalse (the bound leaves *)
(* room for the message that follows it) ...                               *)
SetMultithreadedOff ==
  /\ ppc = "idle"
  /\ ~immediate
  /\ Allocate("work")
  /\ Len(unread') < MaxUnread
  /\ ppc' = "terminate"
  /\ op' = "setMultithreadedOff"
  /\ UNCHANGED <<written, reader, immediate, attached, sem, cpc, current>>

(* Wrong: immediate mode is entered without waiting for the consumer.      *)
TerminateWithoutWait ==
  /\ ppc = "terminate"
  /\ attached
  /\ Allocate("terminate")
  /\ sem' = 0
  /\ ppc' = "push"
  /\ op' = "kick"
  /\ immediate' = TRUE
  /\ UNCHANGED <<written, reader, attached, cpc, current>>

(* ... then terminateConsumerThread, which returns at once when no         *)
(* consumer counts as attached, and enter immediate mode.                  *)
TerminateConsumerThread ==
  /\ ppc = "terminate"
  /\ IF attached
     THEN /\ Allocate("terminate")
          /\ sem' = 0
          /\ ppc' = "push"
          /\ UNCHANGED <<immediate, op>>
     ELSE /\ immediate' = TRUE
          /\ ppc' = "idle"
          /\ op' = "none"
          /\ UNCHANGED <<unread, pending, sem>>
  /\ UNCHANGED <<written, reader, attached, cpc, current>>

(* Wrong: the pending count is not reset.                                  *)
PushAndKeepPending ==
  /\ ppc = "push"
  /\ written' = Plus(written, pending)
  /\ ppc' = "signal"
  /\ UNCHANGED <<unread, pending, reader, immediate, attached, sem, op, cpc,
                 current>>

PushMessages ==
  /\ ppc = "push"
  /\ written' = Plus(written, pending)
  /\ pending' = 0
  /\ ppc' = "signal"
  /\ UNCHANGED <<unread, reader, immediate, attached, sem, op, cpc, current>>

(* Wrong: the writer publishes and does not notify the consumer.           *)
SignalNobody ==
  /\ ppc = "signal"
  /\ IF op = "kick"
     THEN ppc' = "idle" /\ op' = "none"
     ELSE ppc' = "wait" /\ op' = op
  /\ UNCHANGED <<unread, writer, reader, immediate, attached, sem, cpc,
                 current>>

(* _event.signal(): notify_one under the mutex.  It leaves no trace when   *)
(* nobody waits.                                                           *)
Signal ==
  /\ ppc = "signal"
  /\ cpc' = IF cpc = "asleep" THEN "woken" ELSE cpc
  /\ IF op = "kick"
     THEN ppc' = "idle" /\ op' = "none"
     ELSE ppc' = "wait" /\ op' = op
  /\ UNCHANGED <<unread, writer, reader, immediate, attached, sem, current>>

(* event.wait() returns, and with it kickAndWait or, for                   *)
(* setMultithreaded(false), terminateConsumerThread and setImmediateMode.  *)
Await ==
  /\ ppc = "wait"
  /\ sem > 0
  /\ sem' = sem - 1
  /\ ppc' = "idle"
  /\ op' = "none"
  /\ immediate' = (immediate \/ op = "setMultithreadedOff")
  /\ UNCHANGED <<unread, writer, reader, attached, cpc, current>>

(* In immediate mode the data that messages refer to is still allocated    *)
(* from the queue: when a chunk is full, allocateImpl publishes and pulls  *)
(* the switch and its dummy and executes them on the producer's thread ... *)
ImmediatePull == newCount + Minus(Plus(written, pending + 2), snap)

PublishAndPull ==
  /\ written' = Plus(written, pending + 2)
  /\ pending' = 0
  /\ snap' = written'

ImmediateChunkSwitch ==
  /\ ppc = "idle"
  /\ immediate
  /\ ~finished
  /\ PublishAndPull
  /\ newCount' = ImmediatePull - 2
  /\ UNCHANGED <<unread, finished, terminate, immediate, attached, sem,
                 threads>>

(* ... but while flushingFinished is set, which the consumer may have yet  *)
(* to reset after the terminate message, readMessage takes the queue for   *)
(* empty and puts the producer to sleep.  Only a spurious wakeup ends that.*)
ImmediateChunkSwitchSleeps ==
  /\ ppc = "idle"
  /\ immediate
  /\ finished
  /\ Len(unread) + 2 <= MaxUnread
  /\ PublishAndPull
  /\ unread' = unread \o <<"switch", "dummy">>
  /\ newCount' = ImmediatePull
  /\ ppc' = "asleep"
  /\ UNCHANGED <<finished, terminate, immediate, attached, sem, op, cpc,
                 current>>

ProducerSpuriousWakeup ==
  /\ ppc = "asleep"
  /\ ~finished
  /\ newCount >= 2
  /\ unread' = SubSeq(unread, 1, Len(unread) - 2)
  /\ newCount' = newCount - 2
  /\ ppc' = "idle"
  /\ UNCHANGED <<writer, snap, finished, terminate, immediate, attached, sem,
                 op, cpc, current>>

Producer ==
  \/ WriteMessage \/ Kick \/ KickAndWait \/ FinishWriting
  \/ SetMultithreadedOn \/ SetMultithreadedOff \/ TerminateConsumerThread
  \/ PushMessages \/ Signal \/ Await \/ ImmediateChunkSwitch
  \/ ImmediateChunkSwitchSleeps

------------------------------------------------------------------------------
(* The consumer thread.                                                    *)

(* consumerThreadLoop tests terminateConsumerThread.                       *)
ConsumerLoop ==
  /\ cpc = "loop"
  /\ cpc' = IF terminate THEN "exit" ELSE "flush"
  /\ UNCHANGED <<unread, writer, reader, immediate, attached, sem, ppc, op,
                 current>>

(* flushMessages tests flushingFinished and, at its end, resets it.        *)
FlushMessages ==
  /\ cpc = "flush"
  /\ cpc' = IF finished THEN "loop" ELSE "read"
  /\ finished' = FALSE
  /\ UNCHANGED <<unread, writer, snap, newCount, terminate, immediate,
                 attached, sem, ppc, op, current>>

PullMessages ==
  /\ newCount' = newCount + Minus(written, snap)
  /\ snap' = written

(* readMessage: without messages the consumer pulls, goes to sleep when it *)
(* still has none, and pulls again when it is woken up.                    *)
PullFirst ==
  /\ cpc = "read"
  /\ newCount = 0
  /\ PullMessages
  /\ cpc' = IF newCount' = 0 THEN "wait" ELSE "read"
  /\ UNCHANGED <<unread, writer, finished, terminate, immediate, attached,
                 sem, ppc, op, current>>

(* _event.wait(): the mutex is taken and released by the condition         *)
(* variable; there is no predicate.                                        *)
EventWait ==
  /\ cpc = "wait"
  /\ cpc' = "asleep"
  /\ UNCHANGED <<unread, writer, reader, immediate, attached, sem, ppc, op,
                 current>>

(* std::condition_variable may return from wait without a notification.    *)
SpuriousWakeup ==
  /\ cpc = "asleep"
  /\ cpc' = "woken"
  /\ UNCHANGED <<unread, writer, reader, immediate, attached, sem, ppc, op,
                 current>>

PullAgain ==
  /\ cpc = "woken"
  /\ PullMessages
  /\ cpc' = "read"
  /\ UNCHANGED <<unread, writer, finished, terminate, immediate, attached,
                 sem, ppc, op, current>>

(* Wrong: _reader.lastMessage is not moved on.                             *)
ReadSameMessage ==
  /\ cpc = "read"
  /\ newCount > 0
  /\ current' = Head(unread)
  /\ newCount' = newCount - 1
  /\ cpc' = "execute"
  /\ UNCHANGED <<unread, writer, snap, finished, terminate, immediate,
                 attached, sem, ppc, op>>

ReadMessage ==
  /\ cpc = "read"
  /\ newCount > 0
  /\ current' = Head(unread)
  /\ unread' = Tail(unread)
  /\ newCount' = newCount - 1
  /\ cpc' = "execute"
  /\ UNCHANGED <<writer, snap, finished, terminate, immediate, attached, sem,
                 ppc, op>>

(* msg->execute(), for each kind of message.                               *)
ExecutePlain ==
  /\ current \in {"work", "dummy"}
  /\ UNCHANGED <<snap, newCount, finished, terminate, sem>>

ExecuteSwitch ==
  /\ current = "switch"
  /\ PullMessages
  /\ UNCHANGED <<finished, terminate, sem>>

ExecuteWake ==
  /\ current = "wake"
  /\ sem' = sem + 1
  /\ UNCHANGED <<snap, newCount, finished, terminate>>

ExecuteFinish ==
  /\ current = "finish"
  /\ finished' = TRUE
  /\ UNCHANGED <<snap, newCount, terminate, sem>>

ExecuteTerminate ==
  /\ current = "terminate"
  /\ terminate' = TRUE
  /\ finished' = TRUE
  /\ sem' = sem + 1
  /\ UNCHANGED <<snap, newCount>>

ExecuteMessage ==
  /\ cpc = "execute"
  /\ \/ ExecutePlain \/ ExecuteSwitch \/ ExecuteWake
     \/ ExecuteFinish \/ ExecuteTerminate
  /\ cpc' = "destroy"
  /\ UNCHANGED <<unread, writer, immediate, attached, ppc, op, current>>

(* msg->~Message(): a producer that the message woke up may already run.   *)
DestroyMessage ==
  /\ cpc = "destroy"
  /\ current' = NoMessage
  /\ cpc' = "flush"
  /\ UNCHANGED <<unread, writer, reader, immediate, attached, sem, ppc, op>>

(* The last thing the thread does.                                         *)
ConsumerExit ==
  /\ cpc = "exit"
  /\ attached' = FALSE
  /\ cpc' = "none"
  /\ UNCHANGED <<unread, writer, reader, immediate, sem, ppc, op, current>>

Consumer ==
  \/ ConsumerLoop \/ FlushMessages \/ PullFirst \/ EventWait \/ PullAgain
  \/ ReadMessage \/ ExecuteMessage \/ DestroyMessage
  \/ ConsumerExit

Next == Producer \/ Consumer \/ SpuriousWakeup \/ ProducerSpuriousWakeup

Spec == Init /\ [][Next]_vars

(* Both threads keep running: the consumer whenever it has a step to take, *)
(* the producer through a call it has started.  Which calls are made, and  *)
(* spurious wakeups, are nobody's obligation.                              *)
Fairness ==
  /\ WF_vars(Consumer)
  /\ WF_vars(TerminateConsumerThread \/ PushMessages \/ Signal \/ Await)

FairSpec == Spec /\ Fairness

------------------------------------------------------------------------------
(* Properties.                                                             *)

TypeOK ==
  /\ unread \in Seq(Kinds)
  /\ pending \in Nat
  /\ written \in 0 .. CounterMod - 1
  /\ snap \in 0 .. CounterMod - 1
  /\ newCount \in Nat
  /\ finished \in BOOLEAN
  /\ terminate \in BOOLEAN
  /\ immediate \in BOOLEAN
  /\ attached \in BOOLEAN
  /\ sem \in Nat
  /\ ppc \in {"idle", "terminate", "push", "signal", "wait", "asleep"}
  /\ op \in {"none", "kick", "kickAndWait", "setMultithreadedOff"}
  /\ cpc \in {"none", "loop", "flush", "read", "wait", "asleep", "woken",
              "execute", "destroy", "exit"}
  /\ current \in Kinds \cup {NoMessage}

(* Every message written and not yet read is counted exactly once, across  *)
(* the wrap of the 32-bit counter: it is either pending in the writer, in  *)
(* the difference between the published count and the reader's snapshot of *)
(* it, or in the reader's count of new messages.                           *)
CountsExact == newCount + Minus(written, snap) + pending = Len(unread)

(* The assertion of allocateImpl (MessageQueue.cpp:196): when a chunk is   *)
(* switched in immediate mode, the reader has exactly the switch message   *)
(* and its dummy to execute.                                               *)
TwoMessagesToExecute == immediate /\ ppc = "idle" => ImmediatePull = 2

(* "Device thread joined." (DeviceAgent.cpp:193): when                     *)
(* setMultithreaded(false) is through, the device thread has ended.        *)
DeviceThreadJoined == immediate => cpc = "none"

(* MessageQueue.h:122 "notify the consumer to start working and block the  *)
(* producer until finished": the producer blocks only until then.          *)
BlockedUntilFinished == (ppc = "wait") ~> (ppc = "idle")

(* A blocking call hangs only when its kick falls between the consumer's   *)
(* last pull and its wait on the condition variable: in every other state  *)
(* of the consumer, the call returns.                                      *)
KickServed ==
  (ppc = "signal" /\ op # "kick" /\ cpc # "wait") ~> (ppc = "idle")

(* What the queue promises: SPSCQueue, with the unpublished part of the    *)
(* list as its buffer; a switch and its dummy that the producer executes   *)
(* itself do not count.                                                    *)
Published == Len(unread) - pending

InPlace == IF ppc = "asleep" THEN 2 ELSE 0

Promise == INSTANCE SPSCQueue WITH
  Messages <- Kinds,
  Waking <- {"wake", "terminate"},
  Idle <- NoMessage,
  buffered <- SubSeq(unread, Published + 1, Len(unread)),
  visible <- SubSeq(unread, 1, Published - InPlace),
  executing <- current,
  blocked <- (ppc = "wait")

ImplementsSPSCQueue == Promise!Spec
==============================================================================
