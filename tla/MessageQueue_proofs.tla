------------------------- MODULE MessageQueue_proofs -------------------------
(***************************************************************************)
(* Proofs about MessageQueue, for every size of the counters and every     *)
(* bound: what is counted, with or without JoinBeforeRestart; and, with    *)
(* it, what immediate mode may rely on, and that the queue implements      *)
(* SPSCQueue: each step of the two threads is a step of the promised queue *)
(* or none.                                                                *)
(***************************************************************************)
EXTENDS MessageQueue, SequenceTheorems, TLAPS

(* Every message is counted once, and there are never so many of them that *)
(* the difference of the two counters is ambiguous.                        *)
CountInv ==
  /\ TypeOK
  /\ CountsExact
  /\ Len(unread) <= MaxUnread

------------------------------------------------------------------------------
(* Unsigned arithmetic.                                                    *)

(* Adding to a counter and subtracting a snapshot of it gives the sum of   *)
(* the two differences as long as that is within the range of a counter:   *)
(* the published count may wrap between two pulls of the reader.           *)
LEMMA MinusPlus ==
  ASSUME NEW a \in 0 .. CounterMod - 1, NEW b \in 0 .. CounterMod - 1,
         NEW n \in Nat, Minus(a, b) + n < CounterMod
  PROVE  /\ Plus(a, n) \in 0 .. CounterMod - 1
         /\ Minus(Plus(a, n), b) = Minus(a, b) + n
BY QueueAssumption DEF Plus, Minus

(* The difference of two counters is a count.                              *)
LEMMA MinusType ==
  ASSUME NEW a \in 0 .. CounterMod - 1, NEW b \in 0 .. CounterMod - 1
  PROVE  /\ Minus(a, b) \in Nat
         /\ Minus(a, a) = 0
BY QueueAssumption DEF Minus

------------------------------------------------------------------------------
(* Steps on the list of unread messages.                                   *)

(* Allocating messages adds as many to the pending count as to the list.   *)
LEMMA AllocateCounts ==
  ASSUME TypeOK, NEW m \in Kinds, Allocate(m)
  PROVE  /\ unread' \in Seq(Kinds)
         /\ pending' \in Nat
         /\ Len(unread') - pending' = Len(unread) - pending
         /\ Len(unread') <= MaxUnread
<1>1. PICK batch \in Allocations(m) :
        /\ Len(unread) + Len(batch) <= MaxUnread
        /\ unread' = unread \o batch
        /\ pending' = pending + Len(batch)
  BY DEF Allocate
<1>2. batch \in Seq(Kinds)
  <2>1. "switch" \in Kinds /\ "dummy" \in Kinds
    BY DEF Kinds
  <2>2. <<m>> \in Seq(Kinds) /\ <<"switch", "dummy", m>> \in Seq(Kinds)
    BY <2>1
  <2>3. QED
    BY <2>2 DEF Allocations
<1>3. QED
  BY <1>1, <1>2 DEF TypeOK

(* A pull moves the published messages into the reader's count.            *)
LEMMA PullCounts ==
  ASSUME TypeOK, PullMessages
  PROVE  /\ newCount' \in Nat
         /\ snap' \in 0 .. CounterMod - 1
         /\ newCount' = newCount + Minus(written, snap)
         /\ Minus(written, snap') = 0
BY MinusType DEF TypeOK, PullMessages

------------------------------------------------------------------------------
(* The invariant.                                                          *)

LEMMA CountInvInit == Init => CountInv
<1>1. Init => TypeOK
  <2> SUFFICES ASSUME Init PROVE TypeOK
    OBVIOUS
  <2>1. /\ unread \in Seq(Kinds)
        /\ pending \in Nat /\ newCount \in Nat /\ sem \in Nat
    BY DEF Init
  <2>2. written \in 0 .. CounterMod - 1 /\ snap \in 0 .. CounterMod - 1
    BY QueueAssumption DEF Init
  <2>3. /\ finished \in BOOLEAN /\ terminate \in BOOLEAN
        /\ immediate \in BOOLEAN /\ attached \in BOOLEAN
    BY DEF Init
  <2>4. /\ ppc = "idle" /\ op = "none" /\ cpc = "none"
        /\ current = NoMessage
    BY DEF Init
  <2>5. QED
    BY <2>1, <2>2, <2>3, <2>4 DEF TypeOK
<1>2. Init => CountsExact /\ Len(unread) <= MaxUnread
  BY QueueAssumption DEF Init, CountsExact, Minus
<1>3. QED
  BY <1>1, <1>2 DEF CountInv

(* One step per action of the producer.                                    *)
LEMMA CountInvProducer == CountInv /\ Producer => CountInv'
<1> SUFFICES ASSUME CountInv, Producer PROVE CountInv'
  OBVIOUS
<1>0. TypeOK /\ CountsExact /\ Len(unread) <= MaxUnread
  BY DEF CountInv
<1> USE DEF CountInv, CountsExact
<1>1. CASE WriteMessage
  <2>1. Allocate("work") /\ "work" \in Kinds
    BY <1>1 DEF WriteMessage, Kinds
  <2>2. TypeOK'
    BY <1>0, <1>1, <2>1, AllocateCounts DEF WriteMessage, TypeOK, reader, threads
  <2>3. CountsExact' /\ Len(unread') <= MaxUnread
    BY <1>0, <1>1, <2>1, AllocateCounts, MinusType DEF WriteMessage, TypeOK, reader
  <2>4. QED
    BY <2>2, <2>3
<1>2. CASE Kick
  BY <1>0, <1>2 DEF Kick, TypeOK, reader, writer, Minus
<1>3. CASE KickAndWait
  <2>1. CASE immediate
    BY <1>0, <1>3, <2>1 DEF KickAndWait, TypeOK, reader, Minus
  <2>2. CASE ~immediate
    <3>1. Allocate("wake") /\ "wake" \in Kinds
      BY <1>3, <2>2 DEF KickAndWait, Kinds
    <3>2. TypeOK'
      BY <1>0, <1>3, <2>2, <3>1, AllocateCounts DEF KickAndWait, TypeOK, reader
    <3>3. CountsExact' /\ Len(unread') <= MaxUnread
      BY <1>0, <1>3, <3>1, AllocateCounts, MinusType DEF KickAndWait, TypeOK, reader
    <3>4. QED
      BY <3>2, <3>3
  <2>3. QED
    BY <2>1, <2>2
<1>4. CASE FinishWriting
  <2>1. Allocate("finish") /\ "finish" \in Kinds
    BY <1>4 DEF FinishWriting, Kinds
  <2>2. TypeOK'
    BY <1>0, <1>4, <2>1, AllocateCounts DEF FinishWriting, TypeOK, reader
  <2>3. CountsExact' /\ Len(unread') <= MaxUnread
    BY <1>0, <1>4, <2>1, AllocateCounts, MinusType DEF FinishWriting, TypeOK, reader
  <2>4. QED
    BY <2>2, <2>3
<1>5. CASE SetMultithreadedOn
  <2>1. Allocate("work") /\ "work" \in Kinds
    BY <1>5 DEF SetMultithreadedOn, Kinds
  <2>2. TypeOK'
    BY <1>0, <1>5, <2>1, AllocateCounts
       DEF SetMultithreadedOn, RunConsumerThread, TypeOK
  <2>3. CountsExact' /\ Len(unread') <= MaxUnread
    BY <1>0, <1>5, <2>1, AllocateCounts, MinusType DEF SetMultithreadedOn, TypeOK
  <2>4. QED
    BY <2>2, <2>3
<1>6. CASE SetMultithreadedOff
  <2>1. Allocate("work") /\ "work" \in Kinds
    BY <1>6 DEF SetMultithreadedOff, Kinds
  <2>2. TypeOK'
    BY <1>0, <1>6, <2>1, AllocateCounts DEF SetMultithreadedOff, TypeOK, reader
  <2>3. CountsExact' /\ Len(unread') <= MaxUnread
    BY <1>0, <1>6, <2>1, AllocateCounts, MinusType
       DEF SetMultithreadedOff, TypeOK, reader
  <2>4. QED
    BY <2>2, <2>3
<1>7. CASE TerminateConsumerThread
  <2>1. CASE attached
    <3>1. Allocate("terminate") /\ "terminate" \in Kinds
      BY <1>7, <2>1 DEF TerminateConsumerThread, Kinds
    <3>2. TypeOK'
      BY <1>0, <1>7, <2>1, <3>1, AllocateCounts
         DEF TerminateConsumerThread, TypeOK, reader
    <3>3. CountsExact' /\ Len(unread') <= MaxUnread
      BY <1>0, <1>7, <3>1, AllocateCounts, MinusType
         DEF TerminateConsumerThread, TypeOK, reader
    <3>4. QED
      BY <3>2, <3>3
  <2>2. CASE ~attached
    BY <1>0, <1>7, <2>2 DEF TerminateConsumerThread, TypeOK, reader, Minus
  <2>3. QED
    BY <2>1, <2>2
<1>8. CASE PushMessages
  <2>1. Minus(written, snap) + pending < CounterMod
    BY <1>0, MinusType, QueueAssumption DEF TypeOK
  <2>2. /\ written' \in 0 .. CounterMod - 1
        /\ Minus(written', snap) = Minus(written, snap) + pending
    BY <1>0, <1>8, <2>1, MinusPlus DEF PushMessages, TypeOK
  <2>3. TypeOK'
    BY <1>0, <1>8, <2>2 DEF PushMessages, TypeOK, reader
  <2>4. CountsExact' /\ Len(unread') <= MaxUnread
    BY <1>0, <1>8, <2>2, MinusType DEF PushMessages, TypeOK, reader
  <2>5. QED
    BY <2>3, <2>4
<1>9. CASE Signal
  BY <1>0, <1>9 DEF Signal, TypeOK, reader, writer, Minus
<1>10. CASE Await
  BY <1>0, <1>10 DEF Await, TypeOK, reader, writer, Minus
<1>11. CASE ImmediateChunkSwitch
  <2>1. Minus(written, snap) + (pending + 2) < CounterMod
    BY <1>0, MinusType, QueueAssumption DEF TypeOK
  <2>2. /\ Plus(written, pending + 2) \in 0 .. CounterMod - 1
        /\ Minus(Plus(written, pending + 2), snap)
             = Minus(written, snap) + (pending + 2)
    <3>1. /\ written \in 0 .. CounterMod - 1
          /\ snap \in 0 .. CounterMod - 1
          /\ pending + 2 \in Nat
      BY <1>0 DEF TypeOK
    <3>2. QED
      BY <3>1, <2>1, MinusPlus
  <2>3. /\ written' \in 0 .. CounterMod - 1
        /\ newCount' = newCount + Minus(written, snap) + pending
    <3>1. /\ written' = Plus(written, pending + 2)
          /\ newCount' = ImmediatePull - 2
          /\ ImmediatePull = newCount + Minus(Plus(written, pending + 2), snap)
      BY <1>11, Zenon DEF ImmediateChunkSwitch, PublishAndPull, ImmediatePull
    <3>2. Minus(written, snap) \in Nat /\ newCount \in Nat /\ pending \in Nat
      BY <1>0, MinusType DEF TypeOK
    <3>3. QED
      BY <3>1, <3>2, <2>2
  <2>4. TypeOK'
    <3>1. /\ Minus(written, snap) \in Nat /\ newCount \in Nat /\ pending \in Nat
      BY <1>0, MinusType DEF TypeOK
    <3>2. newCount' \in Nat
      BY <2>3, <3>1
    <3>3. /\ pending' = 0 /\ snap' = written'
          /\ UNCHANGED <<unread, finished, terminate, immediate, attached, sem,
                         ppc, op, cpc, current>>
      BY <1>11 DEF ImmediateChunkSwitch, PublishAndPull, threads
    <3>4. QED
      BY <1>0, <2>3, <3>2, <3>3 DEF TypeOK
  <2>5. CountsExact' /\ Len(unread') <= MaxUnread
    <3>1. pending' = 0 /\ snap' = written' /\ unread' = unread
      BY <1>11 DEF ImmediateChunkSwitch, PublishAndPull
    <3>2. Minus(written', snap') = 0
      BY <2>3, <3>1, MinusType
    <3>3. newCount' + Minus(written', snap') + pending' = Len(unread)
      <4>1. Minus(written, snap) \in Nat /\ newCount \in Nat /\ pending \in Nat
        BY <1>0, MinusType DEF TypeOK
      <4>2. newCount + Minus(written, snap) + pending = Len(unread)
        BY <1>0
      <4>3. QED
        BY <2>3, <3>1, <3>2, <4>1, <4>2
    <3>4. QED
      BY <1>0, <3>1, <3>3
  <2>6. QED
    BY <2>4, <2>5
<1>12. CASE ImmediateChunkSwitchSleeps
  <2>1. /\ Minus(written, snap) \in Nat /\ newCount \in Nat /\ pending \in Nat
        /\ written \in 0 .. CounterMod - 1 /\ snap \in 0 .. CounterMod - 1
        /\ newCount + Minus(written, snap) + pending = Len(unread)
    BY <1>0, MinusType DEF TypeOK
  <2>2. Len(unread) + 2 <= MaxUnread
    BY <1>12 DEF ImmediateChunkSwitchSleeps
  <2>3. Minus(written, snap) + (pending + 2) < CounterMod
    BY <2>1, <2>2, QueueAssumption
  <2>4. /\ Plus(written, pending + 2) \in 0 .. CounterMod - 1
        /\ Minus(Plus(written, pending + 2), snap)
             = Minus(written, snap) + (pending + 2)
    BY <2>1, <2>3, MinusPlus
  <2>5. /\ written' = Plus(written, pending + 2)
        /\ newCount' = newCount + Minus(Plus(written, pending + 2), snap)
        /\ pending' = 0 /\ snap' = written'
        /\ unread' = unread \o <<"switch", "dummy">>
        /\ ppc' = "asleep"
        /\ UNCHANGED <<finished, terminate, immediate, attached, sem, op, cpc,
                       current>>
    BY <1>12, Zenon
       DEF ImmediateChunkSwitchSleeps, PublishAndPull, ImmediatePull
  <2>6. unread' \in Seq(Kinds) /\ Len(unread') = Len(unread) + 2
    BY <1>0, <2>5 DEF TypeOK, Kinds
  <2>7. newCount' = Len(unread') /\ newCount' \in Nat
    BY <2>1, <2>4, <2>5, <2>6
  <2>8. TypeOK'
    BY <1>0, <2>4, <2>5, <2>6, <2>7 DEF TypeOK
  <2>9. Minus(written', snap') = 0
    BY <2>4, <2>5, MinusType
  <2>10. CountsExact' /\ Len(unread') <= MaxUnread
    BY <2>2, <2>5, <2>6, <2>7, <2>9
  <2>11. QED
    BY <2>8, <2>10
<1>13. QED
  BY <1>1, <1>2, <1>3, <1>4, <1>5, <1>6, <1>7, <1>8, <1>9, <1>10, <1>11, <1>12
     DEF Producer

(* The producer takes two messages from the end of the list.               *)
LEMMA CountInvWakeup == CountInv /\ ProducerSpuriousWakeup => CountInv'
<1> SUFFICES ASSUME CountInv, ProducerSpuriousWakeup PROVE CountInv'
  OBVIOUS
<1>1. /\ TypeOK /\ Len(unread) <= MaxUnread
      /\ newCount + Minus(written, snap) + pending = Len(unread)
  BY DEF CountInv, CountsExact
<1>2. /\ Minus(written, snap) \in Nat /\ newCount \in Nat /\ pending \in Nat
      /\ MaxUnread \in Nat /\ Len(unread) \in Nat
  BY <1>1, MinusType, QueueAssumption DEF TypeOK
<1>3. /\ newCount >= 2 /\ newCount' = newCount - 2 /\ ppc' = "idle"
      /\ unread' = SubSeq(unread, 1, Len(unread) - 2)
      /\ UNCHANGED <<pending, written, snap, finished, terminate, immediate,
                     attached, sem, op, cpc, current>>
  BY DEF ProducerSpuriousWakeup, writer
<1>4. Len(unread) - 2 \in Nat
  BY <1>1, <1>2, <1>3
<1>5. unread' \in Seq(Kinds) /\ Len(unread') = Len(unread) - 2
  BY <1>1, <1>3, <1>4 DEF TypeOK
<1>6. TypeOK'
  BY <1>1, <1>2, <1>3, <1>5 DEF TypeOK
<1>7. Minus(written', snap') = Minus(written, snap)
  BY <1>3
<1>8. CountsExact' /\ Len(unread') <= MaxUnread
  BY <1>1, <1>2, <1>3, <1>5, <1>7 DEF CountsExact
<1>9. QED
  BY <1>6, <1>8 DEF CountInv

(* One step per action of the consumer, spurious wakeups included.         *)
LEMMA CountInvConsumer == CountInv /\ (Consumer \/ SpuriousWakeup) => CountInv'
<1> SUFFICES ASSUME CountInv, Consumer \/ SpuriousWakeup PROVE CountInv'
  OBVIOUS
<1>0. TypeOK /\ CountsExact /\ Len(unread) <= MaxUnread
  BY DEF CountInv
<1> USE DEF CountInv, CountsExact
<1>1. CASE ConsumerLoop
  BY <1>0, <1>1 DEF ConsumerLoop, TypeOK, reader, writer, Minus
<1>2. CASE FlushMessages
  BY <1>0, <1>2 DEF FlushMessages, TypeOK, writer, Minus
<1>3. CASE PullFirst
  <2>1. PullMessages
    BY <1>3 DEF PullFirst
  <2>2. TypeOK'
    BY <1>0, <1>3, <2>1, PullCounts DEF PullFirst, TypeOK, writer
  <2>3. CountsExact' /\ Len(unread') <= MaxUnread
    BY <1>0, <1>3, <2>1, PullCounts, MinusType DEF PullFirst, TypeOK, writer
  <2>4. QED
    BY <2>2, <2>3
<1>4. CASE EventWait
  BY <1>0, <1>4 DEF EventWait, TypeOK, reader, writer, Minus
<1>5. CASE PullAgain
  <2>1. PullMessages
    BY <1>5 DEF PullAgain
  <2>2. TypeOK'
    BY <1>0, <1>5, <2>1, PullCounts DEF PullAgain, TypeOK, writer
  <2>3. CountsExact' /\ Len(unread') <= MaxUnread
    BY <1>0, <1>5, <2>1, PullCounts, MinusType DEF PullAgain, TypeOK, writer
  <2>4. QED
    BY <2>2, <2>3
<1>6. CASE ReadMessage
  <2>1. Len(unread) > 0
    BY <1>0, <1>6, MinusType DEF ReadMessage, TypeOK
  <2>2. /\ unread' \in Seq(Kinds)
        /\ Len(unread') = Len(unread) - 1
        /\ current' \in Kinds
    BY <1>0, <1>6, <2>1 DEF ReadMessage, TypeOK
  <2>3. newCount' = newCount - 1 /\ newCount' \in Nat
    BY <1>0, <1>6 DEF ReadMessage, TypeOK
  <2>4. TypeOK'
    BY <1>0, <1>6, <2>2, <2>3 DEF ReadMessage, TypeOK, writer
  <2>5. Minus(written, snap)' = Minus(written, snap)
    BY <1>6 DEF ReadMessage, writer, Minus
  <2>6. CountsExact' /\ Len(unread') <= MaxUnread
    <3>1. pending' = pending
      BY <1>6 DEF ReadMessage, writer
    <3>2. /\ newCount \in Nat /\ pending \in Nat
          /\ Minus(written, snap) \in Nat
          /\ Len(unread) \in Nat /\ MaxUnread \in Nat
      BY <1>0, MinusType, QueueAssumption DEF TypeOK
    <3>3. newCount + Minus(written, snap) + pending = Len(unread)
      BY <1>0
    <3>4. newCount' + Minus(written, snap)' + pending' = Len(unread')
      BY <2>2, <2>3, <2>5, <3>1, <3>2, <3>3
    <3>5. CountsExact'
      BY <3>4 DEF CountsExact
    <3>6. QED
      BY <1>0, <2>2, <3>2, <3>5
  <2>7. QED
    BY <2>4, <2>6
<1>7. CASE ExecuteMessage
  <2>1. CASE ExecuteSwitch
    <3>1. PullMessages
      BY <2>1 DEF ExecuteSwitch
    <3>2. TypeOK'
      BY <1>0, <1>7, <2>1, <3>1, PullCounts
         DEF ExecuteMessage, ExecuteSwitch, TypeOK, writer
    <3>3. CountsExact' /\ Len(unread') <= MaxUnread
      BY <1>0, <1>7, <2>1, <3>1, PullCounts, MinusType
         DEF ExecuteMessage, ExecuteSwitch, TypeOK, writer
    <3>4. QED
      BY <3>2, <3>3
  <2>2. CASE ExecutePlain
    BY <1>0, <1>7, <2>2 DEF ExecuteMessage, ExecutePlain, TypeOK, writer, Minus
  <2>3. CASE ExecuteWake
    BY <1>0, <1>7, <2>3 DEF ExecuteMessage, ExecuteWake, TypeOK, writer, Minus
  <2>4. CASE ExecuteFinish
    BY <1>0, <1>7, <2>4 DEF ExecuteMessage, ExecuteFinish, TypeOK, writer, Minus
  <2>5. CASE ExecuteTerminate
    BY <1>0, <1>7, <2>5
       DEF ExecuteMessage, ExecuteTerminate, TypeOK, writer, Minus
  <2>6. QED
    BY <1>7, <2>1, <2>2, <2>3, <2>4, <2>5 DEF ExecuteMessage
<1>8. CASE ConsumerExit
  BY <1>0, <1>8 DEF ConsumerExit, TypeOK, reader, writer, Minus
<1>9. CASE SpuriousWakeup
  BY <1>0, <1>9 DEF SpuriousWakeup, TypeOK, reader, writer, Minus
<1>10. CASE DestroyMessage
  BY <1>0, <1>10 DEF DestroyMessage, TypeOK, reader, writer, Minus
<1>11. QED
  BY <1>1, <1>2, <1>3, <1>4, <1>5, <1>6, <1>7, <1>8, <1>9, <1>10
     DEF Consumer

LEMMA CountInvInductive == Spec => []CountInv
<1>1. CountInv /\ UNCHANGED vars => CountInv'
  BY DEF CountInv, CountsExact, TypeOK, vars, Minus
<1>2. CountInv /\ [Next]_vars => CountInv'
  BY <1>1, CountInvProducer, CountInvConsumer, CountInvWakeup DEF Next
<1>3. QED
  BY <1>2, CountInvInit, PTL DEF Spec

(* Every variable of the queue and of its threads stays in its type; in    *)
(* particular the reader's count of new messages never goes below zero.    *)
THEOREM TypeCorrect == Spec => []TypeOK
<1>1. CountInv => TypeOK
  BY DEF CountInv
<1>2. QED
  BY <1>1, CountInvInductive, PTL

(* The three counters of pushMessages, pullMessages and readMessage always *)
(* add up to the messages in the list, so the reader never follows a link  *)
(* to a message that was not published, and misses none, for every size of *)
(* the counters: no wrap of the 32-bit written-message count matters.      *)
THEOREM MessagesCountedOnce == Spec => []CountsExact
<1>1. CountInv => CountsExact
  BY DEF CountInv
<1>2. QED
  BY <1>1, CountInvInductive, PTL

------------------------------------------------------------------------------
(* Who is blocked, and who signals the semaphore.  The results that follow *)
(* need JoinBeforeRestart: without it, a queue left without a consumer may *)
(* enter immediate mode with messages in it.                               *)

Signals == {"wake", "terminate"}

Blocking == ppc \in {"push", "signal", "wait"}

(* A message that signals the semaphore is the last of the list, and the   *)
(* producer that wrote it has yet to be woken up.                          *)
Awaited(m) ==
  /\ Blocking /\ sem = 0 /\ ~immediate
  /\ op = IF m = "wake" THEN "kickAndWait" ELSE "setMultithreadedOff"

SignalInv ==
  /\ \A i \in 1 .. Len(unread) :
       unread[i] \in Signals => i = Len(unread) /\ Awaited(unread[i])
  /\ cpc = "execute" /\ current \in Signals => unread = <<>> /\ Awaited(current)

(* The consumer has executed the terminate message, or there is none.      *)
Leaving == immediate \/ (op = "setMultithreadedOff" /\ Blocking /\ sem > 0)

LeavingInv ==
  /\ attached <=> cpc # "none"
  /\ ~Leaving => ~terminate /\ cpc \notin {"none", "exit"}
  /\ Leaving => \/ cpc = "none"
                \/ terminate /\ cpc \in {"loop", "exit"}
                \/ terminate /\ cpc \in {"flush", "destroy"} /\ finished
  /\ ppc = "asleep" => immediate /\ Len(unread) = 2 /\ unread[1] \notin Signals
                                 /\ unread[2] \notin Signals
  /\ Leaving /\ ppc # "asleep" => unread = <<>>
  /\ ppc \in {"idle", "asleep"} => op = "none"
  /\ ppc = "terminate" => ~immediate /\ op = "setMultithreadedOff"

ModeInv == TypeOK /\ SignalInv /\ LeavingInv

------------------------------------------------------------------------------
(* Writing a message to a list without signals.                            *)
LEMMA AllocateLast ==
  ASSUME TypeOK, NEW m \in Kinds, Allocate(m),
         \A i \in 1 .. Len(unread) : unread[i] \notin Signals
  PROVE  \A i \in 1 .. Len(unread') :
           unread'[i] \in Signals => i = Len(unread') /\ unread'[i] = m
<1>1. PICK batch \in Allocations(m) : unread' = unread \o batch
  BY DEF Allocate
<1>2. unread \in Seq(Kinds)
  BY DEF TypeOK
<1>3. "switch" \in Kinds /\ "dummy" \in Kinds
  BY DEF Kinds
<1>4. CASE batch = <<m>>
  <2>1. /\ Len(unread') = Len(unread) + 1 /\ Len(unread) \in Nat
        /\ \A i \in 1 .. Len(unread) : unread'[i] = unread[i]
        /\ unread'[Len(unread) + 1] = m
    BY <1>1, <1>2, <1>4
  <2> DEFINE n == Len(unread)
  <2> HIDE DEF n
  <2>2. \A i \in 1 .. n + 1 : i \in 1 .. n \/ i = n + 1
    BY <2>1 DEF n
  <2>3. QED
    BY <2>1, <2>2 DEF n
<1>5. CASE batch = <<"switch", "dummy", m>>
  <2>1. /\ Len(unread') = Len(unread) + 3 /\ Len(unread) \in Nat
        /\ \A i \in 1 .. Len(unread) : unread'[i] = unread[i]
        /\ unread'[Len(unread) + 1] = "switch"
        /\ unread'[Len(unread) + 2] = "dummy"
        /\ unread'[Len(unread) + 3] = m
    BY <1>1, <1>2, <1>3, <1>5
  <2> DEFINE n == Len(unread)
  <2> HIDE DEF n
  <2>2. \A i \in 1 .. n + 3 : i \in 1 .. n \/ i = n + 1 \/ i = n + 2 \/ i = n + 3
    BY <2>1 DEF n
  <2>3. QED
    BY <2>1, <2>2 DEF n, Signals
<1>6. QED
  BY <1>1, <1>4, <1>5 DEF Allocations

(* A producer that is not blocked has signalled nobody.                    *)
LEMMA NoSignals ==
  ASSUME ModeInv, ~Blocking
  PROVE  /\ \A i \in 1 .. Len(unread) : unread[i] \notin Signals
         /\ ~(cpc = "execute" /\ current \in Signals)
BY DEF ModeInv, SignalInv, Awaited

(* Steps that leave the list, the mode and the call alone.                 *)
LEMMA SignalStays ==
  ASSUME SignalInv, UNCHANGED <<unread, sem, immediate, op>>, Blocking' <=> Blocking,
         cpc' = "execute" /\ current' \in Signals => cpc = "execute" /\ current' = current
  PROVE  SignalInv'
BY DEF SignalInv, Awaited, Blocking

LEMMA ModeInit == Init => ModeInv
<1> SUFFICES ASSUME Init PROVE ModeInv
  OBVIOUS
<1>1. TypeOK
  BY CountInvInit DEF CountInv
<1>2. Len(unread) = 0
  BY DEF Init
<1>3. QED
  BY <1>1, <1>2 DEF Init, ModeInv, SignalInv, LeavingInv, Leaving

(* One step per action of the producer.                                    *)
LEMMA ModeProducer ==
  ASSUME ModeInv, TypeOK', JoinBeforeRestart, Producer \/ ProducerSpuriousWakeup
  PROVE  ModeInv'
<1>0. TypeOK /\ SignalInv /\ LeavingInv
  BY DEF ModeInv
<1>1. CASE WriteMessage
  <2>1. Allocate("work") /\ "work" \in Kinds /\ ~Blocking
    BY <1>1 DEF WriteMessage, Kinds, Blocking
  <2>2. \A i \in 1 .. Len(unread') : unread'[i] \notin Signals
    BY <1>0, <2>1, NoSignals, AllocateLast DEF Signals
  <2>3. SignalInv'
    BY <1>1, <2>1, <2>2, NoSignals DEF SignalInv, WriteMessage, reader, threads
  <2>4. LeavingInv'
    BY <1>0, <1>1 DEF LeavingInv, Leaving, Blocking, WriteMessage, reader, threads
  <2>5. QED
    BY <2>3, <2>4 DEF ModeInv
<1>2. CASE Kick
  <2>1. ~Blocking /\ UNCHANGED <<unread, cpc, current>>
    BY <1>2 DEF Kick, Blocking
  <2>2. SignalInv'
    BY <2>1, NoSignals DEF SignalInv
  <2>3. LeavingInv'
    BY <1>0, <1>2 DEF LeavingInv, Leaving, Blocking, Kick, reader
  <2>4. QED
    BY <2>2, <2>3 DEF ModeInv
<1>3. CASE KickAndWait
  <2>1. ~Blocking /\ UNCHANGED <<cpc, current>>
    BY <1>3 DEF KickAndWait, Blocking
  <2>2. CASE immediate
    <3>1. unread' = unread
      BY <1>3, <2>2 DEF KickAndWait
    <3>2. SignalInv'
      BY <2>1, <3>1, NoSignals DEF SignalInv
    <3>3. LeavingInv'
      BY <1>0, <1>3, <2>2 DEF LeavingInv, Leaving, Blocking, KickAndWait, reader
    <3>4. QED
      BY <3>2, <3>3 DEF ModeInv
  <2>3. CASE ~immediate
    <3>1. Allocate("wake") /\ "wake" \in Kinds
      BY <1>3, <2>3 DEF KickAndWait, Kinds
    <3>2. \A i \in 1 .. Len(unread') :
             unread'[i] \in Signals => i = Len(unread') /\ unread'[i] = "wake"
      BY <1>0, <2>1, <3>1, NoSignals, AllocateLast
    <3>3. Awaited("wake")'
      BY <1>3, <2>3 DEF Awaited, Blocking, KickAndWait
    <3>4. SignalInv'
      BY <2>1, <3>2, <3>3, NoSignals DEF SignalInv
    <3>5. LeavingInv'
      BY <1>0, <1>3, <2>3 DEF LeavingInv, Leaving, Blocking, KickAndWait, reader
    <3>6. QED
      BY <3>4, <3>5 DEF ModeInv
  <2>4. QED
    BY <2>2, <2>3
<1>4. CASE FinishWriting
  <2>1. Allocate("finish") /\ "finish" \in Kinds /\ ~Blocking
    BY <1>4 DEF FinishWriting, Kinds, Blocking
  <2>2. \A i \in 1 .. Len(unread') : unread'[i] \notin Signals
    BY <1>0, <2>1, NoSignals, AllocateLast DEF Signals
  <2>3. SignalInv'
    BY <1>4, <2>1, <2>2, NoSignals DEF SignalInv, FinishWriting
  <2>4. LeavingInv'
    BY <1>0, <1>4 DEF LeavingInv, Leaving, Blocking, FinishWriting, reader
  <2>5. QED
    BY <2>3, <2>4 DEF ModeInv
<1>5. CASE SetMultithreadedOn
  <2>1. Allocate("work") /\ "work" \in Kinds /\ ~Blocking /\ cpc = "none"
    BY <1>5 DEF SetMultithreadedOn, Kinds, Blocking
  <2>2. \A i \in 1 .. Len(unread') : unread'[i] \notin Signals
    BY <1>0, <2>1, NoSignals, AllocateLast DEF Signals
  <2>3. cpc' = "loop" /\ ~terminate' /\ attached' /\ ~immediate' /\ ppc' = "idle" /\ op' = op
    BY <1>0, <1>5, <2>1 DEF LeavingInv, SetMultithreadedOn, RunConsumerThread
  <2>4. SignalInv'
    BY <2>2, <2>3 DEF SignalInv
  <2>5. LeavingInv'
    BY <1>0, <1>5, <2>3 DEF LeavingInv, Leaving, Blocking, SetMultithreadedOn
  <2>6. QED
    BY <2>4, <2>5 DEF ModeInv
<1>6. CASE SetMultithreadedOff
  <2>1. Allocate("work") /\ "work" \in Kinds /\ ~Blocking
    BY <1>6 DEF SetMultithreadedOff, Kinds, Blocking
  <2>2. \A i \in 1 .. Len(unread') : unread'[i] \notin Signals
    BY <1>0, <2>1, NoSignals, AllocateLast DEF Signals
  <2>3. SignalInv'
    BY <1>6, <2>1, <2>2, NoSignals DEF SignalInv, SetMultithreadedOff
  <2>4. LeavingInv'
    BY <1>0, <1>6 DEF LeavingInv, Leaving, Blocking, SetMultithreadedOff, reader
  <2>5. QED
    BY <2>3, <2>4 DEF ModeInv
<1>7. CASE TerminateConsumerThread
  <2>1. ~Blocking /\ UNCHANGED <<cpc, current, attached, reader>> /\ ppc = "terminate"
    BY <1>7 DEF TerminateConsumerThread, Blocking
  <2>2. CASE ~immediate
    <3>1. ~Leaving /\ attached
      BY <1>0, <2>1, <2>2 DEF LeavingInv, Leaving
    <3>2. Allocate("terminate") /\ "terminate" \in Kinds
      BY <1>7, <3>1 DEF TerminateConsumerThread, Kinds
    <3>3. \A i \in 1 .. Len(unread') :
             unread'[i] \in Signals => i = Len(unread') /\ unread'[i] = "terminate"
      BY <1>0, <2>1, <3>2, NoSignals, AllocateLast
    <3>4. op = "setMultithreadedOff"
      BY <1>0, <2>1 DEF LeavingInv
    <3>5. Awaited("terminate")'
      BY <1>7, <2>2, <3>1, <3>4 DEF Awaited, Blocking, TerminateConsumerThread
    <3>6. SignalInv'
      BY <2>1, <3>3, <3>5, NoSignals DEF SignalInv
    <3>7. LeavingInv'
      BY <1>0, <1>7, <2>2, <3>1 DEF LeavingInv, Leaving, Blocking, TerminateConsumerThread, reader
    <3>8. QED
      BY <3>6, <3>7 DEF ModeInv
  <2>3. ~immediate
    BY <1>0, <2>1 DEF LeavingInv
  <2>4. QED
    BY <2>2, <2>3
<1>8. CASE PushMessages
  <2>1. UNCHANGED <<unread, sem, immediate, op, cpc, current, reader, attached>>
        /\ ppc = "push" /\ ppc' = "signal"
    BY <1>8 DEF PushMessages
  <2>2. SignalInv'
    BY <1>0, <2>1, SignalStays DEF Blocking
  <2>3. LeavingInv'
    BY <1>0, <2>1 DEF LeavingInv, Leaving, Blocking, reader
  <2>4. QED
    BY <2>2, <2>3 DEF ModeInv
<1>9. CASE Signal
  <2>1. /\ UNCHANGED <<unread, sem, immediate, current, reader, attached>>
        /\ ppc = "signal"
        /\ cpc' = cpc \/ (cpc = "asleep" /\ cpc' = "woken")
    BY <1>9 DEF Signal
  <2>2. CASE op = "kick"
    <3>1. ppc' = "idle" /\ op' = "none"
      BY <1>9, <2>2 DEF Signal
    <3>2. /\ \A i \in 1 .. Len(unread) : unread[i] \notin Signals
          /\ ~(cpc = "execute" /\ current \in Signals)
      BY <1>0, <2>2 DEF SignalInv, Awaited
    <3>3. SignalInv'
      BY <2>1, <3>2 DEF SignalInv
    <3>4. LeavingInv'
      BY <1>0, <2>1, <2>2, <3>1 DEF LeavingInv, Leaving, Blocking, reader
    <3>5. QED
      BY <3>3, <3>4 DEF ModeInv
  <2>3. CASE op # "kick"
    <3>1. ppc' = "wait" /\ op' = op
      BY <1>9, <2>3 DEF Signal
    <3>2. SignalInv'
      BY <1>0, <2>1, <3>1, SignalStays DEF Blocking
    <3>3. LeavingInv'
      BY <1>0, <2>1, <3>1 DEF LeavingInv, Leaving, Blocking, reader
    <3>4. QED
      BY <3>2, <3>3 DEF ModeInv
  <2>4. QED
    BY <2>2, <2>3
<1>10. CASE Await
  <2>1. /\ UNCHANGED <<unread, reader, attached, cpc, current>>
        /\ ppc = "wait" /\ sem > 0 /\ ppc' = "idle" /\ op' = "none"
        /\ immediate' = (immediate \/ op = "setMultithreadedOff")
    BY <1>10 DEF Await
  <2>2. /\ \A i \in 1 .. Len(unread) : unread[i] \notin Signals
        /\ ~(cpc = "execute" /\ current \in Signals)
    BY <1>0, <2>1 DEF SignalInv, Awaited
  <2>3. SignalInv'
    BY <2>1, <2>2 DEF SignalInv
  <2>4. Leaving' <=> Leaving
    BY <2>1 DEF Leaving, Blocking
  <2>5. LeavingInv'
    BY <1>0, <2>1, <2>4 DEF LeavingInv, reader
  <2>6. QED
    BY <2>3, <2>5 DEF ModeInv
<1>11. CASE ImmediateChunkSwitch
  <2>1. UNCHANGED <<unread, sem, immediate, op, ppc, cpc, current, finished, terminate, attached>>
    BY <1>11 DEF ImmediateChunkSwitch, threads
  <2>2. SignalInv'
    BY <1>0, <2>1, SignalStays DEF Blocking
  <2>3. LeavingInv'
    BY <1>0, <2>1 DEF LeavingInv, Leaving, Blocking
  <2>4. QED
    BY <2>2, <2>3 DEF ModeInv
<1>12. CASE ImmediateChunkSwitchSleeps
  <2>1. /\ UNCHANGED <<sem, immediate, op, cpc, current, finished, terminate, attached>>
        /\ ppc = "idle" /\ ppc' = "asleep" /\ immediate
        /\ unread' = unread \o <<"switch", "dummy">>
    BY <1>12 DEF ImmediateChunkSwitchSleeps
  <2>2. unread = <<>>
    BY <1>0, <2>1 DEF LeavingInv, Leaving
  <2>3. unread' = <<"switch", "dummy">>
    BY <2>1, <2>2
  <2>4. Len(unread') = 2 /\ unread'[1] \notin Signals /\ unread'[2] \notin Signals
    BY <2>3 DEF Signals
  <2>5. \A i \in 1 .. Len(unread') : unread'[i] \notin Signals
    BY <2>4
  <2>6. SignalInv'
    BY <2>1, <2>5, NoSignals DEF SignalInv, Blocking
  <2>7. LeavingInv'
    BY <1>0, <2>1, <2>4 DEF LeavingInv, Leaving, Blocking
  <2>8. QED
    BY <2>6, <2>7 DEF ModeInv
<1>13. CASE ProducerSpuriousWakeup
  <2>1. /\ UNCHANGED <<sem, immediate, op, cpc, current, finished, terminate, attached>>
        /\ ppc = "asleep" /\ ppc' = "idle"
        /\ unread' = SubSeq(unread, 1, Len(unread) - 2)
    BY <1>13 DEF ProducerSpuriousWakeup
  <2>2. Len(unread) = 2 /\ immediate
    BY <1>0, <2>1 DEF LeavingInv
  <2>3. unread' = <<>>
    BY <1>0, <2>1, <2>2 DEF TypeOK
  <2>4. SignalInv'
    BY <2>1, <2>3, NoSignals DEF SignalInv, Blocking
  <2>5. LeavingInv'
    BY <1>0, <2>1, <2>2, <2>3 DEF LeavingInv, Leaving, Blocking
  <2>6. QED
    BY <2>4, <2>5 DEF ModeInv
<1>14. QED
  BY <1>1, <1>2, <1>3, <1>4, <1>5, <1>6, <1>7, <1>8, <1>9, <1>10, <1>11, <1>12, <1>13
     DEF Producer

(* One step per action of the consumer.                                    *)
LEMMA ModeConsumer ==
  ASSUME ModeInv, CountInv, TypeOK', Consumer \/ SpuriousWakeup
  PROVE  ModeInv'
<1>0. TypeOK /\ SignalInv /\ LeavingInv
  BY DEF ModeInv
<1>1. CASE ConsumerLoop \/ FlushMessages \/ PullFirst \/ EventWait \/ PullAgain
             \/ SpuriousWakeup \/ ConsumerExit
  <2>1. UNCHANGED <<unread, sem, immediate, op, ppc, current, terminate>> /\ cpc' # "execute"
    BY <1>1 DEF ConsumerLoop, FlushMessages, PullFirst, EventWait, PullAgain,
                SpuriousWakeup, ConsumerExit, reader
  <2>2. SignalInv'
    BY <1>0, <2>1, SignalStays DEF Blocking
  <2>3. LeavingInv'
    BY <1>0, <1>1, <2>1 DEF LeavingInv, Leaving, Blocking, ConsumerLoop, FlushMessages,
       PullFirst, EventWait, PullAgain, SpuriousWakeup, ConsumerExit, reader
  <2>4. QED
    BY <2>2, <2>3 DEF ModeInv
<1>2. CASE ReadMessage
  <2>1. /\ UNCHANGED <<sem, immediate, op, ppc, terminate, finished, attached>>
        /\ cpc = "read" /\ cpc' = "execute"
        /\ current' = Head(unread) /\ unread' = Tail(unread)
    BY <1>2 DEF ReadMessage
  <2>2. ~Leaving /\ ppc # "asleep"
    BY <1>0, <2>1 DEF LeavingInv, Leaving
  <2>3. CASE unread = <<>>
    <3>1. Len(unread) = 0 /\ newCount > 0
      BY <1>2, <2>3 DEF ReadMessage
    <3>2. Minus(written, snap) \in Nat
      BY <1>0, MinusType DEF TypeOK
    <3>3. QED
      BY <1>0, <3>1, <3>2 DEF CountInv, CountsExact, TypeOK
  <2>4. CASE unread # <<>>
    <3>1. /\ Len(unread) \in Nat \ {0} /\ current' = unread[1]
          /\ Len(unread') = Len(unread) - 1
          /\ \A i \in 1 .. Len(unread) - 1 : unread'[i] = unread[i + 1]
      BY <1>0, <2>1, <2>4 DEF TypeOK
    <3> DEFINE n == Len(unread)
    <3> HIDE DEF n
    <3>2. \A i \in 1 .. n - 1 : i + 1 \in 1 .. n /\ (i + 1 = n => i = n - 1)
      BY <3>1 DEF n
    <3>3. \A m : Awaited(m)' <=> Awaited(m)
      BY <2>1 DEF Awaited, Blocking
    <3>4. \A i \in 1 .. Len(unread') :
             unread'[i] \in Signals => i = Len(unread') /\ Awaited(unread'[i])
      BY <1>0, <3>1, <3>2 DEF SignalInv, n
    <3>5. current' \in Signals => unread' = <<>> /\ Awaited(current')
      <4>1. 1 \in 1 .. n
        BY <3>1 DEF n
      <4>2. current' \in Signals => n = 1 /\ Awaited(current')
        BY <1>0, <3>1, <4>1 DEF SignalInv, n
      <4>3. n = 1 => unread' = <<>>
        BY <1>0, <2>1, <3>1 DEF TypeOK, n
      <4>4. QED
        BY <4>2, <4>3
    <3>6. SignalInv'
      BY <3>3, <3>4, <3>5 DEF SignalInv
    <3>7. LeavingInv'
      BY <1>0, <2>1, <2>2 DEF LeavingInv, Leaving, Blocking
    <3>8. QED
      BY <3>6, <3>7 DEF ModeInv
  <2>5. QED
    BY <2>3, <2>4
<1>3. CASE ExecuteMessage
  <2>1. /\ UNCHANGED <<unread, immediate, attached, ppc, op, current>>
        /\ cpc = "execute" /\ cpc' = "destroy"
    BY <1>3 DEF ExecuteMessage
  <2>2. ~Leaving /\ ppc # "asleep"
    BY <1>0, <2>1 DEF LeavingInv, Leaving
  <2>3. CASE current \notin Signals
    <3>1. sem' = sem /\ terminate' = terminate
      BY <1>3, <2>3 DEF ExecuteMessage, ExecutePlain, ExecuteSwitch, ExecuteWake,
                        ExecuteFinish, ExecuteTerminate, PullMessages, Signals
    <3>2. SignalInv'
      BY <1>0, <2>1, <3>1, SignalStays DEF Blocking
    <3>3. LeavingInv'
      BY <1>0, <2>1, <2>2, <3>1 DEF LeavingInv, Leaving, Blocking
    <3>4. QED
      BY <3>2, <3>3 DEF ModeInv
  <2>4. CASE current = "wake"
    <3>1. unread = <<>> /\ op = "kickAndWait"
      BY <1>0, <2>1, <2>4 DEF SignalInv, Awaited, Signals
    <3>2. terminate' = terminate
      BY <1>3, <2>4 DEF ExecuteMessage, ExecutePlain, ExecuteSwitch, ExecuteWake,
                        ExecuteFinish, ExecuteTerminate
    <3>3. SignalInv'
      BY <2>1, <3>1 DEF SignalInv
    <3>4. LeavingInv'
      BY <1>0, <2>1, <2>2, <3>1, <3>2 DEF LeavingInv, Leaving, Blocking
    <3>5. QED
      BY <3>3, <3>4 DEF ModeInv
  <2>5. CASE current = "terminate"
    <3>1. unread = <<>> /\ op = "setMultithreadedOff" /\ Blocking /\ sem = 0
      BY <1>0, <2>1, <2>5 DEF SignalInv, Awaited, Signals
    <3>2. terminate' /\ finished' /\ sem' = 1
      BY <1>3, <2>5, <3>1 DEF ExecuteMessage, ExecutePlain, ExecuteSwitch, ExecuteWake,
                              ExecuteFinish, ExecuteTerminate
    <3>3. SignalInv'
      BY <2>1, <3>1 DEF SignalInv
    <3>4. LeavingInv'
      BY <1>0, <2>1, <2>2, <3>1, <3>2 DEF LeavingInv, Leaving, Blocking
    <3>5. QED
      BY <3>3, <3>4 DEF ModeInv
  <2>6. QED
    BY <2>3, <2>4, <2>5 DEF Signals
<1>4. CASE DestroyMessage
  <2>1. /\ UNCHANGED <<unread, sem, immediate, op, ppc, terminate, finished, attached>>
        /\ cpc = "destroy" /\ cpc' = "flush"
    BY <1>4 DEF DestroyMessage, reader
  <2>2. SignalInv'
    BY <1>0, <2>1, SignalStays DEF Blocking
  <2>3. LeavingInv'
    BY <1>0, <2>1 DEF LeavingInv, Leaving, Blocking
  <2>4. QED
    BY <2>2, <2>3 DEF ModeInv
<1>5. QED
  BY <1>1, <1>2, <1>3, <1>4 DEF Consumer

LEMMA ModeInductive == ASSUME JoinBeforeRestart PROVE Spec => []ModeInv
<1>1. Init => ModeInv
  BY ModeInit
<1>2. ModeInv /\ CountInv /\ TypeOK' /\ [Next]_vars => ModeInv'
  <2> SUFFICES ASSUME ModeInv, CountInv, TypeOK', [Next]_vars PROVE ModeInv'
    OBVIOUS
  <2>1. CASE Producer \/ ProducerSpuriousWakeup
    BY <2>1, ModeProducer
  <2>2. CASE Consumer \/ SpuriousWakeup
    BY <2>2, ModeConsumer
  <2>3. CASE UNCHANGED vars
    BY <2>3 DEF vars, ModeInv, SignalInv, Awaited, LeavingInv, Leaving, Blocking
  <2>4. QED
    BY <2>1, <2>2, <2>3 DEF Next
<1>3. QED
  BY <1>1, <1>2, TypeCorrect, CountInvInductive, PTL DEF Spec

(* The assertion of allocateImpl holds: between the calls of a producer in *)
(* immediate mode the queue is empty, since only the consumer's execution  *)
(* of the terminate message, the last there is, lets the producer enter    *)
(* immediate mode (terminateConsumerThread); and the counters, however     *)
(* often they wrapped, say so.                                             *)
THEOREM SwitchExecutesTwo ==
  ASSUME JoinBeforeRestart PROVE Spec => []TwoMessagesToExecute
<1>1. ASSUME ModeInv, CountInv PROVE TwoMessagesToExecute
  <2> SUFFICES ASSUME immediate, ppc = "idle" PROVE ImmediatePull = 2
    BY DEF TwoMessagesToExecute
  <2>1. Len(unread) = 0
    BY <1>1 DEF ModeInv, LeavingInv, Leaving
  <2>2. /\ written \in 0 .. CounterMod - 1 /\ snap \in 0 .. CounterMod - 1
        /\ newCount \in Nat /\ pending \in Nat
    BY <1>1 DEF CountInv, TypeOK
  <2>3. newCount + Minus(written, snap) + pending = 0 /\ Minus(written, snap) \in Nat
    BY <1>1, <2>1, <2>2, MinusType DEF CountInv, CountsExact
  <2>4. newCount = 0 /\ pending = 0 /\ Minus(written, snap) = 0
    BY <2>2, <2>3
  <2>5. 2 < CounterMod
    BY QueueAssumption
  <2>6. Minus(Plus(written, 2), snap) = 2
    BY <2>2, <2>4, <2>5, MinusPlus
  <2>7. QED
    BY <2>4, <2>6 DEF ImmediatePull
<1>2. QED
  BY <1>1, ModeInductive, CountInvInductive, PTL

------------------------------------------------------------------------------
(* The refinement of SPSCQueue.                                            *)

Buffered == SubSeq(unread, Published + 1, Len(unread))
Visible == SubSeq(unread, 1, Published - InPlace)

(* What the mapping needs beside the counts and the modes.  A producer     *)
(* that waits has published all it wrote; the semaphore is up only when    *)
(* nothing is left to read, and the message that is still being executed   *)
(* is the one that signalled it.                                           *)
MappingInv ==
  /\ ppc \in {"signal", "wait", "asleep"} => pending = 0
  /\ ppc = "wait" => op # "kick"
  /\ current = NoMessage <=> cpc \notin {"execute", "destroy"}
  /\ Leaving => current \in {"terminate", NoMessage}
  /\ Blocking /\ op # "kick" /\ sem > 0 =>
       unread = <<>> /\ current \in Signals \cup {NoMessage}

------------------------------------------------------------------------------
(* The two parts of a list.                                                *)

(* Writing behind the list lengthens its second part.                      *)
LEMMA WriteBehind ==
  ASSUME NEW s \in Seq(Kinds), NEW t \in Seq(Kinds), NEW p \in 0 .. Len(s),
         Len(t) > 0
  PROVE  /\ SubSeq(s \o t, 1, p) = SubSeq(s, 1, p)
         /\ SubSeq(s \o t, p + 1, Len(s \o t)) \in Seq(Kinds)
         /\ Len(SubSeq(s \o t, p + 1, Len(s \o t))) > Len(SubSeq(s, p + 1, Len(s)))
         /\ SubSeq(SubSeq(s \o t, p + 1, Len(s \o t)), 1, Len(SubSeq(s, p + 1, Len(s))))
              = SubSeq(s, p + 1, Len(s))
<1> DEFINE u == s \o t
           old == SubSeq(s, p + 1, Len(s))
           new == SubSeq(u, p + 1, Len(u))
           k == Len(s)
           n == Len(u)
<1>1. /\ k \in Nat /\ p \in Nat /\ p <= k /\ Len(t) \in Nat
      /\ u \in Seq(Kinds) /\ n = k + Len(t) /\ n \in Nat
      /\ \A i \in 1 .. k : u[i] = s[i] /\ s[i] \in Kinds
      /\ \A i \in 1 .. n : u[i] \in Kinds
  BY ConcatProperties, ElementOfSeq, LenProperties
<1> HIDE DEF u
<1>2. /\ old \in Seq(Kinds) /\ Len(old) = k - p /\ Len(old) \in Nat
      /\ \A i \in 1 .. k - p : old[i] = s[p + i]
  <2>1. \A i \in p + 1 .. k : s[i] \in Kinds
    BY <1>1
  <2>2. QED
    BY <1>1, <2>1, SubSeqProperties
<1>3. /\ new \in Seq(Kinds) /\ Len(new) = n - p
      /\ \A i \in 1 .. n - p : new[i] = u[p + i]
  <2>1. \A i \in p + 1 .. n : u[i] \in Kinds
    BY <1>1
  <2>2. QED
    BY <1>1, <2>1, SubSeqProperties
<1> HIDE DEF new, old, k, n
<1>4. SubSeq(u, 1, p) = SubSeq(s, 1, p)
  <2>1. /\ SubSeq(u, 1, p) \in Seq(Kinds) /\ Len(SubSeq(u, 1, p)) = p
        /\ \A i \in 1 .. p : SubSeq(u, 1, p)[i] = u[i]
    <3>1. \A i \in 1 .. p : u[i] \in Kinds
      BY <1>1
    <3>2. QED
      BY <1>1, <3>1, SubSeqProperties
  <2>2. /\ SubSeq(s, 1, p) \in Seq(Kinds) /\ Len(SubSeq(s, 1, p)) = p
        /\ \A i \in 1 .. p : SubSeq(s, 1, p)[i] = s[i]
    <3>1. \A i \in 1 .. p : s[i] \in Kinds
      BY <1>1
    <3>2. QED
      BY <1>1, <3>1, SubSeqProperties
  <2>3. \A i \in 1 .. p : u[i] = s[i]
    BY <1>1
  <2>4. QED
    BY <2>1, <2>2, <2>3, SeqEqual
<1>5. SubSeq(new, 1, k - p) = old
  <2>1. k - p \in Nat /\ \A i \in 1 .. k - p : p + i \in 1 .. k /\ i \in 1 .. n - p
    BY <1>1
  <2>2. \A i \in 1 .. k - p : new[i] = old[i] /\ new[i] \in Kinds
    BY <1>1, <1>2, <1>3, <2>1
  <2>3. /\ SubSeq(new, 1, k - p) \in Seq(Kinds) /\ Len(SubSeq(new, 1, k - p)) = k - p
        /\ \A i \in 1 .. k - p : SubSeq(new, 1, k - p)[i] = new[i]
    BY <2>1, <2>2, SubSeqProperties
  <2>4. QED
    BY <1>2, <2>2, <2>3, SeqEqual
<1>6. QED
  BY <1>1, <1>2, <1>3, <1>4, <1>5 DEF u, new, old, k, n

(* Publishing moves the second part to the first.                          *)
LEMMA PublishAll ==
  ASSUME NEW s \in Seq(Kinds), NEW p \in 0 .. Len(s)
  PROVE  /\ SubSeq(s, 1, Len(s)) = SubSeq(s, 1, p) \o SubSeq(s, p + 1, Len(s))
         /\ SubSeq(s, Len(s) + 1, Len(s)) = <<>>
<1>1. Len(s) \in Nat
  BY LenProperties
<1>2. 1 \in 1 .. Len(s) + 1 /\ p \in 1 - 1 .. Len(s) /\ Len(s) \in p .. Len(s)
  BY <1>1
<1>3. SubSeq(s, 1, Len(s)) = SubSeq(s, 1, p) \o SubSeq(s, p + 1, Len(s))
  BY <1>2, ConcatAdjacentSubSeq, Zenon
<1>4. SubSeq(s, Len(s) + 1, Len(s)) = <<>>
  BY <1>1, SubSeqEmpty
<1>5. QED
  BY <1>3, <1>4

(* Reading takes the first of the first part, and leaves the second alone. *)
LEMMA ReadFirst ==
  ASSUME NEW s \in Seq(Kinds), NEW p \in 1 .. Len(s)
  PROVE  /\ SubSeq(s, 1, p) # <<>>
         /\ Head(SubSeq(s, 1, p)) = Head(s)
         /\ Tail(SubSeq(s, 1, p)) = SubSeq(Tail(s), 1, p - 1)
         /\ SubSeq(Tail(s), p, Len(s) - 1) = SubSeq(s, p + 1, Len(s))
         /\ Len(Tail(s)) = Len(s) - 1
<1> DEFINE k == Len(s)
           r == Tail(s)
<1>1. /\ k \in Nat /\ p \in Nat /\ 1 <= p /\ p <= k /\ s # <<>>
      /\ \A i \in 1 .. k : s[i] \in Kinds
  BY LenProperties, ElementOfSeq, EmptySeq
<1>2. /\ r \in Seq(Kinds) /\ Len(r) = k - 1
      /\ \A i \in 1 .. k - 1 : r[i] = s[i + 1] /\ r[i] \in Kinds
  BY <1>1, HeadTailProperties
<1> HIDE DEF k, r
<1>3. Len(SubSeq(s, 1, p)) = p
  <2>1. \A i \in 1 .. p : s[i] \in Kinds
    BY <1>1
  <2>2. QED
    BY <1>1, <2>1, SubSeqProperties
<1>4. SubSeq(s, 1, p) # <<>>
  BY <1>1, <1>3, EmptySeq
<1>5. Head(SubSeq(s, 1, p)) = s[1] /\ Tail(SubSeq(s, 1, p)) = SubSeq(s, 2, p)
  <2>1. 1 \in 1 .. Len(s) /\ p \in 1 .. Len(s)
    BY <1>1 DEF k
  <2>2. QED
    BY <2>1, HeadTailOfSubSeq
<1>6. Head(s) = s[1]
  BY <1>1
<1>7. SubSeq(s, 2, p) = SubSeq(r, 1, p - 1)
  <2>1. \A i \in 2 .. p : s[i] \in Kinds
    BY <1>1
  <2>2. /\ SubSeq(s, 2, p) \in Seq(Kinds) /\ Len(SubSeq(s, 2, p)) = p - 1
        /\ \A i \in 1 .. p - 1 : SubSeq(s, 2, p)[i] = s[i + 1]
    BY <1>1, <2>1, SubSeqProperties
  <2>3. \A i \in 1 .. p - 1 : r[i] \in Kinds /\ r[i] = s[i + 1]
    BY <1>1, <1>2
  <2>4. /\ SubSeq(r, 1, p - 1) \in Seq(Kinds) /\ Len(SubSeq(r, 1, p - 1)) = p - 1
        /\ \A i \in 1 .. p - 1 : SubSeq(r, 1, p - 1)[i] = r[i]
    BY <1>1, <2>3, SubSeqProperties
  <2>5. QED
    BY <2>2, <2>3, <2>4, SeqEqual
<1>8. SubSeq(r, p, k - 1) = SubSeq(s, p + 1, k)
  <2>1. \A i \in p + 1 .. k : s[i] \in Kinds
    BY <1>1
  <2>2. /\ SubSeq(s, p + 1, k) \in Seq(Kinds) /\ Len(SubSeq(s, p + 1, k)) = k - p
        /\ \A i \in 1 .. k - p : SubSeq(s, p + 1, k)[i] = s[p + i]
    BY <1>1, <2>1, SubSeqProperties
  <2>3. \A i \in p .. k - 1 : r[i] \in Kinds /\ r[i] = s[i + 1]
    BY <1>1, <1>2
  <2>4. /\ SubSeq(r, p, k - 1) \in Seq(Kinds) /\ Len(SubSeq(r, p, k - 1)) = k - p
        /\ \A i \in 1 .. k - p : SubSeq(r, p, k - 1)[i] = r[p + i - 1]
    BY <1>1, <2>3, SubSeqProperties
  <2>5. \A i \in 1 .. k - p : p + i - 1 \in p .. k - 1 /\ (p + i - 1) + 1 = p + i
    BY <1>1
  <2>6. \A i \in 1 .. k - p : SubSeq(r, p, k - 1)[i] = SubSeq(s, p + 1, k)[i]
    BY <2>2, <2>3, <2>4, <2>5
  <2>7. QED
    BY <2>2, <2>4, <2>6, SeqEqual
<1>9. QED
  BY <1>2, <1>4, <1>5, <1>6, <1>7, <1>8 DEF k, r

------------------------------------------------------------------------------
(* The invariant.                                                          *)

LEMMA MappingInit == Init => MappingInv
BY DEF Init, MappingInv, Leaving, Blocking, Kinds

(* One step per action of the producer.                                    *)
LEMMA MappingProducer ==
  ASSUME CountInv, ModeInv, ModeInv', MappingInv, JoinBeforeRestart,
         Producer \/ ProducerSpuriousWakeup
  PROVE  MappingInv'
<1>0. TypeOK /\ SignalInv /\ LeavingInv /\ LeavingInv'
  BY DEF ModeInv
<1>1. CASE WriteMessage \/ Kick \/ FinishWriting \/ SetMultithreadedOff
  BY <1>0, <1>1 DEF WriteMessage, Kick, FinishWriting, SetMultithreadedOff, threads,
                    MappingInv, Leaving, Blocking
<1>2. CASE KickAndWait
  <2>1. immediate => unread' = <<>> /\ current \in {"terminate", NoMessage}
    BY <1>0, <1>2 DEF KickAndWait, LeavingInv, MappingInv, Leaving
  <2>2. ~immediate => sem' = 0
    BY <1>2 DEF KickAndWait
  <2>3. ppc' = "push" /\ op' = "kickAndWait" /\ UNCHANGED <<immediate, cpc, current>>
    BY <1>2 DEF KickAndWait
  <2>4. QED
    BY <1>0, <2>1, <2>2, <2>3 DEF MappingInv, Leaving, Blocking, Signals
<1>3. CASE SetMultithreadedOn
  <2>1. cpc = "none" /\ ppc = "idle" /\ ~immediate'
        /\ UNCHANGED <<ppc, op, current>>
    BY <1>3 DEF SetMultithreadedOn
  <2>2. cpc' \in {"none", "loop"}
    BY <1>3, <2>1 DEF SetMultithreadedOn, RunConsumerThread
  <2>3. QED
    BY <2>1, <2>2 DEF MappingInv, Leaving, Blocking
<1>4. CASE TerminateConsumerThread
  <2>1. attached
    BY <1>0, <1>4 DEF TerminateConsumerThread, LeavingInv, Leaving, Blocking
  <2>2. sem' = 0 /\ ppc' = "push" /\ UNCHANGED <<immediate, op, cpc, current>>
    BY <1>4, <2>1 DEF TerminateConsumerThread
  <2>3. QED
    BY <1>4, <2>2 DEF MappingInv, Leaving, Blocking, TerminateConsumerThread
<1>5. CASE PushMessages
  BY <1>5 DEF PushMessages, MappingInv, Leaving, Blocking
<1>6. CASE Signal
  <2>1. /\ UNCHANGED <<unread, pending, immediate, sem, current>> /\ ppc = "signal"
        /\ cpc' \in {"execute", "destroy"} <=> cpc \in {"execute", "destroy"}
        /\ \/ op = "kick" /\ ppc' = "idle" /\ op' = "none"
           \/ op # "kick" /\ ppc' = "wait" /\ op' = op
    BY <1>6 DEF Signal, writer
  <2>2. QED
    BY <2>1 DEF MappingInv, Leaving, Blocking
<1>7. CASE Await
  BY <1>7 DEF Await, MappingInv, Leaving, Blocking
<1>8. CASE ImmediateChunkSwitch
  BY <1>8 DEF ImmediateChunkSwitch, PublishAndPull, threads, MappingInv, Leaving, Blocking
<1>9. CASE ImmediateChunkSwitchSleeps
  BY <1>9 DEF ImmediateChunkSwitchSleeps, PublishAndPull, MappingInv, Leaving, Blocking
<1>10. CASE ProducerSpuriousWakeup
  BY <1>10 DEF ProducerSpuriousWakeup, writer, MappingInv, Leaving, Blocking
<1>11. QED
  BY <1>1, <1>2, <1>3, <1>4, <1>5, <1>6, <1>7, <1>8, <1>9, <1>10 DEF Producer

(* What the reader has counted is in the list, and published.              *)
LEMMA NewPublished ==
  ASSUME CountInv
  PROVE  /\ Published \in Nat /\ pending \in Nat /\ Len(unread) \in Nat
         /\ Published + pending = Len(unread)
         /\ newCount > 0 => Published > 0
<1>1. /\ newCount \in Nat /\ pending \in Nat /\ Len(unread) \in Nat
      /\ Minus(written, snap) \in Nat
  BY MinusType DEF CountInv, TypeOK
<1>2. newCount + Minus(written, snap) + pending = Len(unread)
  BY DEF CountInv, CountsExact
<1>3. QED
  BY <1>1, <1>2 DEF Published

(* One step per action of the consumer.                                    *)
LEMMA MappingConsumer ==
  ASSUME CountInv, ModeInv, ModeInv', MappingInv, Consumer \/ SpuriousWakeup
  PROVE  MappingInv'
<1>0. TypeOK /\ SignalInv /\ LeavingInv
  BY DEF ModeInv
<1>1. CASE ConsumerLoop \/ FlushMessages \/ PullFirst \/ EventWait \/ PullAgain
             \/ SpuriousWakeup \/ ConsumerExit
  <2>1. /\ UNCHANGED <<unread, pending, sem, immediate, op, ppc, current>>
        /\ cpc \notin {"execute", "destroy"} /\ cpc' \notin {"execute", "destroy"}
    BY <1>1 DEF ConsumerLoop, FlushMessages, PullFirst, EventWait, PullAgain,
                SpuriousWakeup, ConsumerExit, writer
  <2>2. QED
    BY <2>1 DEF MappingInv, Leaving, Blocking
<1>2. CASE ReadMessage
  <2>1. /\ UNCHANGED <<pending, sem, immediate, op, ppc>>
        /\ cpc = "read" /\ cpc' = "execute" /\ newCount > 0
        /\ current' = Head(unread)
    BY <1>2 DEF ReadMessage, writer
  <2>2. ~Leaving
    BY <1>0, <2>1 DEF LeavingInv, Leaving
  <2>3. Len(unread) > 0
    BY <2>1, NewPublished
  <2>4. unread # <<>> /\ current' \in Kinds
    BY <1>0, <2>1, <2>3 DEF TypeOK
  <2>5. NoMessage \notin Kinds
    BY DEF NoMessage, Kinds
  <2>6. QED
    BY <2>1, <2>2, <2>4, <2>5 DEF MappingInv, Leaving, Blocking
<1>3. CASE ExecuteMessage
  <2>1. /\ UNCHANGED <<unread, pending, immediate, ppc, op, current>>
        /\ cpc = "execute" /\ cpc' = "destroy"
    BY <1>3 DEF ExecuteMessage, writer
  <2>2. CASE current \notin Signals
    <3>1. sem' = sem
      BY <1>3, <2>2 DEF ExecuteMessage, ExecutePlain, ExecuteSwitch, ExecuteWake,
                        ExecuteFinish, ExecuteTerminate, Signals
    <3>2. QED
      BY <2>1, <3>1 DEF MappingInv, Leaving, Blocking
  <2>3. CASE current \in Signals
    <3>1. unread = <<>> /\ Awaited(current)
      BY <1>0, <2>1, <2>3 DEF SignalInv
    <3>2. op = "setMultithreadedOff" => current = "terminate"
      BY <2>3, <3>1 DEF Awaited, Signals
    <3>3. ~immediate'
      BY <2>1, <3>1 DEF Awaited
    <3>4. QED
      BY <2>1, <2>3, <3>1, <3>2, <3>3 DEF MappingInv, Leaving, Blocking
  <2>4. QED
    BY <2>2, <2>3
<1>4. CASE DestroyMessage
  BY <1>4 DEF DestroyMessage, writer, MappingInv, Leaving, Blocking
<1>5. QED
  BY <1>1, <1>2, <1>3, <1>4 DEF Consumer

LEMMA MappingInductive == ASSUME JoinBeforeRestart PROVE Spec => []MappingInv
<1>1. MappingInv /\ CountInv /\ ModeInv /\ ModeInv' /\ [Next]_vars => MappingInv'
  <2> SUFFICES ASSUME MappingInv, CountInv, ModeInv, ModeInv', [Next]_vars
               PROVE  MappingInv'
    OBVIOUS
  <2>1. CASE Producer \/ ProducerSpuriousWakeup
    BY <2>1, MappingProducer
  <2>2. CASE Consumer \/ SpuriousWakeup
    BY <2>2, MappingConsumer
  <2>3. CASE UNCHANGED vars
    BY <2>3 DEF vars, MappingInv, Leaving, Blocking
  <2>4. QED
    BY <2>1, <2>2, <2>3 DEF Next
<1>2. QED
  BY <1>1, MappingInit, CountInvInductive, ModeInductive, PTL DEF Spec

------------------------------------------------------------------------------
(* Steps and what they are under the mapping.                              *)

Abstract == <<Buffered, Visible, current, ppc = "wait">>

(* No step of the promised queue: the list, what of it is published, what  *)
(* is executed and whether the producer waits are left alone.              *)
LEMMA Stutters ==
  ASSUME UNCHANGED <<unread, pending, current>>, InPlace' = InPlace,
         (ppc = "wait")' = (ppc = "wait")
  PROVE  UNCHANGED Abstract
BY DEF Abstract, Buffered, Visible, Published

(* Allocations are a Write.                                                *)
LEMMA AllocateWrites ==
  ASSUME CountInv, NEW m \in Kinds, Allocate(m), UNCHANGED current,
         ppc \notin {"wait", "asleep"}, ppc' \notin {"wait", "asleep"}
  PROVE  Promise!Write
<1>1. PICK batch \in Allocations(m) :
        unread' = unread \o batch /\ pending' = pending + Len(batch)
  BY DEF Allocate
<1>2. batch \in Seq(Kinds) /\ Len(batch) > 0 /\ Len(batch) \in Nat
  <2>1. "switch" \in Kinds /\ "dummy" \in Kinds
    BY DEF Kinds
  <2>2. CASE batch = <<m>>
    BY <2>2
  <2>3. CASE batch = <<"switch", "dummy", m>>
    BY <2>1, <2>3
  <2>4. QED
    BY <1>1, <2>2, <2>3 DEF Allocations
<1>3. /\ unread \in Seq(Kinds) /\ Published \in Nat /\ Published \in 0 .. Len(unread)
      /\ pending \in Nat /\ Len(unread) \in Nat
      /\ Published = Len(unread) - pending
  BY NewPublished DEF CountInv, TypeOK, Published
<1>4. Published' = Published
  <2>1. Len(unread') = Len(unread) + Len(batch)
    BY <1>1, <1>2, <1>3, ConcatProperties
  <2>2. Published' = Len(unread') - pending'
    BY DEF Published
  <2>3. QED
    BY <1>1, <1>2, <1>3, <2>1, <2>2
<1>5. InPlace = 0 /\ InPlace' = 0
  BY DEF InPlace
<1>6. Visible' = Visible
  <2>1. Visible' = SubSeq(unread \o batch, 1, Published)
    BY <1>1, <1>3, <1>4, <1>5 DEF Visible
  <2>2. Visible = SubSeq(unread, 1, Published)
    BY <1>3, <1>5 DEF Visible
  <2>3. QED
    BY <1>2, <1>3, <2>1, <2>2, WriteBehind
<1>7. /\ Buffered' \in Seq(Kinds) /\ Len(Buffered') > Len(Buffered)
      /\ SubSeq(Buffered', 1, Len(Buffered)) = Buffered
  <2> DEFINE new == SubSeq(unread \o batch, Published + 1, Len(unread \o batch))
  <2>1. Buffered' = new
    BY <1>1, <1>4 DEF Buffered
  <2>2. /\ new \in Seq(Kinds) /\ Len(new) > Len(Buffered)
        /\ SubSeq(new, 1, Len(Buffered)) = Buffered
    BY <1>2, <1>3, WriteBehind, Zenon DEF Buffered
  <2> HIDE DEF new
  <2>3. QED
    BY <2>1, <2>2
<1>8. (ppc = "wait") = FALSE /\ (ppc = "wait")' = FALSE
  OBVIOUS
<1>9. QED
  BY <1>6, <1>7, <1>8 DEF Promise!Write, Buffered, Visible

(* The other steps that change the queue.                                  *)
LEMMA PushPublishes ==
  ASSUME CountInv, CountInv', PushMessages
  PROVE  Promise!Publish
<1>1. /\ UNCHANGED <<unread, current>> /\ pending' = 0
      /\ ppc = "push" /\ ppc' = "signal"
  BY DEF PushMessages
<1>2. /\ unread \in Seq(Kinds) /\ Published \in Nat /\ Published \in 0 .. Len(unread)
      /\ Len(unread) \in Nat
  BY NewPublished DEF CountInv, TypeOK
<1>3. Published' = Len(unread) /\ InPlace = 0 /\ InPlace' = 0
  BY <1>1, <1>2 DEF Published, InPlace
<1>4. /\ Visible = SubSeq(unread, 1, Published)
      /\ Visible' = SubSeq(unread, 1, Len(unread))
      /\ Buffered' = SubSeq(unread, Len(unread) + 1, Len(unread))
  BY <1>1, <1>2, <1>3 DEF Visible, Buffered
<1>5. Visible' = Visible \o Buffered /\ Buffered' = <<>>
  BY <1>2, <1>4, PublishAll DEF Buffered
<1>6. ~(ppc = "wait") /\ (ppc = "wait")' = (ppc = "wait")
  BY <1>1
<1>7. QED
  BY <1>1, <1>5, <1>6 DEF Promise!Publish, Visible, Buffered

LEMMA SignalBlocks ==
  ASSUME CountInv, MappingInv, Signal
  PROVE  Promise!Block \/ UNCHANGED Abstract
<1>1. UNCHANGED <<unread, pending, current>> /\ ppc = "signal" /\ pending = 0
  BY DEF Signal, writer, MappingInv
<1>2. ppc' \in {"idle", "wait"}
  BY DEF Signal
<1>3. InPlace = 0 /\ InPlace' = 0
  BY <1>1, <1>2 DEF InPlace
<1>4. CASE ppc' = "idle"
  BY <1>1, <1>3, <1>4, Stutters
<1>5. CASE ppc' = "wait"
  <2>1. Buffered = <<>>
    <3>1. Len(unread) \in Nat /\ Published = Len(unread)
      BY <1>1, NewPublished DEF Published
    <3>2. QED
      BY <3>1, SubSeqEmpty DEF Buffered
  <2>2. Buffered' = Buffered /\ Visible' = Visible
    BY <1>1, <1>3 DEF Buffered, Visible, Published
  <2>3. (ppc = "wait") = FALSE /\ (ppc = "wait")' = TRUE
    BY <1>1, <1>5
  <2>4. QED
    BY <1>1, <2>1, <2>2, <2>3 DEF Promise!Block, Buffered, Visible
<1>6. QED
  BY <1>2, <1>4, <1>5

LEMMA AwaitUnblocks ==
  ASSUME CountInv, MappingInv, Await
  PROVE  Promise!Unblock
<1>1. UNCHANGED <<unread, pending, current>> /\ ppc = "wait" /\ ppc' = "idle" /\ sem > 0
  BY DEF Await, writer
<1>2. pending = 0 /\ unread = <<>> /\ current \in {"wake", "terminate"} \cup {NoMessage}
  BY <1>1 DEF MappingInv, Blocking, Signals
<1>3. InPlace = 0 /\ InPlace' = 0 /\ Published = 0
  <2>1. Len(unread) = 0
    BY <1>2
  <2>2. QED
    BY <1>1, <1>2, <2>1 DEF InPlace, Published
<1>4. Visible = <<>>
  BY <1>3, SubSeqEmpty DEF Visible
<1>5. Visible' = Visible /\ Buffered' = Buffered
  BY <1>1, <1>3 DEF Visible, Buffered, Published
<1>6. (ppc = "wait") = TRUE /\ (ppc = "wait")' = FALSE
  BY <1>1
<1>7. QED
  BY <1>1, <1>2, <1>4, <1>5, <1>6 DEF Promise!Unblock, Visible, Buffered

LEMMA ReadTakes ==
  ASSUME CountInv, ModeInv, MappingInv, ReadMessage
  PROVE  Promise!Take
<1>1. /\ UNCHANGED <<pending, ppc>> /\ cpc = "read" /\ newCount > 0
      /\ current' = Head(unread) /\ unread' = Tail(unread)
  BY DEF ReadMessage, writer
<1>2. current = NoMessage
  BY <1>1 DEF MappingInv
<1>3. ppc # "asleep"
  BY <1>1 DEF ModeInv, LeavingInv, Leaving
<1>4. InPlace = 0 /\ InPlace' = 0
  BY <1>1, <1>3 DEF InPlace
<1>5. /\ unread \in Seq(Kinds) /\ Published \in Nat /\ Published \in 1 .. Len(unread)
      /\ Len(unread) \in Nat /\ pending \in Nat /\ Published = Len(unread) - pending
  BY <1>1, NewPublished DEF CountInv, TypeOK, Published
<1>6. Len(unread') = Len(unread) - 1 /\ Published' = Published - 1
  <2>1. Len(Tail(unread)) = Len(unread) - 1
    BY <1>5, ReadFirst
  <2>2. QED
    BY <1>1, <1>5, <2>1 DEF Published
<1>7. /\ Visible = SubSeq(unread, 1, Published)
      /\ Visible' = SubSeq(Tail(unread), 1, Published - 1)
      /\ Buffered' = SubSeq(Tail(unread), Published, Len(unread) - 1)
  <2>1. Published - InPlace = Published /\ (Published - InPlace)' = Published - 1
        /\ Published' + 1 = Published
    BY <1>4, <1>5, <1>6
  <2>2. QED
    BY <1>1, <1>6, <2>1 DEF Visible, Buffered
<1>8. /\ Visible # <<>> /\ current' = Head(Visible) /\ Visible' = Tail(Visible)
      /\ Buffered' = Buffered
  BY <1>1, <1>5, <1>7, ReadFirst DEF Buffered
<1>9. (ppc = "wait")' = (ppc = "wait")
  BY <1>1
<1>10. QED
  BY <1>2, <1>8, <1>9 DEF Promise!Take, Visible, Buffered

LEMMA DestroyIsDone ==
  ASSUME MappingInv, DestroyMessage
  PROVE  Promise!Done
<1>1. /\ UNCHANGED <<unread, pending, ppc>> /\ cpc = "destroy"
      /\ current' = NoMessage
  BY DEF DestroyMessage, writer
<1>2. current # NoMessage
  BY <1>1 DEF MappingInv
<1>3. Visible' = Visible /\ Buffered' = Buffered /\ (ppc = "wait")' = (ppc = "wait")
  BY <1>1 DEF Visible, Buffered, Published, InPlace
<1>4. QED
  BY <1>1, <1>2, <1>3 DEF Promise!Done, Visible, Buffered

(* The switch and the dummy of a producer that has gone to sleep in        *)
(* immediate mode are in neither part.                                     *)
LEMMA SleepStutters ==
  ASSUME CountInv, ModeInv, ModeInv', MappingInv, MappingInv',
         ImmediateChunkSwitchSleeps \/ ProducerSpuriousWakeup
         \/ ImmediateChunkSwitch
  PROVE  UNCHANGED Abstract
<1> DEFINE Empty == Buffered = <<>> /\ Visible = <<>>
<1>1. ASSUME CountInv, ModeInv, immediate, ppc = "idle"
      PROVE  Empty /\ pending = 0 /\ unread = <<>>
  <2>1. unread = <<>> /\ Len(unread) = 0
    BY <1>1 DEF ModeInv, LeavingInv, Leaving
  <2>2. pending = 0 /\ Published = 0 /\ InPlace = 0
    BY <1>1, <2>1, NewPublished DEF InPlace
  <2>3. QED
    BY <2>1, <2>2, SubSeqEmpty DEF Buffered, Visible
<1>2. ASSUME ModeInv, MappingInv, ppc = "asleep" PROVE Empty
  <2>1. Len(unread) = 2 /\ pending = 0 /\ InPlace = 2
    BY <1>2 DEF ModeInv, LeavingInv, MappingInv, InPlace
  <2>2. Published = 2
    BY <2>1 DEF Published
  <2>3. QED
    BY <2>1, <2>2, SubSeqEmpty DEF Buffered, Visible
<1>3. CASE ImmediateChunkSwitchSleeps
  <2>1. immediate /\ ppc = "idle" /\ ppc' = "asleep" /\ current' = current
    BY <1>3 DEF ImmediateChunkSwitchSleeps
  <2>2. Empty
    BY <1>1, <2>1
  <2>3. Empty'
    <3>1. Len(unread') = 2 /\ pending' = 0 /\ InPlace' = 2
      BY <2>1 DEF ModeInv, LeavingInv, MappingInv, InPlace
    <3>2. Published' = 2
      BY <3>1 DEF Published
    <3>3. QED
      BY <3>1, <3>2, SubSeqEmpty DEF Buffered, Visible
  <2>4. QED
    BY <2>1, <2>2, <2>3 DEF Abstract
<1>4. CASE ProducerSpuriousWakeup
  <2>1. /\ ppc = "asleep" /\ ppc' = "idle" /\ current' = current /\ pending' = pending
        /\ immediate' = immediate
    BY <1>4 DEF ProducerSpuriousWakeup, writer
  <2>2. Empty
    BY <1>2, <2>1
  <2>3. Empty'
    <3>1. Len(unread') = 0 /\ pending' = 0 /\ InPlace' = 0
      BY <2>1 DEF ModeInv, LeavingInv, Leaving, MappingInv, InPlace
    <3>2. Published' = 0
      BY <3>1 DEF Published
    <3>3. QED
      BY <3>1, <3>2, SubSeqEmpty DEF Buffered, Visible
  <2>4. QED
    BY <2>1, <2>2, <2>3 DEF Abstract
<1>5. CASE ImmediateChunkSwitch
  <2>1. immediate /\ ppc = "idle" /\ pending' = 0 /\ UNCHANGED <<unread, ppc, current>>
    BY <1>5 DEF ImmediateChunkSwitch, PublishAndPull, threads
  <2>2. pending = 0
    BY <1>1, <2>1
  <2>3. QED
    BY <2>1, <2>2, Stutters DEF InPlace
<1>6. QED
  BY <1>3, <1>4, <1>5

------------------------------------------------------------------------------
(* The refinement.                                                         *)

LEMMA MapsInit == Init => Promise!Init
<1> SUFFICES ASSUME Init PROVE Promise!Init
  OBVIOUS
<1>1. Len(unread) = 0 /\ pending = 0 /\ InPlace = 0
  BY DEF Init, InPlace
<1>2. Published = 0
  BY <1>1 DEF Published
<1>3. Buffered = <<>> /\ Visible = <<>>
  BY <1>1, <1>2, SubSeqEmpty DEF Buffered, Visible
<1>4. (ppc = "wait") = FALSE /\ current = NoMessage
  BY DEF Init
<1>5. QED
  BY <1>3, <1>4 DEF Promise!Init, Buffered, Visible

(* One step per action.                                                    *)
LEMMA MapsStep ==
  ASSUME CountInv, CountInv', ModeInv, ModeInv', MappingInv, MappingInv', [Next]_vars
  PROVE  [Promise!Next]_(Promise!vars)
<1>0. /\ "work" \in Kinds /\ "wake" \in Kinds /\ "finish" \in Kinds
      /\ "terminate" \in Kinds
  BY DEF Kinds
<1>1. ASSUME UNCHANGED Abstract PROVE UNCHANGED Promise!vars
  BY <1>1 DEF Abstract, Promise!vars, Buffered, Visible
<1>2. CASE WriteMessage
  BY <1>0, <1>2, AllocateWrites DEF WriteMessage, threads, Promise!Next
<1>3. CASE Kick
  BY <1>1, <1>3, Stutters DEF Kick, writer, InPlace
<1>4. CASE KickAndWait
  <2>1. ppc = "idle" /\ ppc' = "push" /\ current' = current
    BY <1>4 DEF KickAndWait
  <2>2. CASE immediate
    BY <1>1, <1>4, <2>1, <2>2, Stutters DEF KickAndWait, InPlace
  <2>3. CASE ~immediate
    BY <1>0, <1>4, <2>1, <2>3, AllocateWrites DEF KickAndWait, Promise!Next
  <2>4. QED
    BY <2>2, <2>3
<1>5. CASE FinishWriting
  BY <1>0, <1>5, AllocateWrites DEF FinishWriting, Promise!Next
<1>6. CASE SetMultithreadedOn
  BY <1>0, <1>6, AllocateWrites DEF SetMultithreadedOn, Promise!Next
<1>7. CASE SetMultithreadedOff
  BY <1>0, <1>7, AllocateWrites DEF SetMultithreadedOff, Promise!Next
<1>8. CASE TerminateConsumerThread
  <2>1. CASE attached
    BY <1>0, <1>8, <2>1, AllocateWrites DEF TerminateConsumerThread, Promise!Next
  <2>2. CASE ~attached
    BY <1>1, <1>8, <2>2, Stutters DEF TerminateConsumerThread, InPlace
  <2>3. QED
    BY <2>1, <2>2
<1>9. CASE PushMessages
  BY <1>9, PushPublishes DEF Promise!Next
<1>10. CASE Signal
  BY <1>1, <1>10, SignalBlocks DEF Promise!Next
<1>11. CASE Await
  BY <1>11, AwaitUnblocks DEF Promise!Next
<1>12. CASE ImmediateChunkSwitchSleeps \/ ProducerSpuriousWakeup \/ ImmediateChunkSwitch
  BY <1>1, <1>12, SleepStutters
<1>13. CASE ConsumerLoop \/ FlushMessages \/ PullFirst \/ EventWait \/ PullAgain
              \/ SpuriousWakeup \/ ConsumerExit \/ ExecuteMessage
  <2>1. UNCHANGED <<unread, pending, ppc, current>>
    BY <1>13 DEF ConsumerLoop, FlushMessages, PullFirst, EventWait, PullAgain,
                 SpuriousWakeup, ConsumerExit, ExecuteMessage, writer
  <2>2. QED
    BY <1>1, <2>1, Stutters DEF InPlace
<1>14. CASE ReadMessage
  BY <1>14, ReadTakes DEF Promise!Next
<1>15. CASE DestroyMessage
  BY <1>15, DestroyIsDone DEF Promise!Next
<1>16. CASE UNCHANGED vars
  BY <1>1, <1>16, Stutters DEF vars, InPlace
<1>17. QED
  BY <1>2, <1>3, <1>4, <1>5, <1>6, <1>7, <1>8, <1>9, <1>10, <1>11, <1>12, <1>13,
     <1>14, <1>15, <1>16
     DEF Next, Producer, Consumer

(* The protocol keeps the promise of the queue: what is published is taken *)
(* in order, each message once, and a producer that waits in kickAndWait   *)
(* or terminateConsumerThread gets control back only when all it wrote was *)
(* executed, but for the message that lets it go on.                       *)
THEOREM KeepsPromise ==
  ASSUME JoinBeforeRestart PROVE Spec => ImplementsSPSCQueue
<1>1. QED
  BY MapsInit, MapsStep, CountInvInductive, ModeInductive, MappingInductive, PTL
     DEF Spec, ImplementsSPSCQueue, Promise!Spec
==============================================================================
