------------------------- MODULE DeviceAgent_proofs -------------------------
(***************************************************************************)
(* Proofs about DeviceAgent, for every MAX_CPU_FRAME_AHEAD, every set of   *)
(* buffers and command buffers, and every bound.                           *)
(***************************************************************************)
EXTENDS DeviceAgent, TLAPS

------------------------------------------------------------------------------
(* The index of the staging buffers.                                       *)

(* currentIndex runs through the slots and starts again.                   *)
LEMMA NextIndex ==
  ASSUME NEW i \in Slots
  PROVE  (i + 1) % MAX_FRAME_INDEX
           = IF i = MAX_CPU_FRAME_AHEAD THEN 0 ELSE i + 1
<1>1. /\ i \in Nat /\ MAX_CPU_FRAME_AHEAD \in Nat /\ i <= MAX_CPU_FRAME_AHEAD
  BY DeviceAssumption DEF Slots
<1>2. QED
  BY <1>1 DEF MAX_FRAME_INDEX

(* A message in the main queue has a frame; an update has a buffer and one *)
(* of its slots.                                                           *)
LEMMA MainMessageFields ==
  ASSUME NEW m \in MainMessages
  PROVE  /\ m.frame \in Nat
         /\ m.kind = "update" => m.buffer \in Buffers /\ m.slot \in Slots
BY DEF MainMessages, UpdateMessages, FlushMessages, PresentMessages

(* What the main thread writes are messages of their types.                *)
LEMMA WrittenMessages ==
  ASSUME TypeOK
  PROVE  /\ \A b \in Buffers : /\ Update(b) \in MainMessages
                               /\ Update(b) \in CommandMessages
         /\ \A cs \in SUBSET CommandBuffers : Flush(cs) \in MainMessages
         /\ Present \in MainMessages
         /\ Finish \in CommandMessages
BY DEF TypeOK, Update, Flush, Present, Finish, MainMessages, CommandMessages,
       UpdateMessages, FlushMessages, PresentMessages, FinishMessages

------------------------------------------------------------------------------
(* Types.                                                                  *)

LEMMA TypeInit == Init => TypeOK
<1> SUFFICES ASSUME Init PROVE TypeOK
  OBVIOUS
<1>1. /\ frame \in Nat /\ currentIndex \in Slots /\ semaphore \in Nat
      /\ hidden \in Nat /\ presented \in Nat
  BY DeviceAssumption DEF Init, Slots
<1>2. waiting \in BOOLEAN
  BY DEF Init
<1>3. /\ mainQueue \in Seq(MainMessages)
      /\ commands \in [CommandBuffers -> Seq(CommandMessages)]
      /\ flushing \in SUBSET CommandBuffers
  BY DEF Init
<1>4. staging \in [Buffers -> [Slots -> Nat]]
  BY DEF Init
<1>5. QED
  BY <1>1, <1>2, <1>3, <1>4 DEF TypeOK

(* Overwriting a staging buffer keeps the table of staging buffers.        *)
LEMMA StageType ==
  ASSUME TypeOK, NEW b \in Buffers, Stage(b)
  PROVE  staging' \in [Buffers -> [Slots -> Nat]]
BY DEF TypeOK, Stage

LEMMA TypeMainThread == TypeOK /\ MainThread => TypeOK'
<1> SUFFICES ASSUME TypeOK, MainThread PROVE TypeOK'
  OBVIOUS
<1>1. ASSUME NEW b \in Buffers, UpdateBuffer(b) PROVE TypeOK'
  BY <1>1, StageType, WrittenMessages
     DEF UpdateBuffer, WriteMain, TypeOK, mainVars
<1>2. ASSUME NEW c \in CommandBuffers, NEW b \in Buffers, RecordUpdate(c, b)
      PROVE  TypeOK'
  <2>1. commands' \in [CommandBuffers -> Seq(CommandMessages)]
    BY <1>2, WrittenMessages DEF RecordUpdate, TypeOK
  <2>2. QED
    BY <1>2, <2>1, StageType DEF RecordUpdate, TypeOK, mainVars
<1>3. ASSUME NEW cs \in SUBSET CommandBuffers, FlushCommands(cs)
      PROVE  TypeOK'
  <2>1. commands' \in [CommandBuffers -> Seq(CommandMessages)]
    BY <1>3, WrittenMessages DEF FlushCommands, TypeOK
  <2>2. mainQueue' \in Seq(MainMessages) /\ hidden' \in Nat
    BY <1>3, WrittenMessages DEF FlushCommands, WriteMain, TypeOK
  <2>3. QED
    BY <1>3, <2>1, <2>2 DEF FlushCommands, TypeOK, mainVars
<1>4. CASE Kick
  <2>1. hidden' \in Nat
    BY <1>4 DEF Kick
  <2>2. QED
    BY <1>4, <2>1 DEF Kick, TypeOK, mainVars
<1>5. CASE BeginPresent
  <2>1. currentIndex' \in Slots
    BY <1>5, NextIndex, DeviceAssumption DEF BeginPresent, TypeOK, Slots
  <2>2. mainQueue' \in Seq(MainMessages)
    BY <1>5, WrittenMessages DEF BeginPresent, TypeOK
  <2>3. frame' \in Nat /\ hidden' \in Nat
    BY <1>5 DEF BeginPresent, TypeOK
  <2>4. waiting' \in BOOLEAN
    BY <1>5 DEF BeginPresent
  <2>5. UNCHANGED <<semaphore, commands, flushing, presented, staging>>
    BY <1>5 DEF BeginPresent
  <2>6. QED
    BY <2>1, <2>2, <2>3, <2>4, <2>5 DEF TypeOK
<1>6. CASE EndPresent
  <2>1. semaphore' \in Nat
    BY <1>6 DEF EndPresent, TypeOK
  <2>2. waiting' \in BOOLEAN
    BY <1>6 DEF EndPresent
  <2>3. UNCHANGED <<frame, currentIndex, mainQueue, hidden, commands,
                    flushing, presented, staging>>
    BY <1>6 DEF EndPresent
  <2>4. QED
    BY <2>1, <2>2, <2>3 DEF TypeOK
<1>7. QED
  BY <1>1, <1>2, <1>3, <1>4, <1>5, <1>6 DEF MainThread

LEMMA TypeDeviceThread == TypeOK /\ DeviceThread => TypeOK'
<1> SUFFICES ASSUME TypeOK, DeviceThread PROVE TypeOK'
  OBVIOUS
<1>1. ASSUME NEW kind, NextIs(kind), mainQueue' = Tail(mainQueue)
      PROVE  mainQueue' \in Seq(MainMessages)
  BY <1>1 DEF NextIs, TypeOK
<1>2. CASE ExecuteUpdate
  BY <1>1, <1>2 DEF ExecuteUpdate, TypeOK, mainVars
<1>3. CASE ExecuteFlush
  <2>1. /\ Head(mainQueue) \in MainMessages
        /\ Head(mainQueue).kind = "flush"
    BY <1>3 DEF ExecuteFlush, NextIs, TypeOK
  <2>2. Head(mainQueue).buffers \in SUBSET CommandBuffers
    BY <2>1
       DEF MainMessages, UpdateMessages, FlushMessages, PresentMessages
  <2>3. QED
    BY <1>1, <1>3, <2>2 DEF ExecuteFlush, TypeOK, mainVars
<1>4. CASE ExecutePresent
  BY <1>1, <1>4 DEF ExecutePresent, TypeOK
<1>5. ASSUME NEW c \in CommandBuffers, FlushMessage(c) PROVE TypeOK'
  <2>1. commands' \in [CommandBuffers -> Seq(CommandMessages)]
    BY <1>5 DEF FlushMessage, TypeOK
  <2>2. QED
    BY <1>5, <2>1 DEF FlushMessage, TypeOK, mainVars
<1>6. QED
  BY <1>2, <1>3, <1>4, <1>5 DEF DeviceThread

LEMMA TypeStep == TypeOK /\ [Next]_vars => TypeOK'
<1>1. TypeOK /\ UNCHANGED vars => TypeOK'
  BY DEF TypeOK, vars
<1>2. QED
  BY <1>1, TypeMainThread, TypeDeviceThread DEF Next

(* Every variable of the two threads stays in its type; in particular the  *)
(* index of the staging buffers stays within MAX_FRAME_INDEX.              *)
THEOREM TypeCorrect == Spec => []TypeOK
BY TypeInit, TypeStep, PTL DEF Spec
------------------------------------------------------------------------------
(* The distance between the main thread and the device thread.             *)

(* The semaphore counts the frames that the main thread may still begin:   *)
(* every present message that was executed gives one, every present() that *)
(* got past the wait takes one.                                            *)
SemaphoreExact ==
  semaphore + frame
    = MAX_CPU_FRAME_AHEAD + presented + (IF waiting THEN 1 ELSE 0)

LEMMA SemaphoreInit == Init => SemaphoreExact
BY DeviceAssumption DEF Init, SemaphoreExact

LEMMA SemaphoreStep == TypeOK /\ SemaphoreExact /\ [Next]_vars => SemaphoreExact'
<1> SUFFICES ASSUME TypeOK, SemaphoreExact, [Next]_vars
             PROVE  SemaphoreExact'
  OBVIOUS
<1>0. /\ semaphore \in Nat /\ frame \in Nat /\ presented \in Nat
      /\ MAX_CPU_FRAME_AHEAD \in Nat
  BY DeviceAssumption DEF TypeOK
<1>1. CASE UNCHANGED <<semaphore, frame, presented, waiting>>
  BY <1>1 DEF SemaphoreExact
<1>2. CASE BeginPresent
  BY <1>0, <1>2 DEF BeginPresent, SemaphoreExact
<1>3. CASE EndPresent
  BY <1>0, <1>3 DEF EndPresent, SemaphoreExact
<1>4. CASE ExecutePresent
  BY <1>0, <1>4 DEF ExecutePresent, SemaphoreExact
<1>5. \/ UNCHANGED <<semaphore, frame, presented, waiting>>
      \/ BeginPresent \/ EndPresent \/ ExecutePresent
  BY DEF Next, MainThread, DeviceThread, vars, mainVars, UpdateBuffer,
         RecordUpdate, FlushCommands, Kick, ExecuteUpdate, ExecuteFlush,
         FlushMessage
<1>6. QED
  BY <1>1, <1>2, <1>3, <1>4, <1>5

(* The main thread is never more than MAX_CPU_FRAME_AHEAD frames ahead of  *)
(* the device, nor more than one further while it waits in present().      *)
LEMMA Distance ==
  ASSUME TypeOK, SemaphoreExact
  PROVE  /\ frame <= presented + MAX_FRAME_INDEX
         /\ FramesAhead
BY DeviceAssumption DEF TypeOK, SemaphoreExact, FramesAhead, MAX_FRAME_INDEX

(* Whatever MAX_CPU_FRAME_AHEAD is, the main thread records a frame only   *)
(* when at most that many frames before it are still to be presented.      *)
THEOREM NeverTooFarAhead == Spec => []FramesAhead
<1>1. Init => TypeOK /\ SemaphoreExact
  BY TypeInit, SemaphoreInit
<1>2. TypeOK /\ SemaphoreExact /\ [Next]_vars => (TypeOK /\ SemaphoreExact)'
  BY TypeStep, SemaphoreStep
<1>3. TypeOK /\ SemaphoreExact => FramesAhead
  BY Distance
<1>4. QED
  BY <1>1, <1>2, <1>3, PTL DEF Spec
------------------------------------------------------------------------------
(* The staging buffers.                                                    *)

(* The slot of an update and the current index are as far apart, around    *)
(* the circle of slots, as the frame of the update and the current frame.  *)
SlotOfFrame(m) ==
  \/ m.slot + (frame - m.frame) = currentIndex
  \/ m.slot + (frame - m.frame) = currentIndex + MAX_FRAME_INDEX

(* The messages in the main queue belong to frames that are not presented  *)
(* yet; a present message belongs to a frame before the current one, and   *)
(* no message after it belongs to its frame.                               *)
QueueInOrder ==
  /\ \A i \in 1 .. Len(mainQueue) :
       /\ presented <= mainQueue[i].frame
       /\ mainQueue[i].frame <= frame
       /\ mainQueue[i].kind = "present" => mainQueue[i].frame < frame
       /\ mainQueue[i].kind = "update" => SlotOfFrame(mainQueue[i])
  /\ \A i, j \in 1 .. Len(mainQueue) :
       i < j => /\ mainQueue[i].frame <= mainQueue[j].frame
                /\ mainQueue[i].kind = "present"
                     => mainQueue[i].frame < mainQueue[j].frame

Staged ==
  \A i \in 1 .. Len(mainQueue) :
    mainQueue[i].kind = "update" =>
      staging[mainQueue[i].buffer][mainQueue[i].slot] = mainQueue[i].frame

StagingInv ==
  /\ TypeOK
  /\ SemaphoreExact
  /\ presented <= frame
  /\ QueueInOrder
  /\ Staged

LEMMA StagedIsIntact == TypeOK /\ Staged => StagingIntact
<1>1. TypeOK => DOMAIN mainQueue = 1 .. Len(mainQueue)
  BY DEF TypeOK
<1>2. QED
  BY <1>1 DEF Staged, StagingIntact

LEMMA StagingInit == Init => StagingInv
<1>1. Init => mainQueue = <<>> /\ frame = 0 /\ presented = 0
  BY DEF Init
<1>2. mainQueue = <<>> => QueueInOrder /\ Staged
  BY DEF QueueInOrder, Staged
<1>3. QED
  BY <1>1, <1>2, TypeInit, SemaphoreInit DEF StagingInv

(* An update waiting in the main queue that has the current slot was       *)
(* written in the current frame: its staging buffer may be written again.  *)
LEMMA SameSlotSameFrame ==
  ASSUME StagingInv, ~waiting, NEW i \in 1 .. Len(mainQueue),
         mainQueue[i].kind = "update", mainQueue[i].slot = currentIndex
  PROVE  mainQueue[i].frame = frame
<1>1. /\ mainQueue[i].frame \in Nat
      /\ frame \in Nat /\ presented \in Nat /\ currentIndex \in Nat
      /\ MAX_CPU_FRAME_AHEAD \in Nat
  BY MainMessageFields, DeviceAssumption DEF StagingInv, TypeOK, Slots
<1>2. frame <= presented + MAX_CPU_FRAME_AHEAD
  BY Distance DEF StagingInv, FramesAhead
<1>3. /\ presented <= mainQueue[i].frame
      /\ mainQueue[i].frame <= frame
      /\ SlotOfFrame(mainQueue[i])
  BY DEF StagingInv, QueueInOrder
<1>4. QED
  BY <1>1, <1>2, <1>3 DEF SlotOfFrame, MAX_FRAME_INDEX

(* Staging data of the current frame spoils no update of another frame.    *)
LEMMA StageKeeps ==
  ASSUME StagingInv, ~waiting, NEW b \in Buffers, Stage(b)
  PROVE  /\ \A i \in 1 .. Len(mainQueue) :
              mainQueue[i].kind = "update" =>
                staging'[mainQueue[i].buffer][mainQueue[i].slot]
                  = mainQueue[i].frame
         /\ staging'[b][currentIndex] = frame
<1>1. /\ staging \in [Buffers -> [Slots -> Nat]]
      /\ currentIndex \in Slots
      /\ staging' = [staging EXCEPT ![b][currentIndex] = frame]
  BY DEF StagingInv, TypeOK, Stage
<1>2. ASSUME NEW i \in 1 .. Len(mainQueue), mainQueue[i].kind = "update"
      PROVE  staging'[mainQueue[i].buffer][mainQueue[i].slot]
               = mainQueue[i].frame
  <2>1. mainQueue[i].buffer \in Buffers /\ mainQueue[i].slot \in Slots
    BY <1>2, MainMessageFields DEF StagingInv, TypeOK
  <2>2. staging[mainQueue[i].buffer][mainQueue[i].slot] = mainQueue[i].frame
    BY <1>2 DEF StagingInv, Staged
  <2>3. CASE mainQueue[i].slot = currentIndex
    BY <1>1, <1>2, <2>1, <2>2, <2>3, SameSlotSameFrame
  <2>4. CASE mainQueue[i].slot # currentIndex
    BY <1>1, <2>1, <2>2, <2>4
  <2>5. QED
    BY <2>3, <2>4
<1>3. QED
  BY <1>1, <1>2
(* Writing a message of the current frame.                                 *)
LEMMA WriteKeepsOrder ==
  ASSUME StagingInv, NEW m \in MainMessages,
         m.frame = frame, m.kind # "present",
         m.kind = "update" => m.slot = currentIndex,
         mainQueue' = Append(mainQueue, m),
         UNCHANGED <<frame, presented, currentIndex>>
  PROVE  QueueInOrder'
<1>1. /\ Len(mainQueue') = Len(mainQueue) + 1
      /\ \A i \in 1 .. Len(mainQueue) : mainQueue'[i] = mainQueue[i]
      /\ mainQueue'[Len(mainQueue) + 1] = m
      /\ Len(mainQueue) \in Nat
  BY DEF StagingInv, TypeOK
<1>2. /\ frame \in Nat /\ currentIndex \in Nat /\ presented <= frame
      /\ MAX_FRAME_INDEX \in Nat
  BY DeviceAssumption DEF StagingInv, TypeOK, Slots, MAX_FRAME_INDEX
<1>3. QueueInOrder
  BY DEF StagingInv
<1>4. ASSUME NEW i \in 1 .. Len(mainQueue')
      PROVE  /\ presented <= mainQueue'[i].frame
             /\ mainQueue'[i].frame <= frame
             /\ mainQueue'[i].kind = "present" => mainQueue'[i].frame < frame
             /\ mainQueue'[i].kind = "update" => SlotOfFrame(mainQueue'[i])
  <2>1. CASE i \in 1 .. Len(mainQueue)
    BY <1>1, <1>3, <2>1 DEF QueueInOrder
  <2>2. CASE i = Len(mainQueue) + 1
    BY <1>1, <1>2, <2>2 DEF SlotOfFrame
  <2>3. QED
    BY <1>1, <2>1, <2>2
<1>5. ASSUME NEW i \in 1 .. Len(mainQueue'), NEW j \in 1 .. Len(mainQueue'),
             i < j
      PROVE  /\ mainQueue'[i].frame <= mainQueue'[j].frame
             /\ mainQueue'[i].kind = "present"
                  => mainQueue'[i].frame < mainQueue'[j].frame
  <2>1. CASE j \in 1 .. Len(mainQueue)
    BY <1>1, <1>3, <1>5, <2>1 DEF QueueInOrder
  <2>2. CASE j = Len(mainQueue) + 1
    BY <1>1, <1>4, <1>5, <2>2
  <2>3. QED
    BY <1>1, <2>1, <2>2
<1>6. QED
  BY <1>4, <1>5 DEF QueueInOrder, SlotOfFrame
(* Taking the first message out of the queue, which presents its frame     *)
(* when it is a present message.                                           *)
LEMMA TakeKeepsOrder ==
  ASSUME StagingInv, Len(mainQueue) > 0, mainQueue' = Tail(mainQueue),
         UNCHANGED <<frame, currentIndex, staging>>,
         \/ presented' = presented
         \/ presented' = presented + 1 /\ mainQueue[1].kind = "present"
  PROVE  presented' <= frame' /\ QueueInOrder' /\ Staged'
<1>1. /\ Len(mainQueue) \in Nat
      /\ Len(mainQueue') = Len(mainQueue) - 1
      /\ \A i \in 1 .. Len(mainQueue') : mainQueue'[i] = mainQueue[i + 1]
      /\ \A i \in 1 .. Len(mainQueue) : mainQueue[i].frame \in Nat
      /\ frame \in Nat /\ presented \in Nat
  BY MainMessageFields DEF StagingInv, TypeOK
<1>2. QueueInOrder /\ Staged
  BY DEF StagingInv
<1>3. presented' <= frame'
  <2>1. presented <= frame
    BY DEF StagingInv
  <2>2. mainQueue[1].kind = "present" => presented + 1 <= frame
    BY <1>1, <1>2 DEF QueueInOrder
  <2>3. QED
    BY <2>1, <2>2
<1>4. ASSUME NEW i \in 1 .. Len(mainQueue')
      PROVE  presented' <= mainQueue'[i].frame
  <2>1. i + 1 \in 1 .. Len(mainQueue) /\ 1 \in 1 .. Len(mainQueue) /\ 1 < i + 1
    BY <1>1
  <2>2. mainQueue'[i] = mainQueue[i + 1] /\ presented <= mainQueue[i + 1].frame
    BY <1>1, <1>2, <2>1 DEF QueueInOrder
  <2>3. mainQueue[1].kind = "present" =>
          /\ presented <= mainQueue[1].frame
          /\ mainQueue[1].frame < mainQueue[i + 1].frame
    BY <1>2, <2>1 DEF QueueInOrder
  <2>4. /\ mainQueue[1].frame \in Nat /\ mainQueue[i + 1].frame \in Nat
        /\ presented \in Nat
    BY <1>1, <2>1
  <2>5. QED
    BY <2>2, <2>3, <2>4
<1>5. ASSUME NEW i \in 1 .. Len(mainQueue')
      PROVE  /\ mainQueue'[i].frame <= frame
             /\ mainQueue'[i].kind = "present" => mainQueue'[i].frame < frame
             /\ mainQueue'[i].kind = "update" =>
                  /\ SlotOfFrame(mainQueue'[i])
                  /\ staging[mainQueue'[i].buffer][mainQueue'[i].slot]
                       = mainQueue'[i].frame
  <2>1. i + 1 \in 1 .. Len(mainQueue) /\ mainQueue'[i] = mainQueue[i + 1]
    BY <1>1
  <2>2. QED
    BY <1>2, <2>1 DEF QueueInOrder, Staged
<1>6. ASSUME NEW i \in 1 .. Len(mainQueue'), NEW j \in 1 .. Len(mainQueue'),
             i < j
      PROVE  /\ mainQueue'[i].frame <= mainQueue'[j].frame
             /\ mainQueue'[i].kind = "present"
                  => mainQueue'[i].frame < mainQueue'[j].frame
  <2>1. /\ i + 1 \in 1 .. Len(mainQueue) /\ mainQueue'[i] = mainQueue[i + 1]
        /\ j + 1 \in 1 .. Len(mainQueue) /\ mainQueue'[j] = mainQueue[j + 1]
        /\ i + 1 < j + 1
    BY <1>1, <1>6
  <2>2. QED
    BY <1>2, <2>1 DEF QueueInOrder
<1>7. QueueInOrder'
  BY <1>4, <1>5, <1>6 DEF QueueInOrder, SlotOfFrame
<1>8. Staged'
  BY <1>5 DEF Staged
<1>9. QED
  BY <1>3, <1>7, <1>8

(* present() appends the message that ends the frame and begins the next   *)
(* one: it turns the index by one slot, and no message in the queue is     *)
(* farther behind than the number of slots.                                *)
LEMMA PresentKeepsOrder ==
  ASSUME StagingInv, BeginPresent
  PROVE  presented' <= frame' /\ QueueInOrder' /\ Staged'
<1>1. /\ Len(mainQueue) \in Nat
      /\ Len(mainQueue') = Len(mainQueue) + 1
      /\ \A i \in 1 .. Len(mainQueue) : mainQueue'[i] = mainQueue[i]
      /\ mainQueue'[Len(mainQueue) + 1] = Present
      /\ Present.frame = frame /\ Present.kind = "present"
  BY DEF StagingInv, TypeOK, BeginPresent, Present
<1>2. /\ frame \in Nat /\ presented \in Nat /\ currentIndex \in Slots
      /\ presented <= frame /\ MAX_CPU_FRAME_AHEAD \in Nat
      /\ frame <= presented + MAX_CPU_FRAME_AHEAD
      /\ \A i \in 1 .. Len(mainQueue) : mainQueue[i].frame \in Nat
  BY Distance, MainMessageFields, DeviceAssumption
     DEF StagingInv, TypeOK, BeginPresent, FramesAhead
<1>3. /\ frame' = frame + 1 /\ presented' = presented /\ staging' = staging
      /\ currentIndex' = IF currentIndex = MAX_CPU_FRAME_AHEAD
                         THEN 0 ELSE currentIndex + 1
  BY <1>2, NextIndex DEF BeginPresent
<1>4. QueueInOrder /\ Staged
  BY DEF StagingInv
<1>5. ASSUME NEW i \in 1 .. Len(mainQueue), mainQueue[i].kind = "update"
      PROVE  SlotOfFrame(mainQueue[i])'
  <2>1. /\ mainQueue[i].slot \in Slots /\ mainQueue[i].frame \in Nat
        /\ presented <= mainQueue[i].frame /\ mainQueue[i].frame <= frame
        /\ SlotOfFrame(mainQueue[i])
    BY <1>4, <1>5, MainMessageFields DEF StagingInv, TypeOK, QueueInOrder
  <2>2. mainQueue'[i] = mainQueue[i]
    BY <1>1
  <2>3. \/ mainQueue[i].slot + (frame' - mainQueue[i].frame) = currentIndex'
        \/ mainQueue[i].slot + (frame' - mainQueue[i].frame)
             = currentIndex' + MAX_FRAME_INDEX
    <3> DEFINE slot == mainQueue[i].slot
               f == mainQueue[i].frame
    <3>1. /\ slot \in Nat /\ slot <= MAX_CPU_FRAME_AHEAD
          /\ currentIndex \in Nat /\ f \in Nat
          /\ frame <= f + MAX_CPU_FRAME_AHEAD
      BY <1>2, <2>1 DEF Slots
    <3>2. \/ slot + (frame - f) = currentIndex
          \/ slot + (frame - f) = currentIndex + (MAX_CPU_FRAME_AHEAD + 1)
      BY <2>1 DEF SlotOfFrame, MAX_FRAME_INDEX
    <3> HIDE DEF slot, f
    <3>3. \/ slot + (frame' - f) = currentIndex'
          \/ slot + (frame' - f) = currentIndex' + (MAX_CPU_FRAME_AHEAD + 1)
      <4>1. CASE currentIndex = MAX_CPU_FRAME_AHEAD
        BY <1>2, <1>3, <3>1, <3>2, <4>1
      <4>2. CASE currentIndex # MAX_CPU_FRAME_AHEAD
        BY <1>2, <1>3, <3>1, <3>2, <4>2
      <4>3. QED
        BY <4>1, <4>2
    <3>4. QED
      BY <3>3 DEF slot, f, MAX_FRAME_INDEX
  <2>4. QED
    BY <2>2, <2>3 DEF SlotOfFrame
<1>6. ASSUME NEW i \in 1 .. Len(mainQueue')
      PROVE  /\ presented <= mainQueue'[i].frame
             /\ mainQueue'[i].frame <= frame
             /\ mainQueue'[i].kind = "update" =>
                  /\ SlotOfFrame(mainQueue[i])' /\ mainQueue'[i] = mainQueue[i]
                  /\ staging[mainQueue'[i].buffer][mainQueue'[i].slot]
                       = mainQueue'[i].frame
  <2>1. CASE i \in 1 .. Len(mainQueue)
    BY <1>1, <1>4, <1>5, <2>1 DEF QueueInOrder, Staged
  <2>2. CASE i = Len(mainQueue) + 1
    BY <1>1, <1>2, <2>2
  <2>3. QED
    BY <1>1, <2>1, <2>2
<1>7. ASSUME NEW i \in 1 .. Len(mainQueue'), NEW j \in 1 .. Len(mainQueue'),
             i < j
      PROVE  /\ mainQueue'[i].frame <= mainQueue'[j].frame
             /\ mainQueue'[i].kind = "present"
                  => mainQueue'[i].frame < mainQueue'[j].frame
  <2>1. CASE j \in 1 .. Len(mainQueue)
    BY <1>1, <1>4, <1>7, <2>1 DEF QueueInOrder
  <2>2. CASE j = Len(mainQueue) + 1
    BY <1>1, <1>4, <1>7, <2>2 DEF QueueInOrder
  <2>3. QED
    BY <1>1, <2>1, <2>2
<1>8. \A i \in 1 .. Len(mainQueue') : mainQueue'[i].frame \in Nat
  BY <1>1, <1>2
<1>9. QueueInOrder'
  BY <1>2, <1>3, <1>6, <1>7, <1>8 DEF QueueInOrder, SlotOfFrame
<1>10. Staged'
  BY <1>3, <1>6 DEF Staged
<1>11. QED
  BY <1>2, <1>3, <1>9, <1>10
(* A step that leaves the queue, the frames and the staging buffers alone. *)
LEMMA OtherKeepsOrder ==
  ASSUME StagingInv,
         UNCHANGED <<mainQueue, frame, presented, currentIndex, staging>>
  PROVE  presented' <= frame' /\ QueueInOrder' /\ Staged'
BY DEF StagingInv, QueueInOrder, Staged, SlotOfFrame

LEMMA StagingStep == StagingInv /\ [Next]_vars => StagingInv'
<1> SUFFICES ASSUME StagingInv, [Next]_vars
             PROVE  presented' <= frame' /\ QueueInOrder' /\ Staged'
  BY TypeStep, SemaphoreStep DEF StagingInv
<1>1. ASSUME NEW b \in Buffers, UpdateBuffer(b)
      PROVE  presented' <= frame' /\ QueueInOrder' /\ Staged'
  <2>1. /\ ~waiting /\ Stage(b)
        /\ mainQueue' = Append(mainQueue, Update(b))
        /\ UNCHANGED <<frame, presented, currentIndex>>
    BY <1>1 DEF UpdateBuffer, WriteMain, mainVars
  <2>2. /\ Update(b) \in MainMessages
        /\ Update(b).frame = frame /\ Update(b).kind = "update"
        /\ Update(b).slot = currentIndex /\ Update(b).buffer = b
    BY WrittenMessages DEF StagingInv, Update
  <2>3. QueueInOrder'
    BY <2>1, <2>2, WriteKeepsOrder
  <2>4. /\ Len(mainQueue) \in Nat
        /\ Len(mainQueue') = Len(mainQueue) + 1
        /\ \A i \in 1 .. Len(mainQueue) : mainQueue'[i] = mainQueue[i]
        /\ mainQueue'[Len(mainQueue) + 1] = Update(b)
    BY <2>1, <2>2 DEF StagingInv, TypeOK
  <2>5. ASSUME NEW i \in 1 .. Len(mainQueue'), mainQueue'[i].kind = "update"
        PROVE  staging'[mainQueue'[i].buffer][mainQueue'[i].slot]
                 = mainQueue'[i].frame
    <3>1. CASE i \in 1 .. Len(mainQueue)
      BY <2>1, <2>4, <2>5, <3>1, StageKeeps
    <3>2. CASE i = Len(mainQueue) + 1
      BY <2>1, <2>2, <2>4, <3>2, StageKeeps
    <3>3. QED
      BY <2>4, <3>1, <3>2
  <2>6. QED
    BY <2>1, <2>3, <2>5 DEF StagingInv, Staged
<1>2. ASSUME NEW c \in CommandBuffers, NEW b \in Buffers, RecordUpdate(c, b)
      PROVE  presented' <= frame' /\ QueueInOrder' /\ Staged'
  <2>1. /\ ~waiting /\ Stage(b)
        /\ UNCHANGED <<mainQueue, frame, presented, currentIndex>>
    BY <1>2 DEF RecordUpdate, mainVars
  <2>2. presented' <= frame' /\ QueueInOrder'
    BY <2>1 DEF StagingInv, QueueInOrder, SlotOfFrame
  <2>3. Staged'
    BY <2>1, StageKeeps DEF Staged
  <2>4. QED
    BY <2>2, <2>3
<1>3. ASSUME NEW cs \in SUBSET CommandBuffers, FlushCommands(cs)
      PROVE  presented' <= frame' /\ QueueInOrder' /\ Staged'
  <2>1. /\ mainQueue' = Append(mainQueue, Flush(cs))
        /\ UNCHANGED <<frame, presented, currentIndex, staging>>
    BY <1>3 DEF FlushCommands, WriteMain, mainVars
  <2>2. /\ Flush(cs) \in MainMessages
        /\ Flush(cs).frame = frame /\ Flush(cs).kind = "flush"
    BY WrittenMessages DEF StagingInv, Flush
  <2>3. QueueInOrder'
    BY <2>1, <2>2, WriteKeepsOrder
  <2>4. /\ Len(mainQueue) \in Nat
        /\ Len(mainQueue') = Len(mainQueue) + 1
        /\ \A i \in 1 .. Len(mainQueue) : mainQueue'[i] = mainQueue[i]
        /\ mainQueue'[Len(mainQueue) + 1] = Flush(cs)
    BY <2>1, <2>2 DEF StagingInv, TypeOK
  <2>5. Staged'
    <3>1. ASSUME NEW i \in 1 .. Len(mainQueue'),
                 mainQueue'[i].kind = "update"
          PROVE  staging'[mainQueue'[i].buffer][mainQueue'[i].slot]
                   = mainQueue'[i].frame
      <4>1. i \in 1 .. Len(mainQueue)
        BY <2>2, <2>4, <3>1
      <4>2. QED
        BY <2>1, <2>4, <3>1, <4>1 DEF StagingInv, Staged
    <3>2. QED
      BY <3>1 DEF Staged
  <2>6. QED
    BY <2>1, <2>3, <2>5 DEF StagingInv
<1>4. CASE BeginPresent
  BY <1>4, PresentKeepsOrder
<1>5. ASSUME NEW kind, NextIs(kind), mainQueue' = Tail(mainQueue),
             UNCHANGED <<frame, currentIndex, staging>>,
             \/ presented' = presented
             \/ presented' = presented + 1 /\ kind = "present"
      PROVE  presented' <= frame' /\ QueueInOrder' /\ Staged'
  <2>1. Len(mainQueue) > 0 /\ mainQueue[1].kind = kind
    BY <1>5 DEF NextIs, StagingInv, TypeOK
  <2>2. QED
    BY <1>5, <2>1, TakeKeepsOrder
<1>6. CASE ExecuteUpdate \/ ExecuteFlush
  BY <1>5, <1>6 DEF ExecuteUpdate, ExecuteFlush, mainVars
<1>7. CASE ExecutePresent
  BY <1>5, <1>7 DEF ExecutePresent
<1>8. CASE \/ UNCHANGED vars \/ Kick \/ EndPresent
           \/ \E c \in CommandBuffers : FlushMessage(c)
  BY <1>8, OtherKeepsOrder DEF vars, Kick, EndPresent, FlushMessage, mainVars
<1>9. QED
  BY <1>1, <1>2, <1>3, <1>4, <1>6, <1>7, <1>8
     DEF Next, MainThread, DeviceThread

(* Whatever MAX_CPU_FRAME_AHEAD is, an update that the device thread has   *)
(* yet to execute from the main queue finds the data that was staged for   *)
(* it: MAX_CPU_FRAME_AHEAD + 1 staging buffers are enough, and the wait at *)
(* the end of present() is early enough, for no frame to overwrite them.   *)
THEOREM UpdatesFindTheirData == Spec => []StagingIntact
<1>1. StagingInv => StagingIntact
  BY StagedIsIntact DEF StagingInv
<1>2. QED
  BY <1>1, StagingInit, StagingStep, PTL DEF Spec
------------------------------------------------------------------------------
(* The queues of the command buffers.                                      *)

(* The finish messages of the queue s of command buffer c that are still   *)
(* to be reached by a flush in the main queue: all of them, but for the    *)
(* first if c is being flushed.                                            *)
Awaiting(s, c, F) ==
  {i \in 1 .. Len(s) :
     /\ s[i].kind = "finish"
     /\ c \in F => \E j \in 1 .. i - 1 : s[j].kind = "finish"}

FlushOf(m, c, f) == m.kind = "flush" /\ c \in m.buffers /\ m.frame = f

(* The function g gives each of them its flush in the main queue q, of the *)
(* same frame, and in the same order.                                      *)
Matches(g, s, q, c, F) ==
  /\ \A i \in Awaiting(s, c, F) :
       g[i] \in 1 .. Len(q) /\ FlushOf(q[g[i]], c, s[i].frame)
  /\ \A i, j \in Awaiting(s, c, F) : i < j => g[i] < g[j]

Matched(s, q, c, F) == \E g \in [1 .. Len(s) -> Nat] : Matches(g, s, q, c, F)

(* A queue holds nothing of a frame that was presented; what was recorded  *)
(* in a frame that is over is followed by a finish message of that frame.  *)
Entry(m) ==
  /\ presented <= m.frame /\ m.frame <= frame
  /\ m.kind = "update" => /\ SlotOfFrame(m)
                          /\ staging[m.buffer][m.slot] = m.frame

Ended(s) ==
  /\ \A i \in 1 .. Len(s) :
       s[i].frame < frame =>
         \E j \in i .. Len(s) : s[j].kind = "finish" /\ s[j].frame = s[i].frame
  /\ \A i, j \in 1 .. Len(s) : i < j => s[i].frame <= s[j].frame

Entries(s) == \A i \in 1 .. Len(s) : Entry(s[i])

CommandInv ==
  \A c \in CommandBuffers :
    /\ Entries(commands[c]) /\ Ended(commands[c])
    /\ Matched(commands[c], mainQueue, c, flushing)

(* A message in the queue of a command buffer has a frame.                 *)
LEMMA CommandMessageFields ==
  ASSUME NEW m \in CommandMessages
  PROVE  /\ m.frame \in Nat
         /\ m.kind = "update" => m.buffer \in Buffers /\ m.slot \in Slots
BY DEF CommandMessages, UpdateMessages, FinishMessages

(* Elements of a sequence with one more element behind or one less before. *)
LEMMA AppendElements ==
  ASSUME NEW S, NEW s \in Seq(S), NEW m \in S
  PROVE  /\ Len(s) \in Nat /\ Len(Append(s, m)) = Len(s) + 1
         /\ \A i \in 1 .. Len(s) : Append(s, m)[i] = s[i]
         /\ Append(s, m)[Len(s) + 1] = m
OBVIOUS

LEMMA TailElements ==
  ASSUME NEW S, NEW s \in Seq(S), s # <<>>
  PROVE  /\ Len(s) \in Nat /\ Len(s) > 0 /\ Len(Tail(s)) = Len(s) - 1
         /\ \A i \in 1 .. Len(Tail(s)) : Tail(s)[i] = s[i + 1]
         /\ Head(s) = s[1]
OBVIOUS

------------------------------------------------------------------------------
(* Steps on the matching of finish messages and flushes.                   *)

(* The main queue grows.                                                   *)
LEMMA MatchedMainAppend ==
  ASSUME NEW S, NEW T, NEW s \in Seq(S), NEW q \in Seq(T), NEW m \in T, NEW c, NEW F,
         Matched(s, q, c, F)
  PROVE  Matched(s, Append(q, m), c, F)
<1>1. PICK g \in [1 .. Len(s) -> Nat] : Matches(g, s, q, c, F)
  BY DEF Matched
<1> DEFINE r == Append(q, m)
<1>2. /\ Len(q) \in Nat /\ Len(r) = Len(q) + 1
      /\ \A i \in 1 .. Len(q) : r[i] = q[i] /\ i \in 1 .. Len(r)
  BY AppendElements
<1> HIDE DEF r
<1>3. Matches(g, s, r, c, F)
  BY <1>1, <1>2 DEF Matches
<1>4. QED
  BY <1>3 DEF Matched, r

(* A message that is no finish message is recorded.                        *)
LEMMA MatchedRecord ==
  ASSUME NEW S, NEW s \in Seq(S), NEW q, NEW m \in S, NEW c, NEW F,
         m.kind # "finish", Matched(s, q, c, F)
  PROVE  Matched(Append(s, m), q, c, F)
<1>1. PICK g \in [1 .. Len(s) -> Nat] : Matches(g, s, q, c, F)
  BY DEF Matched
<1> DEFINE t == Append(s, m)
           n == Len(s)
<1>2. /\ n \in Nat /\ Len(t) = n + 1
      /\ \A i \in 1 .. n : t[i] = s[i]
      /\ t[n + 1] = m
  BY AppendElements
<1> HIDE DEF t, n
<1>3. \A i \in Awaiting(t, c, F) : i \in 1 .. n /\ t[i] = s[i] /\ i \in Awaiting(s, c, F)
  <2> SUFFICES ASSUME NEW i \in Awaiting(t, c, F)
               PROVE  i \in 1 .. n /\ t[i] = s[i] /\ i \in Awaiting(s, c, F)
    OBVIOUS
  <2>1. /\ i \in 1 .. n + 1 /\ t[i].kind = "finish"
        /\ c \in F => \E j \in 1 .. i - 1 : t[j].kind = "finish"
    BY <1>2 DEF Awaiting
  <2>2. i \in 1 .. n /\ \A j \in 1 .. i - 1 : j \in 1 .. n
    BY <1>2, <2>1
  <2>3. s[i].kind = "finish" /\ (c \in F => \E j \in 1 .. i - 1 : s[j].kind = "finish")
    BY <1>2, <2>1, <2>2
  <2>4. QED
    BY <1>2, <2>2, <2>3 DEF Awaiting, n
<1> DEFINE h == [i \in 1 .. n + 1 |-> IF i \in 1 .. n THEN g[i] ELSE 0]
<1>4. h \in [1 .. Len(t) -> Nat] /\ \A i \in 1 .. n : h[i] = g[i]
  BY <1>1, <1>2 DEF n
<1> HIDE DEF h
<1>5. Matches(h, t, q, c, F)
  BY <1>1, <1>3, <1>4 DEF Matches
<1>6. QED
  BY <1>4, <1>5 DEF Matched, t

(* A command buffer is ended and its flush written.                        *)
LEMMA MatchedFlush ==
  ASSUME NEW S, NEW T, NEW s \in Seq(S), NEW q \in Seq(T), NEW m \in S, NEW f \in T,
         NEW c, NEW F, FlushOf(f, c, m.frame), Matched(s, q, c, F)
  PROVE  Matched(Append(s, m), Append(q, f), c, F)
<1>1. PICK g \in [1 .. Len(s) -> Nat] : Matches(g, s, q, c, F)
  BY DEF Matched
<1> DEFINE t == Append(s, m)
           r == Append(q, f)
           n == Len(s)
           l == Len(q)
<1>2. /\ n \in Nat /\ Len(t) = n + 1
      /\ \A i \in 1 .. n : t[i] = s[i]
      /\ t[n + 1] = m
      /\ l \in Nat /\ Len(r) = l + 1
      /\ \A i \in 1 .. l : r[i] = q[i]
      /\ r[l + 1] = f
  BY AppendElements
<1>a. n = Len(s) /\ l = Len(q)
  OBVIOUS
<1> HIDE DEF t, n, r, l
<1>3. \A i \in Awaiting(t, c, F) :
        i = n + 1 \/ (i \in 1 .. n /\ t[i] = s[i] /\ i \in Awaiting(s, c, F))
  <2> SUFFICES ASSUME NEW i \in Awaiting(t, c, F), i # n + 1
               PROVE  i \in 1 .. n /\ t[i] = s[i] /\ i \in Awaiting(s, c, F)
    OBVIOUS
  <2>1. /\ i \in 1 .. n + 1 /\ t[i].kind = "finish"
        /\ c \in F => \E j \in 1 .. i - 1 : t[j].kind = "finish"
    BY <1>2 DEF Awaiting
  <2>2. i \in 1 .. n /\ \A j \in 1 .. i - 1 : j \in 1 .. n
    BY <1>2, <2>1
  <2>3. s[i].kind = "finish" /\ (c \in F => \E j \in 1 .. i - 1 : s[j].kind = "finish")
    BY <1>2, <2>1, <2>2
  <2>4. QED
    BY <1>2, <1>a, <2>2, <2>3 DEF Awaiting
<1> DEFINE h == [i \in 1 .. n + 1 |-> IF i \in 1 .. n THEN g[i] ELSE l + 1]
<1>4. /\ h \in [1 .. Len(t) -> Nat] /\ \A i \in 1 .. n : h[i] = g[i]
      /\ h[n + 1] = l + 1
  BY <1>1, <1>2, <1>a
<1> HIDE DEF h
<1>5. \A i \in Awaiting(t, c, F) :
        h[i] \in 1 .. Len(r) /\ FlushOf(r[h[i]], c, t[i].frame)
  <2> SUFFICES ASSUME NEW i \in Awaiting(t, c, F)
               PROVE  h[i] \in 1 .. Len(r) /\ FlushOf(r[h[i]], c, t[i].frame)
    OBVIOUS
  <2>1. CASE i = n + 1
    BY <1>2, <1>4, <2>1
  <2>2. CASE i # n + 1
    <3>1. i \in 1 .. n /\ t[i] = s[i] /\ i \in Awaiting(s, c, F)
      BY <1>3, <2>2
    <3>2. g[i] \in 1 .. l /\ FlushOf(q[g[i]], c, s[i].frame)
      BY <1>1, <1>a, <3>1 DEF Matches
    <3>3. QED
      BY <1>2, <1>4, <3>1, <3>2
  <2>3. QED
    BY <2>1, <2>2
<1>6. \A i, j \in Awaiting(t, c, F) : i < j => h[i] < h[j]
  <2> SUFFICES ASSUME NEW i \in Awaiting(t, c, F), NEW j \in Awaiting(t, c, F), i < j
               PROVE  h[i] < h[j]
    OBVIOUS
  <2>1. i \in 1 .. n + 1 /\ j \in 1 .. n + 1
    BY <1>2 DEF Awaiting
  <2>2. i # n + 1
    BY <1>2, <2>1
  <2>3. i \in 1 .. n /\ i \in Awaiting(s, c, F) /\ g[i] \in 1 .. l
    BY <1>1, <1>3, <1>a, <2>2 DEF Matches
  <2>4. CASE j = n + 1
    BY <1>2, <1>4, <2>3, <2>4
  <2>5. CASE j # n + 1
    BY <1>1, <1>3, <1>4, <2>3, <2>5 DEF Matches
  <2>6. QED
    BY <2>4, <2>5
<1>7. QED
  BY <1>4, <1>5, <1>6 DEF Matched, Matches, t, r

(* The first message of the main queue is taken when no command buffer is  *)
(* being flushed; if it is a flush, it is now for its command buffers.     *)
LEMMA MatchedTake ==
  ASSUME NEW T, NEW s, NEW q \in Seq(T), NEW c, NEW F, q # <<>>,
         Len(s) \in Nat, Matched(s, q, c, {}),
         q[1].kind = "flush" => F = q[1].buffers
  PROVE  Matched(s, Tail(q), c, F)
<1>1. PICK g \in [1 .. Len(s) -> Nat] : Matches(g, s, q, c, {})
  BY DEF Matched
<1> DEFINE r == Tail(q)
           n == Len(s)
           l == Len(q)
<1>2. /\ n \in Nat /\ l \in Nat /\ Len(r) = l - 1
      /\ \A i \in 1 .. l - 1 : r[i] = q[i + 1]
  BY TailElements
<1>a. n = Len(s) /\ l = Len(q)
  OBVIOUS
<1> HIDE DEF n, l, r
<1>3. \A i \in Awaiting(s, c, F) : i \in 1 .. n /\ i \in Awaiting(s, c, {})
  BY <1>a DEF Awaiting
<1>4. ASSUME NEW i \in Awaiting(s, c, F)
      PROVE  g[i] \in 2 .. l /\ FlushOf(q[g[i]], c, s[i].frame)
  <2>1. i \in 1 .. n /\ g[i] \in 1 .. l /\ FlushOf(q[g[i]], c, s[i].frame)
    BY <1>1, <1>3, <1>a DEF Matches
  <2>2. g[i] # 1
    <3>1. SUFFICES ASSUME g[i] = 1 PROVE FALSE
      OBVIOUS
    <3>2. q[1].kind = "flush" /\ c \in q[1].buffers
      BY <2>1, <3>1 DEF FlushOf
    <3>3. c \in F
      BY <3>2
    <3>4. PICK j \in 1 .. i - 1 : s[j].kind = "finish"
      BY <3>3 DEF Awaiting
    <3>5. j \in 1 .. n /\ j < i
      BY <1>2, <2>1
    <3>6. j \in Awaiting(s, c, {})
      BY <1>a, <3>4, <3>5 DEF Awaiting
    <3>7. g[j] < g[i] /\ g[j] \in 1 .. l
      BY <1>1, <1>3, <1>a, <3>5, <3>6 DEF Matches
    <3>8. QED
      BY <1>2, <3>1, <3>7
  <2>3. QED
    BY <1>2, <2>1, <2>2
<1> DEFINE h == [i \in 1 .. n |-> IF g[i] > 0 THEN g[i] - 1 ELSE 0]
<1>5. h \in [1 .. n -> Nat]
  BY <1>1, <1>a
<1>6. \A i \in Awaiting(s, c, F) :
        /\ h[i] = g[i] - 1 /\ h[i] \in 1 .. l - 1 /\ r[h[i]] = q[g[i]]
  <2> SUFFICES ASSUME NEW i \in Awaiting(s, c, F)
               PROVE  h[i] = g[i] - 1 /\ h[i] \in 1 .. l - 1 /\ r[h[i]] = q[g[i]]
    OBVIOUS
  <2>1. g[i] \in 2 .. l /\ i \in 1 .. n
    BY <1>3, <1>4
  <2>2. h[i] = g[i] - 1 /\ h[i] \in 1 .. l - 1
    BY <1>2, <2>1
  <2> HIDE DEF h
  <2>3. QED
    BY <1>2, <2>1, <2>2
<1> HIDE DEF h
<1>7. \A i \in Awaiting(s, c, F) :
        h[i] \in 1 .. Len(r) /\ FlushOf(r[h[i]], c, s[i].frame)
  BY <1>2, <1>4, <1>6
<1>8. \A i, j \in Awaiting(s, c, F) : i < j => h[i] < h[j]
  <2> SUFFICES ASSUME NEW i \in Awaiting(s, c, F), NEW j \in Awaiting(s, c, F), i < j
               PROVE  h[i] < h[j]
    OBVIOUS
  <2>1. g[i] < g[j]
    BY <1>1, <1>3 DEF Matches
  <2>2. QED
    BY <1>4, <1>6, <2>1
<1>9. QED
  BY <1>5, <1>7, <1>8, <1>a DEF Matched, Matches, r

(* The command buffer being flushed executes a message, and its flush is   *)
(* over if that is a finish message.                                       *)
LEMMA MatchedExecute ==
  ASSUME NEW S, NEW s \in Seq(S), NEW q, NEW c, NEW F, NEW G, s # <<>>, c \in F,
         Matched(s, q, c, F),
         s[1].kind = "finish" => c \notin G,
         s[1].kind # "finish" => c \in G
  PROVE  Matched(Tail(s), q, c, G)
<1>1. PICK g \in [1 .. Len(s) -> Nat] : Matches(g, s, q, c, F)
  BY DEF Matched
<1> DEFINE t == Tail(s)
           n == Len(s)
<1>2. /\ n \in Nat /\ n > 0 /\ Len(t) = n - 1
      /\ \A i \in 1 .. n - 1 : t[i] = s[i + 1] /\ i + 1 \in 1 .. n
  BY TailElements
<1>a. n = Len(s)
  OBVIOUS
<1> HIDE DEF t, n
<1>3. \A i \in Awaiting(t, c, G) :
        i \in 1 .. n - 1 /\ t[i] = s[i + 1] /\ i + 1 \in Awaiting(s, c, F)
  <2> SUFFICES ASSUME NEW i \in Awaiting(t, c, G)
               PROVE  i \in 1 .. n - 1 /\ t[i] = s[i + 1] /\ i + 1 \in Awaiting(s, c, F)
    OBVIOUS
  <2>1. /\ i \in 1 .. n - 1 /\ t[i].kind = "finish" /\ t[i] = s[i + 1]
        /\ c \in G => \E j \in 1 .. i - 1 : t[j].kind = "finish"
    BY <1>2 DEF Awaiting
  <2>2. \E j \in 1 .. i : s[j].kind = "finish"
    <3>1. CASE s[1].kind = "finish"
      BY <1>2, <2>1, <3>1
    <3>2. CASE s[1].kind # "finish"
      <4>1. PICK j \in 1 .. i - 1 : t[j].kind = "finish"
        BY <2>1, <3>2
      <4>2. j + 1 \in 1 .. i /\ s[j + 1].kind = "finish"
        BY <1>2, <2>1, <4>1
      <4>3. QED
        BY <4>2
    <3>3. QED
      BY <3>1, <3>2
  <2>3. (i + 1) - 1 = i /\ i + 1 \in 1 .. n
    BY <1>2, <2>1
  <2>4. QED
    BY <1>a, <2>1, <2>2, <2>3 DEF Awaiting
<1> DEFINE h == [i \in 1 .. n - 1 |-> g[i + 1]]
<1>4. h \in [1 .. Len(t) -> Nat] /\ \A i \in 1 .. n - 1 : h[i] = g[i + 1]
  BY <1>1, <1>2, <1>a
<1> HIDE DEF h
<1>5. \A i \in Awaiting(t, c, G) : h[i] \in 1 .. Len(q) /\ FlushOf(q[h[i]], c, t[i].frame)
  BY <1>1, <1>3, <1>4 DEF Matches
<1>6. \A i, j \in Awaiting(t, c, G) : i < j => h[i] < h[j]
  <2> SUFFICES ASSUME NEW i \in Awaiting(t, c, G), NEW j \in Awaiting(t, c, G), i < j
               PROVE  h[i] < h[j]
    OBVIOUS
  <2>1. /\ i \in 1 .. n - 1 /\ j \in 1 .. n - 1
        /\ i + 1 \in Awaiting(s, c, F) /\ j + 1 \in Awaiting(s, c, F)
    BY <1>3
  <2>2. i + 1 < j + 1
    BY <2>1
  <2>3. g[i + 1] < g[j + 1]
    BY <1>1, <2>1, <2>2 DEF Matches
  <2>4. QED
    BY <1>4, <2>1, <2>3
<1>7. QED
  BY <1>4, <1>5, <1>6 DEF Matched, Matches, t

(* The end of another command buffer's flush.                              *)
LEMMA MatchedOther ==
  ASSUME NEW s, NEW q, NEW c, NEW F, NEW G, c \in F <=> c \in G, Matched(s, q, c, F)
  PROVE  Matched(s, q, c, G)
BY DEF Matched, Matches, Awaiting

------------------------------------------------------------------------------
(* Steps on the contents of a queue.                                       *)

(* What holds of the new queue of a command buffer now holds of it after   *)
(* the step, if what it depends on does not change.                        *)
LEMMA EndedStays ==
  ASSUME frame' = frame, NEW c, NEW s, s = commands'[c], Ended(s)
  PROVE  Ended(commands[c])'
<1>1. Ended(s)'
  BY DEF Ended
<1>2. QED
  BY <1>1 DEF Ended

LEMMA QueueStays ==
  ASSUME UNCHANGED <<presented, frame, currentIndex, staging>>,
         NEW c, NEW s, s = commands'[c], Entries(s), Ended(s)
  PROVE  Entries(commands[c])' /\ Ended(commands[c])'
<1>1. Entries(s)'
  BY DEF Entries, Entry, SlotOfFrame
<1>2. QED
  BY <1>1, EndedStays DEF Entries, Entry, SlotOfFrame

(* A queue without its first message.                                      *)
LEMMA EntriesTail ==
  ASSUME NEW S, NEW s \in Seq(S), s # <<>>, Entries(s), Ended(s)
  PROVE  Entries(Tail(s)) /\ Ended(Tail(s))
<1> DEFINE t == Tail(s)
           n == Len(s)
<1>1. /\ n \in Nat /\ n > 0 /\ Len(t) = n - 1
      /\ \A i \in 1 .. n - 1 : t[i] = s[i + 1] /\ i + 1 \in 1 .. n
  BY TailElements
<1>2. /\ \A i \in 1 .. n : Entry(s[i])
      /\ \A i \in 1 .. n : s[i].frame < frame =>
           \E j \in i .. n : s[j].kind = "finish" /\ s[j].frame = s[i].frame
      /\ \A i, j \in 1 .. n : i < j => s[i].frame <= s[j].frame
  BY DEF Entries, Ended
<1> HIDE DEF t, n
<1>3. Entries(t)
  BY <1>1, <1>2 DEF Entries
<1>4. ASSUME NEW i \in 1 .. n - 1, t[i].frame < frame
      PROVE  \E j \in i .. n - 1 : t[j].kind = "finish" /\ t[j].frame = t[i].frame
  <2>1. PICK j \in i + 1 .. n : s[j].kind = "finish" /\ s[j].frame = s[i + 1].frame
    BY <1>1, <1>2, <1>4
  <2>2. j - 1 \in i .. n - 1 /\ j - 1 \in 1 .. n - 1 /\ (j - 1) + 1 = j
    BY <1>1, <2>1
  <2>3. QED
    BY <1>1, <2>1, <2>2
<1>5. \A i, j \in 1 .. n - 1 : i < j => t[i].frame <= t[j].frame
  BY <1>1, <1>2
<1>6. Ended(t)
  BY <1>1, <1>4, <1>5 DEF Ended
<1>7. QED
  BY <1>3, <1>6 DEF t

(* A message of the current frame is recorded.                             *)
LEMMA EndedAppend ==
  ASSUME NEW S, NEW s \in Seq(S), NEW m \in S, m.frame = frame, frame \in Nat,
         Entries(s), Ended(s)
  PROVE  Ended(Append(s, m))
<1> DEFINE t == Append(s, m)
           n == Len(s)
<1>1. /\ n \in Nat /\ Len(t) = n + 1 /\ \A i \in 1 .. n : t[i] = s[i]
      /\ t[n + 1] = m
  BY AppendElements
<1>2. /\ \A i \in 1 .. n : s[i].frame <= frame
      /\ \A i \in 1 .. n : s[i].frame < frame =>
           \E j \in i .. n : s[j].kind = "finish" /\ s[j].frame = s[i].frame
      /\ \A i, j \in 1 .. n : i < j => s[i].frame <= s[j].frame
  BY DEF Entries, Entry, Ended
<1> HIDE DEF t, n
<1>3. ASSUME NEW i \in 1 .. n + 1, t[i].frame < frame
      PROVE  \E j \in i .. n + 1 : t[j].kind = "finish" /\ t[j].frame = t[i].frame
  <2>1. i \in 1 .. n
    BY <1>1, <1>3
  <2>2. PICK j \in i .. n : s[j].kind = "finish" /\ s[j].frame = s[i].frame
    BY <1>1, <1>2, <1>3, <2>1
  <2>3. j \in 1 .. n /\ j \in i .. n + 1
    BY <1>1, <2>1, <2>2
  <2>4. QED
    BY <1>1, <2>1, <2>2, <2>3
<1>4. ASSUME NEW i \in 1 .. n + 1, NEW j \in 1 .. n + 1, i < j
      PROVE  t[i].frame <= t[j].frame
  <2>1. i \in 1 .. n
    BY <1>1, <1>4
  <2>2. CASE j = n + 1
    BY <1>1, <1>2, <2>1, <2>2
  <2>3. CASE j # n + 1
    <3>1. j \in 1 .. n
      BY <1>1, <2>3
    <3>2. QED
      BY <1>1, <1>2, <1>4, <2>1, <3>1
  <2>4. QED
    BY <2>2, <2>3
<1>5. QED
  BY <1>1, <1>3, <1>4 DEF Ended, t

(* The end of a frame: all queues are ended.                               *)
LEMMA EndedPresent ==
  ASSUME NEW s \in Seq(CommandMessages), frame \in Nat, frame' = frame + 1,
         s # <<>> => s[Len(s)].kind = "finish",
         Entries(s), Ended(s)
  PROVE  Ended(s)'
<1> DEFINE n == Len(s)
<1>1. n \in Nat /\ \A i \in 1 .. n : s[i].frame \in Nat
  BY CommandMessageFields
<1>a. n > 0 => s[n].kind = "finish"
  OBVIOUS
<1>2. /\ \A i \in 1 .. n : s[i].frame <= frame
      /\ \A i \in 1 .. n : s[i].frame < frame =>
           \E j \in i .. n : s[j].kind = "finish" /\ s[j].frame = s[i].frame
      /\ \A i, j \in 1 .. n : i < j => s[i].frame <= s[j].frame
  BY DEF Entries, Entry, Ended
<1> HIDE DEF n
<1>3. ASSUME NEW i \in 1 .. n
      PROVE  \E j \in i .. n : s[j].kind = "finish" /\ s[j].frame = s[i].frame
  <2>1. CASE s[i].frame < frame
    BY <1>2, <2>1
  <2>2. CASE ~(s[i].frame < frame)
    <3>1. s[i].frame = frame /\ n \in 1 .. n /\ n \in i .. n
      BY <1>1, <1>2, <2>2
    <3>2. s[n].frame <= frame /\ s[i].frame <= s[n].frame
      BY <1>1, <1>2, <3>1
    <3>3. s[n].frame = s[i].frame
      BY <1>1, <3>1, <3>2
    <3>4. QED
      BY <1>1, <1>a, <3>1, <3>3
  <2>3. QED
    BY <2>1, <2>2
<1>4. QED
  BY <1>2, <1>3 DEF Ended, n

(* The index turns by one slot with each frame, and no message that is     *)
(* still to be executed is farther behind than the number of slots.        *)
LEMMA SlotTurns ==
  ASSUME StagingInv, BeginPresent, NEW slot \in Slots, NEW f \in Nat,
         presented <= f, f <= frame,
         \/ slot + (frame - f) = currentIndex
         \/ slot + (frame - f) = currentIndex + MAX_FRAME_INDEX
  PROVE  \/ slot + (frame' - f) = currentIndex'
         \/ slot + (frame' - f) = currentIndex' + MAX_FRAME_INDEX
<1>1. /\ frame \in Nat /\ presented \in Nat /\ currentIndex \in Slots
      /\ MAX_CPU_FRAME_AHEAD \in Nat
      /\ frame <= presented + MAX_CPU_FRAME_AHEAD
  BY Distance, DeviceAssumption DEF StagingInv, TypeOK, BeginPresent, FramesAhead
<1>2. /\ frame' = frame + 1
      /\ currentIndex' = IF currentIndex = MAX_CPU_FRAME_AHEAD
                         THEN 0 ELSE currentIndex + 1
  BY <1>1, NextIndex DEF BeginPresent
<1>3. slot \in Nat /\ slot <= MAX_CPU_FRAME_AHEAD /\ currentIndex \in Nat
  BY <1>1 DEF Slots
<1>4. CASE currentIndex = MAX_CPU_FRAME_AHEAD
  BY <1>1, <1>2, <1>3, <1>4 DEF MAX_FRAME_INDEX
<1>5. CASE currentIndex # MAX_CPU_FRAME_AHEAD
  BY <1>1, <1>2, <1>3, <1>5 DEF MAX_FRAME_INDEX
<1>6. QED
  BY <1>4, <1>5

(* Staging data of the current frame spoils no recorded update of another. *)
LEMMA StageKeepsEntry ==
  ASSUME StagingInv, ~waiting, NEW b \in Buffers, Stage(b),
         NEW m \in CommandMessages, m.kind = "update", Entry(m)
  PROVE  staging'[m.buffer][m.slot] = m.frame
<1>1. /\ staging \in [Buffers -> [Slots -> Nat]]
      /\ currentIndex \in Slots
      /\ staging' = [staging EXCEPT ![b][currentIndex] = frame]
      /\ m.buffer \in Buffers /\ m.slot \in Slots /\ m.frame \in Nat
  BY CommandMessageFields DEF StagingInv, TypeOK, Stage
<1>2. staging[m.buffer][m.slot] = m.frame
  BY DEF Entry
<1>3. CASE m.slot = currentIndex
  <2>1. /\ frame \in Nat /\ presented \in Nat /\ currentIndex \in Nat
        /\ MAX_CPU_FRAME_AHEAD \in Nat
    BY DeviceAssumption DEF StagingInv, TypeOK, Slots
  <2>2. frame <= presented + MAX_CPU_FRAME_AHEAD
    BY Distance DEF StagingInv, FramesAhead
  <2>3. presented <= m.frame /\ m.frame <= frame /\ SlotOfFrame(m)
    BY DEF Entry
  <2>4. m.frame = frame
    BY <1>1, <1>3, <2>1, <2>2, <2>3 DEF SlotOfFrame, MAX_FRAME_INDEX
  <2>5. QED
    BY <1>1, <1>2, <1>3, <2>4
<1>4. CASE m.slot # currentIndex
  BY <1>1, <1>2, <1>4
<1>5. QED
  BY <1>3, <1>4

(* A frame is presented: what the command buffers still hold is of later   *)
(* frames.  A message of this frame would be followed by a finish message  *)
(* whose flush is behind the present message, but belongs to its frame.    *)
LEMMA PresentLeavesNothing ==
  ASSUME StagingInv, CommandInv, ExecutePresent, NEW c \in CommandBuffers,
         NEW i \in 1 .. Len(commands[c])
  PROVE  presented + 1 <= commands[c][i].frame
<1>1. /\ commands[c] \in Seq(CommandMessages) /\ mainQueue \in Seq(MainMessages)
      /\ frame \in Nat /\ presented \in Nat /\ Len(mainQueue) \in Nat
      /\ commands[c][i] \in CommandMessages
  BY DEF StagingInv, TypeOK
<1>2. /\ flushing = {} /\ Len(mainQueue) > 0 /\ mainQueue # <<>>
      /\ mainQueue[1].kind = "present"
  BY <1>1 DEF ExecutePresent, NextIs, StagingInv, TypeOK
<1>3. presented <= commands[c][i].frame /\ commands[c][i].frame \in Nat
  BY <1>1, CommandMessageFields DEF CommandInv, Entries, Entry
<1>4. SUFFICES ASSUME commands[c][i].frame = presented PROVE FALSE
  BY <1>1, <1>3
<1>5. /\ presented <= mainQueue[1].frame /\ mainQueue[1].frame < frame
      /\ mainQueue[1].frame \in Nat
  <2>1. 1 \in 1 .. Len(mainQueue) /\ mainQueue[1] \in MainMessages
    BY <1>1, <1>2
  <2>2. QED
    BY <1>2, <2>1, MainMessageFields DEF StagingInv, QueueInOrder
<1>6. commands[c][i].frame < frame
  BY <1>1, <1>4, <1>5
<1>7. PICK j \in i .. Len(commands[c]) :
        commands[c][j].kind = "finish" /\ commands[c][j].frame = presented
  BY <1>4, <1>6 DEF CommandInv, Ended
<1>8. j \in Awaiting(commands[c], c, flushing)
  BY <1>1, <1>2, <1>7 DEF Awaiting
<1>9. PICK k \in 1 .. Len(mainQueue) : FlushOf(mainQueue[k], c, commands[c][j].frame)
  BY <1>8 DEF CommandInv, Matched, Matches
<1>10. k # 1 /\ mainQueue[k].frame = presented
  BY <1>2, <1>7, <1>9 DEF FlushOf
<1>11. 1 \in 1 .. Len(mainQueue) /\ 1 < k
  BY <1>1, <1>2, <1>9, <1>10
<1>12. mainQueue[1].frame < mainQueue[k].frame
  BY <1>2, <1>9, <1>11 DEF StagingInv, QueueInOrder
<1>13. QED
  BY <1>1, <1>5, <1>10, <1>12

------------------------------------------------------------------------------
(* The invariant of the command buffers.                                   *)

LEMMA CommandInit == Init => CommandInv
<1> SUFFICES ASSUME Init, NEW c \in CommandBuffers
             PROVE  /\ Entries(commands[c]) /\ Ended(commands[c])
                    /\ Matched(commands[c], mainQueue, c, flushing)
  BY DEF CommandInv
<1>1. commands[c] = <<>>
  BY DEF Init
<1>2. Len(commands[c]) = 0
  BY <1>1
<1>3. Entries(commands[c]) /\ Ended(commands[c])
  BY <1>2 DEF Entries, Ended
<1>4. Awaiting(commands[c], c, flushing) = {}
  BY <1>2 DEF Awaiting
<1>5. [i \in 1 .. 0 |-> 0] \in [1 .. Len(commands[c]) -> Nat]
  BY <1>2
<1>6. QED
  BY <1>3, <1>4, <1>5 DEF Matched, Matches

LEMMA CommandStep == StagingInv /\ StagingInv' /\ CommandInv /\ [Next]_vars => CommandInv'
<1> SUFFICES ASSUME StagingInv, StagingInv', CommandInv, [Next]_vars
             PROVE  CommandInv'
  OBVIOUS
<1>0. /\ commands \in [CommandBuffers -> Seq(CommandMessages)]
      /\ mainQueue \in Seq(MainMessages) /\ frame \in Nat /\ presented \in Nat
      /\ presented <= frame /\ flushing \subseteq CommandBuffers
  BY DEF StagingInv, TypeOK
<1>a. \A c \in CommandBuffers :
        /\ commands[c] \in Seq(CommandMessages) /\ Len(commands[c]) \in Nat
        /\ Entries(commands[c]) /\ Ended(commands[c])
        /\ Matched(commands[c], mainQueue, c, flushing)
  BY <1>0 DEF CommandInv
<1>b. \A c \in CommandBuffers : \A i \in 1 .. Len(commands[c]) :
        commands[c][i] \in CommandMessages
  BY <1>0
<1>1. ASSUME NEW b \in Buffers, UpdateBuffer(b) PROVE CommandInv'
  <2>1. /\ ~waiting /\ Stage(b) /\ mainQueue' = Append(mainQueue, Update(b))
        /\ UNCHANGED <<frame, presented, currentIndex, commands, flushing>>
    BY <1>1 DEF UpdateBuffer, WriteMain, mainVars
  <2>2. Update(b) \in MainMessages
    BY WrittenMessages DEF StagingInv
  <2>3. ASSUME NEW c \in CommandBuffers
        PROVE  /\ Entries(commands[c])' /\ Ended(commands[c])'
               /\ Matched(commands[c], mainQueue, c, flushing)'
    <3>1. \A i \in 1 .. Len(commands[c]) : Entry(commands[c][i]) /\ commands[c][i].kind = "update" =>
            staging'[commands[c][i].buffer][commands[c][i].slot] = commands[c][i].frame
      BY <1>b, <2>1, StageKeepsEntry
    <3>2. Entries(commands[c])'
      BY <1>a, <2>1, <3>1 DEF Entries, Entry, SlotOfFrame
    <3>3. Ended(commands[c])'
      BY <1>a, <2>1 DEF Ended
    <3>4. Matched(commands[c], Append(mainQueue, Update(b)), c, flushing)
      BY <1>0, <1>a, <2>2, MatchedMainAppend
    <3>5. QED
      BY <2>1, <3>2, <3>3, <3>4
  <2>4. QED
    BY <2>3 DEF CommandInv
<1>2. ASSUME NEW d \in CommandBuffers, NEW b \in Buffers, RecordUpdate(d, b)
      PROVE  CommandInv'
  <2>1. /\ ~waiting /\ Stage(b)
        /\ commands' = [commands EXCEPT ![d] = Append(@, Update(b))]
        /\ UNCHANGED <<mainQueue, frame, presented, currentIndex, flushing>>
    BY <1>2 DEF RecordUpdate, mainVars
  <2>2. /\ Update(b) \in CommandMessages
        /\ Update(b).frame = frame /\ Update(b).kind = "update"
        /\ Update(b).slot = currentIndex /\ Update(b).buffer = b
    BY WrittenMessages DEF StagingInv, Update
  <2>3. ASSUME NEW c \in CommandBuffers
        PROVE  /\ Entries(commands[c])' /\ Ended(commands[c])'
               /\ Matched(commands[c], mainQueue, c, flushing)'
    <3>1. \A i \in 1 .. Len(commands[c]) :
            /\ presented <= commands[c][i].frame /\ commands[c][i].frame <= frame
            /\ commands[c][i].kind = "update" =>
                 /\ SlotOfFrame(commands[c][i])
                 /\ staging'[commands[c][i].buffer][commands[c][i].slot]
                      = commands[c][i].frame
      BY <1>a, <1>b, <2>1, StageKeepsEntry DEF Entries, Entry
    <3>2. CASE c # d
      <4>1. commands'[c] = commands[c]
        BY <1>0, <2>1, <3>2
      <4>2. Entries(commands[c])'
        BY <2>1, <3>1, <4>1 DEF Entries, Entry, SlotOfFrame
      <4>3. Ended(commands[c])'
        BY <1>a, <2>1, <4>1, EndedStays
      <4>4. QED
        BY <1>a, <2>1, <4>1, <4>2, <4>3
    <3>3. CASE c = d
      <4>1. commands'[c] = Append(commands[c], Update(b))
        BY <1>0, <2>1, <3>3
      <4> DEFINE n == Len(commands[c])
      <4>2. /\ n \in Nat /\ Len(commands'[c]) = n + 1
            /\ \A i \in 1 .. n : commands'[c][i] = commands[c][i]
            /\ commands'[c][n + 1] = Update(b)
        BY <1>a, <2>2, <4>1, AppendElements
      <4>3. staging'[b][currentIndex] = frame
        BY <2>1, StageKeeps
      <4>4. Entries(commands[c])'
        <5>1. SUFFICES ASSUME NEW i \in 1 .. n + 1 PROVE Entry(commands[c][i])'
          BY <4>2 DEF Entries
        <5>2. CASE i \in 1 .. n
          BY <2>1, <3>1, <4>2, <5>2 DEF Entry, SlotOfFrame
        <5>3. CASE i = n + 1
          <6>1. commands'[c][i] = Update(b)
            BY <4>2, <5>3
          <6>2. /\ Update(b).slot + (frame - Update(b).frame) = currentIndex
                /\ presented <= Update(b).frame /\ Update(b).frame <= frame
            <7>1. currentIndex \in Nat
              BY DEF StagingInv, TypeOK, Slots
            <7>2. QED
              BY <1>0, <2>2, <7>1
          <6>3. QED
            BY <2>1, <2>2, <4>3, <6>1, <6>2 DEF Entry, SlotOfFrame
        <5>4. QED
          BY <4>2, <5>2, <5>3
      <4>5. Ended(commands[c])'
        <5>1. Ended(Append(commands[c], Update(b)))
          BY <1>0, <1>a, <2>2, EndedAppend
        <5>2. QED
          BY <2>1, <4>1, <5>1, EndedStays
      <4>6. Matched(Append(commands[c], Update(b)), mainQueue, c, flushing)
        BY <1>a, <2>2, MatchedRecord
      <4>7. QED
        BY <2>1, <4>1, <4>4, <4>5, <4>6
    <3>4. QED
      BY <3>2, <3>3
  <2>4. QED
    BY <2>3 DEF CommandInv
<1>3. ASSUME NEW cs \in SUBSET CommandBuffers, FlushCommands(cs)
      PROVE  CommandInv'
  <2>1. /\ mainQueue' = Append(mainQueue, Flush(cs))
        /\ commands' = [c \in CommandBuffers |->
                          IF c \in cs THEN Append(commands[c], Finish) ELSE commands[c]]
        /\ UNCHANGED <<frame, presented, currentIndex, staging, flushing>>
    BY <1>3 DEF FlushCommands, WriteMain, mainVars
  <2>2. /\ Flush(cs) \in MainMessages /\ Finish \in CommandMessages
        /\ Finish.frame = frame /\ Finish.kind = "finish"
        /\ Flush(cs).kind = "flush" /\ Flush(cs).buffers = cs /\ Flush(cs).frame = frame
    BY WrittenMessages DEF StagingInv, Flush, Finish
  <2>3. ASSUME NEW c \in CommandBuffers
        PROVE  /\ Entries(commands[c])' /\ Ended(commands[c])'
               /\ Matched(commands[c], mainQueue, c, flushing)'
    <3>1. CASE c \notin cs
      <4>1. commands'[c] = commands[c]
        BY <2>1, <3>1
      <4>2. Entries(commands[c])' /\ Ended(commands[c])'
        BY <1>a, <2>1, <4>1, QueueStays
      <4>3. Matched(commands[c], Append(mainQueue, Flush(cs)), c, flushing)
        BY <1>0, <1>a, <2>2, MatchedMainAppend
      <4>4. QED
        BY <2>1, <4>1, <4>2, <4>3
    <3>2. CASE c \in cs
      <4>1. commands'[c] = Append(commands[c], Finish)
        BY <2>1, <3>2
      <4> DEFINE n == Len(commands[c])
      <4>2. /\ n \in Nat /\ Len(commands'[c]) = n + 1
            /\ \A i \in 1 .. n : commands'[c][i] = commands[c][i]
            /\ commands'[c][n + 1] = Finish
        BY <1>a, <2>2, <4>1, AppendElements
      <4>3. Entries(commands[c])'
        <5>1. SUFFICES ASSUME NEW i \in 1 .. n + 1 PROVE Entry(commands[c][i])'
          BY <4>2 DEF Entries
        <5>2. CASE i \in 1 .. n
          BY <1>a, <2>1, <4>2, <5>2 DEF Entries, Entry, SlotOfFrame
        <5>3. CASE i = n + 1
          BY <1>0, <2>1, <2>2, <4>2, <5>3 DEF Entry
        <5>4. QED
          BY <4>2, <5>2, <5>3
      <4>4. Ended(commands[c])'
        <5>1. Ended(Append(commands[c], Finish))
          BY <1>0, <1>a, <2>2, EndedAppend
        <5>2. QED
          BY <2>1, <4>1, <5>1, EndedStays
      <4>5. FlushOf(Flush(cs), c, Finish.frame)
        BY <2>2, <3>2 DEF FlushOf
      <4>6. Matched(Append(commands[c], Finish), Append(mainQueue, Flush(cs)), c, flushing)
        BY <1>0, <1>a, <2>2, <4>5, MatchedFlush
      <4>7. QED
        BY <2>1, <4>1, <4>3, <4>4, <4>6
    <3>3. QED
      BY <3>1, <3>2
  <2>4. QED
    BY <2>3 DEF CommandInv
<1>4. CASE BeginPresent
  <2>1. /\ AllFlushed /\ mainQueue' = Append(mainQueue, Present) /\ frame' = frame + 1
        /\ UNCHANGED <<presented, staging, commands, flushing>>
    BY <1>4 DEF BeginPresent
  <2>2. Present \in MainMessages
    BY WrittenMessages DEF StagingInv
  <2>3. ASSUME NEW c \in CommandBuffers
        PROVE  /\ Entries(commands[c])' /\ Ended(commands[c])'
               /\ Matched(commands[c], mainQueue, c, flushing)'
    <3>1. ASSUME NEW i \in 1 .. Len(commands[c])
          PROVE  /\ presented <= commands[c][i].frame /\ commands[c][i].frame <= frame + 1
                 /\ commands[c][i].kind = "update" =>
                      /\ \/ commands[c][i].slot + (frame' - commands[c][i].frame)
                              = currentIndex'
                         \/ commands[c][i].slot + (frame' - commands[c][i].frame)
                              = currentIndex' + MAX_FRAME_INDEX
                      /\ staging[commands[c][i].buffer][commands[c][i].slot]
                           = commands[c][i].frame
      <4>1. Entry(commands[c][i]) /\ commands[c][i] \in CommandMessages
        BY <1>a, <1>b DEF Entries
      <4>2. commands[c][i].frame \in Nat
            /\ (commands[c][i].kind = "update" => commands[c][i].slot \in Slots)
        BY <4>1, CommandMessageFields
      <4>3. QED
        BY <1>0, <1>4, <4>1, <4>2, SlotTurns DEF Entry, SlotOfFrame
    <3>2. Entries(commands[c])'
      BY <2>1, <3>1 DEF Entries, Entry, SlotOfFrame
    <3>3. Ended(commands[c])'
      <4>1. PICK s \in Seq(CommandMessages) : s = commands[c]
        BY <1>a
      <4>2. Ended(s)'
        BY <1>0, <1>a, <2>1, <4>1, EndedPresent DEF AllFlushed
      <4>3. QED
        BY <2>1, <4>1, <4>2 DEF Ended
    <3>4. Matched(commands[c], Append(mainQueue, Present), c, flushing)
      BY <1>0, <1>a, <2>2, MatchedMainAppend
    <3>5. QED
      BY <2>1, <3>2, <3>3, <3>4
  <2>4. QED
    BY <2>3 DEF CommandInv
<1>5. CASE Kick \/ EndPresent \/ UNCHANGED vars
  <2>1. UNCHANGED <<mainQueue, commands, flushing, presented, frame, currentIndex, staging>>
    BY <1>5 DEF Kick, EndPresent, vars, mainVars
  <2>2. QED
    BY <1>a, <2>1 DEF CommandInv, Entries, Entry, SlotOfFrame, Ended
<1>6. ASSUME flushing = {}, mainQueue # <<>>, mainQueue' = Tail(mainQueue),
             mainQueue[1].kind = "flush" => flushing' = mainQueue[1].buffers,
             NEW c \in CommandBuffers, commands' = commands
      PROVE  Matched(commands[c], mainQueue, c, flushing)'
  <2>1. Matched(commands[c], mainQueue, c, {})
    BY <1>a, <1>6
  <2>2. Matched(commands[c], Tail(mainQueue), c, flushing')
    BY <1>0, <1>a, <1>6, <2>1, MatchedTake
  <2>3. QED
    BY <1>6, <2>2
<1>7. ASSUME NEW kind, NextIs(kind)
      PROVE  flushing = {} /\ mainQueue # <<>> /\ mainQueue[1].kind = kind
             /\ Head(mainQueue) = mainQueue[1]
  BY <1>0, <1>7 DEF NextIs, StagingInv, TypeOK
<1>8. CASE ExecuteUpdate \/ ExecuteFlush
  <2>1. /\ UNCHANGED <<commands, presented, frame, currentIndex, staging>>
        /\ mainQueue' = Tail(mainQueue) /\ flushing = {} /\ mainQueue # <<>>
        /\ mainQueue[1].kind = "flush" => flushing' = mainQueue[1].buffers
    <3>1. CASE ExecuteUpdate
      BY <1>7, <3>1 DEF ExecuteUpdate, mainVars
    <3>2. CASE ExecuteFlush
      BY <1>7, <3>2 DEF ExecuteFlush, mainVars
    <3>3. QED
      BY <1>8, <3>1, <3>2
  <2>2. \A c \in CommandBuffers : Entries(commands[c])' /\ Ended(commands[c])'
    BY <1>a, <2>1 DEF Entries, Entry, SlotOfFrame, Ended
  <2>3. QED
    BY <1>6, <2>1, <2>2 DEF CommandInv
<1>9. CASE ExecutePresent
  <2>1. /\ UNCHANGED <<commands, frame, currentIndex, staging>>
        /\ presented' = presented + 1
        /\ mainQueue' = Tail(mainQueue) /\ flushing = {} /\ mainQueue # <<>>
        /\ mainQueue[1].kind = "present"
    BY <1>7, <1>9 DEF ExecutePresent
  <2>2. \A c \in CommandBuffers : \A i \in 1 .. Len(commands[c]) :
          presented' <= commands[c][i].frame
    BY <1>9, <2>1, PresentLeavesNothing
  <2>3. \A c \in CommandBuffers : Entries(commands[c])' /\ Ended(commands[c])'
    BY <1>a, <2>1, <2>2 DEF Entries, Entry, SlotOfFrame, Ended
  <2>4. QED
    BY <1>6, <2>1, <2>3 DEF CommandInv
<1>10. ASSUME NEW d \in CommandBuffers, FlushMessage(d) PROVE CommandInv'
  <2>1. /\ d \in flushing /\ commands[d] # <<>>
        /\ commands' = [commands EXCEPT ![d] = Tail(@)]
        /\ flushing' = IF Head(commands[d]).kind = "finish" THEN flushing \ {d} ELSE flushing
        /\ UNCHANGED <<mainQueue, presented, frame, currentIndex, staging>>
    BY <1>10 DEF FlushMessage, mainVars
  <2>2. ASSUME NEW c \in CommandBuffers
        PROVE  /\ Entries(commands[c])' /\ Ended(commands[c])'
               /\ Matched(commands[c], mainQueue, c, flushing)'
    <3>1. CASE c # d
      <4>1. commands'[c] = commands[c] /\ (c \in flushing' <=> c \in flushing)
        BY <1>0, <2>1, <3>1
      <4>2. Entries(commands[c])' /\ Ended(commands[c])'
        BY <1>a, <2>1, <4>1, QueueStays
      <4>3. Matched(commands[c], mainQueue, c, flushing')
        BY <1>a, <4>1, MatchedOther
      <4>4. QED
        BY <2>1, <4>1, <4>2, <4>3
    <3>2. CASE c = d
      <4>1. commands'[c] = Tail(commands[c]) /\ commands[c] # <<>> /\ c \in flushing
        BY <1>0, <2>1, <3>2
      <4>2. Head(commands[c]) = commands[c][1]
        BY <1>a, <4>1, TailElements
      <4>3. Entries(Tail(commands[c])) /\ Ended(Tail(commands[c]))
        BY <1>a, <4>1, EntriesTail
      <4>4. Entries(commands[c])' /\ Ended(commands[c])'
        BY <2>1, <4>1, <4>3, QueueStays
      <4>5. Matched(Tail(commands[c]), mainQueue, c, flushing')
        <5>1. /\ commands[c][1].kind = "finish" => c \notin flushing'
              /\ commands[c][1].kind # "finish" => c \in flushing'
          BY <2>1, <3>2, <4>2
        <5>2. QED
          BY <1>a, <4>1, <5>1, MatchedExecute
      <4>6. QED
        BY <2>1, <4>1, <4>4, <4>5
    <3>3. QED
      BY <3>1, <3>2
  <2>3. QED
    BY <2>2 DEF CommandInv
<1>11. QED
  BY <1>1, <1>2, <1>3, <1>4, <1>5, <1>8, <1>9, <1>10
     DEF Next, MainThread, DeviceThread

LEMMA CommandInductive == Spec => [](StagingInv /\ CommandInv)
BY StagingInit, StagingStep, CommandInit, CommandStep, PTL DEF Spec

(* Updates recorded in a command buffer find their data as well, however   *)
(* late the device thread and its jobs flush it, and whatever jobs do with *)
(* other command buffers meanwhile.                                        *)
THEOREM RecordedUpdatesFindTheirData == Spec => []RecordedStagingIntact
<1>1. StagingInv /\ CommandInv => RecordedStagingIntact
  <2> SUFFICES ASSUME StagingInv, CommandInv, NEW c \in CommandBuffers,
                      NEW i \in DOMAIN commands[c], commands[c][i].kind = "update"
               PROVE  staging[commands[c][i].buffer][commands[c][i].slot]
                        = commands[c][i].frame
    BY DEF RecordedStagingIntact
  <2>1. i \in 1 .. Len(commands[c])
    BY DEF StagingInv, TypeOK
  <2>2. QED
    BY <2>1 DEF CommandInv, Entries, Entry
<1>2. QED
  BY <1>1, CommandInductive, PTL

(* A frame is complete when it is presented: every flush of it is executed *)
(* to its finish message, and the callers end what they have recorded.     *)
THEOREM FramesComplete == Spec => []PresentedComplete
<1>1. StagingInv /\ CommandInv => PresentedComplete
  <2> SUFFICES ASSUME StagingInv, CommandInv PROVE PresentedComplete
    OBVIOUS
  <2>1. \A i \in DOMAIN mainQueue : mainQueue[i].frame >= presented
    <3>1. SUFFICES ASSUME NEW i \in DOMAIN mainQueue
                   PROVE  presented <= mainQueue[i].frame /\ mainQueue[i].frame \in Nat
                          /\ presented \in Nat
      OBVIOUS
    <3>2. i \in 1 .. Len(mainQueue) /\ mainQueue[i] \in MainMessages
      BY DEF StagingInv, TypeOK
    <3>3. QED
      BY <3>2, MainMessageFields DEF StagingInv, QueueInOrder, TypeOK
  <2>2. ASSUME NEW c \in CommandBuffers, NEW i \in DOMAIN commands[c]
        PROVE  commands[c][i].frame >= presented
    <3>1. i \in 1 .. Len(commands[c]) /\ commands[c][i] \in CommandMessages
          /\ presented \in Nat
      BY DEF StagingInv, TypeOK
    <3>2. presented <= commands[c][i].frame /\ commands[c][i].frame \in Nat
      BY <3>1, CommandMessageFields DEF CommandInv, Entries, Entry
    <3>3. QED
      BY <3>1, <3>2
  <2>3. QED
    BY <2>1, <2>2 DEF PresentedComplete
<1>2. QED
  BY <1>1, CommandInductive, PTL
=============================================================================
