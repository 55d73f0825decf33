---------------------------- MODULE DeviceAgent ----------------------------
(***************************************************************************)
(* How the main thread and the device thread share a frame:                *)
(* gfx::DeviceAgent, CommandBufferAgent and BufferAgent of                 *)
(* cocos/renderer/gfx-agent.                                               *)
(*                                                                         *)
(* The main thread records frames.  It writes messages into the main queue *)
(* and, for every command buffer, into the queue of that command buffer;   *)
(* flushCommands ends the latter with a finish message and tells the       *)
(* device thread, through the main queue, to execute it.  A big buffer is  *)
(* updated through one of MAX_FRAME_INDEX staging buffers, chosen by       *)
(* _currentIndex, which the device thread reads when it executes the       *)
(* update.  present() ends a frame; _frameBoundarySemaphore keeps the main *)
(* thread from running too far ahead.                                      *)
(*                                                                         *)
(* Queues are those of SPSCQueue: written messages become visible when the *)
(* queue is kicked, and are taken in order.                                *)
(***************************************************************************)
EXTENDS Naturals, Sequences

CONSTANTS
  MAX_CPU_FRAME_AHEAD,  \* 1 in the code
  CommandBuffers,
  Buffers,              \* the buffers that have staging buffers
  MaxFrame,             \* bound: frames presented
  MaxMessages,          \* bound: messages in the main queue
  MaxCommands           \* bound: messages in the queue of a command buffer

ASSUME DeviceAssumption ==
  /\ MAX_CPU_FRAME_AHEAD \in Nat
  /\ MaxFrame \in Nat
  /\ MaxMessages \in Nat
  /\ MaxCommands \in Nat

MAX_FRAME_INDEX == MAX_CPU_FRAME_AHEAD + 1

Slots == 0 .. MAX_CPU_FRAME_AHEAD

VARIABLES
  frame,         \* history: how many times present() was called
  currentIndex,  \* _currentIndex
  semaphore,     \* the count of _frameBoundarySemaphore
  waiting,       \* the main thread is in _frameBoundarySemaphore.wait()
  mainQueue,     \* messages of _mainMessageQueue that were not executed
  hidden,        \* how many of them, the last ones, are not published
  commands,      \* for each command buffer, its messages not yet executed
  flushing,      \* the command buffers the device thread has yet to flush
  presented,     \* history: how many DevicePresent messages were executed
  staging        \* history: the frame whose data each staging buffer holds

mainVars == <<frame, currentIndex, semaphore, waiting>>
vars == <<frame, currentIndex, semaphore, waiting, mainQueue, hidden,
          commands, flushing, presented, staging>>

------------------------------------------------------------------------------
(* Messages carry, as history, the frame they were written in.             *)
Update(b) ==
  [kind |-> "update", frame |-> frame, buffer |-> b, slot |-> currentIndex]
Flush(cs) == [kind |-> "flush", frame |-> frame, buffers |-> cs]
Present == [kind |-> "present", frame |-> frame]
Finish == [kind |-> "finish", frame |-> frame]

UpdateMessages ==
  [kind : {"update"}, frame : Nat, buffer : Buffers, slot : Slots]
FlushMessages ==
  [kind : {"flush"}, frame : Nat, buffers : SUBSET CommandBuffers]
PresentMessages == [kind : {"present"}, frame : Nat]
FinishMessages == [kind : {"finish"}, frame : Nat]

MainMessages == UpdateMessages \cup FlushMessages \cup PresentMessages
CommandMessages == UpdateMessages \cup FinishMessages

(* Wrong: the semaphore allows one frame more.                             *)
InitOneMore ==
  /\ frame = 0
  /\ currentIndex = 0
  /\ semaphore = MAX_FRAME_INDEX
  /\ waiting = FALSE
  /\ mainQueue = <<>>
  /\ hidden = 0
  /\ commands = [c \in CommandBuffers |-> <<>>]
  /\ flushing = {}
  /\ presented = 0
  /\ staging = [b \in Buffers |-> [s \in Slots |-> 0]]

Init ==
  /\ frame = 0
  /\ currentIndex = 0
  /\ semaphore = MAX_CPU_FRAME_AHEAD
  /\ waiting = FALSE
  /\ mainQueue = <<>>
  /\ hidden = 0
  /\ commands = [c \in CommandBuffers |-> <<>>]
  /\ flushing = {}
  /\ presented = 0
  /\ staging = [b \in Buffers |-> [s \in Slots |-> 0]]

------------------------------------------------------------------------------
(* The main thread.                                                        *)

WriteMain(m) ==
  /\ Len(mainQueue) < MaxMessages
  /\ mainQueue' = Append(mainQueue, m)
  /\ hidden' = hidden + 1

(* getActorBuffer and the memcpy that follows it: the staging buffer of    *)
(* the current index is overwritten.                                       *)
Stage(b) == staging' = [staging EXCEPT ![b][currentIndex] = frame]

(* BufferAgent::update                                                     *)
UpdateBuffer(b) ==
  /\ ~waiting
  /\ Stage(b)
  /\ WriteMain(Update(b))
  /\ UNCHANGED <<mainVars, commands, flushing, presented>>

(* CommandBufferAgent::updateBuffer                                        *)
RecordUpdate(c, b) ==
  /\ ~waiting
  /\ Len(commands[c]) < MaxCommands
  /\ Stage(b)
  /\ commands' = [commands EXCEPT ![c] = Append(@, Update(b))]
  /\ UNCHANGED <<mainVars, mainQueue, hidden, flushing, presented>>

(* DeviceAgent::flushCommands: finishWriting on the queue of each command  *)
(* buffer, then DeviceFlushCommands in the main queue.                     *)
FlushCommands(cs) ==
  /\ ~waiting
  /\ \A c \in cs : Len(commands[c]) < MaxCommands
  /\ commands' = [c \in CommandBuffers |->
                    IF c \in cs THEN Append(commands[c], Finish)
                                ELSE commands[c]]
  /\ WriteMain(Flush(cs))
  /\ UNCHANGED <<mainVars, flushing, presented, staging>>

(* Anything that kicks the main queue within a frame, such as              *)
(* copyTextureToBuffers, or the creation and resizing of a swapchain.      *)
Kick ==
  /\ ~waiting
  /\ hidden > 0
  /\ hidden' = 0
  /\ UNCHANGED <<mainVars, mainQueue, commands, flushing, presented,
                 staging>>

(* The pipelines flush what they record before the frame is presented      *)
(* (ForwardPipeline.cpp:119, DeferredPipeline.cpp:133).                    *)
AllFlushed ==
  \A c \in CommandBuffers :
    commands[c] # <<>> => commands[c][Len(commands[c])].kind = "finish"

(* ... or modulo MAX_CPU_FRAME_AHEAD.                                      *)
PresentTooFewSlots ==
  /\ ~waiting
  /\ AllFlushed
  /\ frame < MaxFrame
  /\ Len(mainQueue) < MaxMessages
  /\ mainQueue' = Append(mainQueue, Present)
  /\ hidden' = 0
  /\ currentIndex' = (currentIndex + 1) % MAX_CPU_FRAME_AHEAD
  /\ frame' = frame + 1
  /\ waiting' = TRUE
  /\ UNCHANGED <<semaphore, commands, flushing, presented, staging>>

(* DeviceAgent::present up to the wait; freeChunksInFreeQueue and          *)
(* finishWriting kick the queue.                                           *)
BeginPresent ==
  /\ ~waiting
  /\ AllFlushed
  /\ frame < MaxFrame
  /\ Len(mainQueue) < MaxMessages
  /\ mainQueue' = Append(mainQueue, Present)
  /\ hidden' = 0
  /\ currentIndex' = (currentIndex + 1) % MAX_FRAME_INDEX
  /\ frame' = frame + 1
  /\ waiting' = TRUE
  /\ UNCHANGED <<semaphore, commands, flushing, presented, staging>>

(* Wrong: present() does not wait for the device.                          *)
EndPresentAtOnce ==
  /\ waiting
  /\ waiting' = FALSE
  /\ UNCHANGED <<frame, currentIndex, semaphore, mainQueue, hidden, commands,
                 flushing, presented, staging>>

EndPresent ==
  /\ waiting
  /\ semaphore > 0
  /\ semaphore' = semaphore - 1
  /\ waiting' = FALSE
  /\ UNCHANGED <<frame, currentIndex, mainQueue, hidden, commands, flushing,
                 presented, staging>>

MainThread ==
  \/ \E b \in Buffers : UpdateBuffer(b)
  \/ \E c \in CommandBuffers, b \in Buffers : RecordUpdate(c, b)
  \/ \E cs \in SUBSET CommandBuffers : FlushCommands(cs)
  \/ Kick \/ BeginPresent \/ EndPresent

------------------------------------------------------------------------------
(* The device thread, and the jobs it starts to flush command buffers.     *)

(* Wrong: the device thread does not wait for the jobs.                    *)
NextDuringJobs(kind) ==
  /\ Len(mainQueue) > hidden
  /\ Head(mainQueue).kind = kind

(* A message of the given kind is next, and the message before it is done. *)
NextIs(kind) ==
  /\ flushing = {}
  /\ Len(mainQueue) > hidden
  /\ Head(mainQueue).kind = kind

ExecuteUpdate ==
  /\ NextIs("update")
  /\ mainQueue' = Tail(mainQueue)
  /\ UNCHANGED <<mainVars, hidden, commands, flushing, presented, staging>>

(* CommandBufferAgent::flushCommands: one flushMessages per command        *)
(* buffer, in order or by jobs in any order; it ends when all have ended.  *)
ExecuteFlush ==
  /\ NextIs("flush")
  /\ mainQueue' = Tail(mainQueue)
  /\ flushing' = Head(mainQueue).buffers
  /\ UNCHANGED <<mainVars, hidden, commands, presented, staging>>

(* MessageQueue::flushMessages on the queue of c: messages are executed up *)
(* to the first finish message.                                            *)
FlushMessage(c) ==
  /\ c \in flushing
  /\ commands[c] # <<>>
  /\ commands' = [commands EXCEPT ![c] = Tail(@)]
  /\ flushing' = IF Head(commands[c]).kind = "finish"
                 THEN flushing \ {c} ELSE flushing
  /\ UNCHANGED <<mainVars, mainQueue, hidden, presented, staging>>

(* Wrong: the semaphore is signalled for the first frame only.             *)
ExecutePresentSilently ==
  /\ NextIs("present")
  /\ mainQueue' = Tail(mainQueue)
  /\ presented' = presented + 1
  /\ semaphore' = IF presented = 0 THEN semaphore + 1 ELSE semaphore
  /\ UNCHANGED <<frame, currentIndex, waiting, hidden, commands, flushing,
                 staging>>

ExecutePresent ==
  /\ NextIs("present")
  /\ mainQueue' = Tail(mainQueue)
  /\ presented' = presented + 1
  /\ semaphore' = semaphore + 1
  /\ UNCHANGED <<frame, currentIndex, waiting, hidden, commands, flushing,
                 staging>>

DeviceThread ==
  \/ ExecuteUpdate \/ ExecuteFlush \/ ExecutePresent
  \/ \E c \in CommandBuffers : FlushMessage(c)

Next == MainThread \/ DeviceThread

Spec == Init /\ [][Next]_vars

(* The device thread keeps executing, and a main thread that is let past   *)
(* the semaphore goes on.  What the application records is up to it.       *)
Fairness == WF_vars(DeviceThread) /\ WF_vars(EndPresent)

FairSpec == Spec /\ Fairness

------------------------------------------------------------------------------
(* Properties.                                                             *)

TypeOK ==
  /\ frame \in Nat
  /\ currentIndex \in Slots
  /\ semaphore \in Nat
  /\ waiting \in BOOLEAN
  /\ mainQueue \in Seq(MainMessages)
  /\ hidden \in Nat
  /\ commands \in [CommandBuffers -> Seq(CommandMessages)]
  /\ flushing \in SUBSET CommandBuffers
  /\ presented \in Nat
  /\ staging \in [Buffers -> [Slots -> Nat]]

(* The main thread records a frame only when all but the last              *)
(* MAX_CPU_FRAME_AHEAD frames before it have been presented by the device. *)
FramesAhead == ~waiting => frame <= presented + MAX_CPU_FRAME_AHEAD

(* An update that is still in the main queue finds, in its staging buffer, *)
(* data of the frame it was written in: a later frame never overwrites it. *)
StagingIntact ==
  \A i \in DOMAIN mainQueue :
    LET m == mainQueue[i] IN
    m.kind = "update" => staging[m.buffer][m.slot] = m.frame

(* The same for the updates in the queues of the command buffers.          *)
RecordedStagingIntact ==
  \A c \in CommandBuffers : \A i \in DOMAIN commands[c] :
    LET m == commands[c][i] IN
    m.kind = "update" => staging[m.buffer][m.slot] = m.frame

(* Everything a frame wrote, in whatever queue, is executed before the     *)
(* frame is presented, and nothing of it is executed twice or later.       *)
PresentedComplete ==
  /\ \A i \in DOMAIN mainQueue : mainQueue[i].frame >= presented
  /\ \A c \in CommandBuffers : \A i \in DOMAIN commands[c] :
       commands[c][i].frame >= presented

(* A main thread that waits at the frame boundary goes on.                 *)
PresentReturns == waiting ~> ~waiting
==============================================================================
