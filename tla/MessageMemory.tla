---------------------------- MODULE MessageMemory ----------------------------
(***************************************************************************)
(* How the messages of several cc::MessageQueue objects are laid out in    *)
(* memory (cocos/base/threading/MessageQueue): chunks shared through one   *)
(* MemoryAllocator, messages and their data one after the other in the     *)
(* chunk of the writer, each message linked to the next, a switch message  *)
(* at the end of a chunk that links to the dummy at the head of the next.  *)
(*                                                                         *)
(* The main thread writes all queues (the main queue and those of the      *)
(* command buffers).  They are read by the device thread alone, one after  *)
(* the other, or, when command buffers are flushed by jobs, each by a      *)
(* thread of its own (CommandBufferAgent::flushCommands).                  *)
(*                                                                         *)
(* A chunk is an array of slots; a message, the switch, the dummy and a    *)
(* piece of data take one slot each.                                       *)
(***************************************************************************)
EXTENDS Integers, Sequences, FiniteSets

CONSTANTS
  Queues,
  Chunks,        \* bound: the chunks the program can have at a time
  ChunkSize,     \* slots of a chunk, MEMORY_CHUNK_SIZE
  PoolCapacity,  \* MEMORY_CHUNK_POOL_CAPACITY, 64 in the code
  MaxUnread,     \* bound: messages of a queue written and not yet read
  ParallelFlush, \* each queue is read by a thread of its own
  None           \* no chunk, no queue

ASSUME MemoryAssumption ==
  /\ IsFiniteSet(Queues) /\ IsFiniteSet(Chunks)
  /\ Cardinality(Queues) <= Cardinality(Chunks)
  /\ ChunkSize \in Nat /\ ChunkSize >= 3
  /\ PoolCapacity \in Nat
  /\ MaxUnread \in Nat
  /\ ParallelFlush \in BOOLEAN
  /\ None \notin Queues \cup Chunks

VARIABLES
  memory,      \* what each slot of each chunk holds
  writer,      \* WriterContext of each queue
  published,   \* for each queue, writtenMessageCount minus the reader's
               \* snapshot of it
  reader,      \* ReaderContext of each queue and where its thread is
  pool,        \* _chunkPool
  chunkCount,  \* _chunkCount
  uncounted,   \* the main thread has a chunk of the pool still to count
  freeQueue,   \* _chunkFreeQueue
  heap,        \* chunks that are not allocated
  busy         \* the queue the device thread is reading, or None

allocator == <<pool, chunkCount, uncounted, freeQueue, heap>>
vars == <<memory, writer, published, reader, pool, chunkCount, uncounted,
          freeQueue, heap, busy>>

------------------------------------------------------------------------------
Offsets == 0 .. ChunkSize - 1
Addresses == Chunks \X (0 .. ChunkSize)
Nowhere == <<None, 0>>

MessageKinds == {"work", "free", "switch", "dummy"}

(* A slot that holds no message (data, or nothing of interest) is raw; a   *)
(* message that was destroyed is dead, but its link is still there.        *)
Slots == [queue : Queues \cup {None}, kind : MessageKinds \cup {"dead", "raw"},
          next : Addresses \cup {Nowhere}]

Raw == [queue |-> None, kind |-> "raw", next |-> Nowhere]
RawChunk == [o \in Offsets |-> Raw]

At(a) ==
  IF a[1] \in Chunks /\ a[2] \in Offsets THEN memory[a[1]][a[2]] ELSE Raw

FirstChunk == CHOOSE f \in [Queues -> Chunks] :
                \A q, r \in Queues : f[q] = f[r] => q = r

(* Each MessageQueue takes a chunk and writes and reads its sentinel.      *)
Init ==
  /\ memory = [c \in Chunks |-> [o \in Offsets |->
       IF o = 0 /\ \E q \in Queues : c = FirstChunk[q]
       THEN [queue |-> CHOOSE q \in Queues : c = FirstChunk[q],
             kind |-> "dummy", next |-> <<c, 1>>]
       ELSE Raw]]
  /\ writer = [q \in Queues |->
       [chunk |-> FirstChunk[q], last |-> <<FirstChunk[q], 0>>,
        offset |-> 1, pending |-> 0]]
  /\ published = [q \in Queues |-> 0]
  /\ reader = [q \in Queues |->
       [last |-> <<FirstChunk[q], 0>>, newCount |-> 0,
        pc |-> "read", chunk |-> None]]
  /\ pool = {}
  /\ chunkCount = 0 /\ uncounted = FALSE
  /\ freeQueue = {}
  /\ heap = Chunks \ {FirstChunk[q] : q \in Queues}
  /\ busy = None

------------------------------------------------------------------------------
(* Allocation.  A layout is the memory and the writer of the queue q.      *)

Put(mem, a, slot) == [mem EXCEPT ![a[1]][a[2]] = slot]

(* allocate<T> for a message: it is linked to the slot after it, where the *)
(* next message will be unless data comes first.                           *)
PlaceMessage(layout, q, kind) ==
  LET w == layout.writer
      here == <<w.chunk, w.offset>>
      after == <<w.chunk, w.offset + 1>>
  IN [memory |-> Put(layout.memory, here,
                     [queue |-> q, kind |-> kind, next |-> after]),
      writer |-> [w EXCEPT !.last = here, !.offset = @ + 1, !.pending = @ + 1]]

(* allocate<T> for data: the last message is linked past the data, even if *)
(* it was published, or read, long ago.                                    *)
PlaceData(layout) ==
  LET w == layout.writer
      linked == [layout.memory EXCEPT ![w.last[1]][w.last[2]].next
                                        = <<w.chunk, w.offset + 1>>]
  IN [memory |-> linked, writer |-> [w EXCEPT !.offset = @ + 1]]

Place(layout, q, kind) ==
  IF kind = "data" THEN PlaceData(layout)
                   ELSE PlaceMessage(layout, q, kind)

(* The switch message and the dummy at the start of the chunk c.           *)
PlaceSwitch(layout, q, c) ==
  LET w == layout.writer
      here == <<w.chunk, w.offset>>
      switched ==
        [memory |-> Put(layout.memory, here,
                        [queue |-> q, kind |-> "switch", next |-> <<c, 0>>]),
         writer |-> [w EXCEPT !.last = here, !.chunk = c, !.offset = 0,
                              !.pending = @ + 1]]
  IN PlaceMessage(switched, q, "dummy")

Layout(q) == [memory |-> memory, writer |-> writer[q]]

SetLayout(q, layout) ==
  /\ memory' = layout.memory
  /\ writer' = [writer EXCEPT ![q] = layout.writer]

(* A slot is left for the switch message.                                  *)
Fits(q) == writer[q].offset + 2 <= ChunkSize

Unread(q) == reader[q].newCount + published[q] + writer[q].pending

(* Wrong: the chunk is looked up in the pool and stays in it.              *)
RequestShared(c) ==
  IF pool # {}
  THEN c \in pool /\ UNCHANGED allocator
  ELSE /\ heap # {}
       /\ c = CHOOSE h \in heap : TRUE
       /\ heap' = heap \ {c}
       /\ UNCHANGED <<pool, chunkCount, uncounted, freeQueue>>

(* MemoryAllocator::request: any chunk of the pool, for the concurrent     *)
(* queue promises no order between those that put chunks in it, which is   *)
(* counted in a step of its own (CountRequest); otherwise a new one.       *)
Request(c) ==
  IF pool # {}
  THEN /\ c \in pool
       /\ pool' = pool \ {c}
       /\ uncounted' = TRUE
       /\ UNCHANGED <<chunkCount, freeQueue, heap>>
  ELSE /\ heap # {}
       /\ c = CHOOSE h \in heap : TRUE
       /\ heap' = heap \ {c}
       /\ UNCHANGED <<pool, chunkCount, uncounted, freeQueue>>

(* allocateImpl and its caller: kind is that of the message, or "data".    *)
Allocate(q, kind) ==
  /\ ~uncounted
  /\ Unread(q) < MaxUnread
  /\ \/ /\ Fits(q)
        /\ SetLayout(q, Place(Layout(q), q, kind))
        /\ UNCHANGED allocator
     \/ /\ ~Fits(q)
        /\ \E c \in Chunks :
             /\ Request(c)
             /\ SetLayout(q, Place(PlaceSwitch(Layout(q), q, c), q, kind))

(* The end of request.  The messages were placed before it in the model,   *)
(* but nobody sees them before they are published.                         *)
CountRequest ==
  /\ uncounted
  /\ uncounted' = FALSE
  /\ chunkCount' = chunkCount - 1
  /\ UNCHANGED <<memory, writer, published, reader, pool, freeQueue, heap, busy>>

Write(q) ==
  /\ \/ Allocate(q, "work") \/ Allocate(q, "data")
  /\ UNCHANGED <<published, reader, busy>>

(* Wrong: the pending count is not reset.                                  *)
PushAndKeepPending(q) ==
  /\ ~uncounted
  /\ writer[q].pending > 0
  /\ published' = [published EXCEPT ![q] = @ + writer[q].pending]
  /\ UNCHANGED <<memory, writer, reader, allocator, busy>>

(* pushMessages, as every kick does.                                       *)
Push(q) ==
  /\ ~uncounted
  /\ writer[q].pending > 0
  /\ published' = [published EXCEPT ![q] = @ + writer[q].pending]
  /\ writer' = [writer EXCEPT ![q].pending = 0]
  /\ UNCHANGED <<memory, reader, allocator, busy>>

(* freeChunksInFreeQueue(q): the message, then (Push) the kick.            *)
FreeChunksInFreeQueue(q) ==
  /\ Allocate(q, "free")
  /\ UNCHANGED <<published, reader, busy>>

MainThread ==
  \/ CountRequest
  \/ \E q \in Queues : Write(q) \/ Push(q) \/ FreeChunksInFreeQueue(q)

------------------------------------------------------------------------------
(* Reading.                                                                *)

(* The thread that reads q is running.  A single device thread turns to    *)
(* another queue only between two messages.                                *)
Running(q) == ParallelFlush \/ busy \in {None, q}

Current(q) == At(reader[q].last)

ReadMessage(q) ==
  /\ Running(q)
  /\ reader[q].pc = "read"
  /\ IF reader[q].newCount > 0
     THEN /\ reader' = [reader EXCEPT ![q].last = At(@).next,
                                      ![q].newCount = @ - 1,
                                      ![q].pc = "execute"]
          /\ busy' = IF ParallelFlush THEN None ELSE q
          /\ UNCHANGED published
     ELSE /\ published[q] > 0
          /\ reader' = [reader EXCEPT ![q].newCount = @ + published[q]]
          /\ published' = [published EXCEPT ![q] = 0]
          /\ UNCHANGED busy
  /\ UNCHANGED <<memory, writer, allocator>>

(* msg->~Message()                                                         *)
Destroy(q) ==
  memory' = [memory EXCEPT
               ![reader[q].last[1]][reader[q].last[2]].kind = "dead"]

ExecutePlain(q) ==
  /\ reader[q].pc = "execute"
  /\ Current(q).kind \in {"work", "dummy"}
  /\ Destroy(q)
  /\ reader' = [reader EXCEPT ![q].pc = "read"]
  /\ busy' = None
  /\ UNCHANGED <<writer, published, allocator>>

(* Wrong: the chunk is put in the pool at once, not in the free queue.     *)
SwitchToPool(q) ==
  /\ reader[q].pc = "execute"
  /\ Current(q).kind = "switch"
  /\ reader' = [reader EXCEPT ![q].newCount = @ + published[q],
                              ![q].pc = "read"]
  /\ published' = [published EXCEPT ![q] = 0]
  /\ pool' = pool \cup {reader[q].last[1]}
  /\ chunkCount' = chunkCount + 1
  /\ Destroy(q)
  /\ UNCHANGED <<writer, uncounted, freeQueue, heap, busy>>

(* MemoryChunkSwitchMessage::execute pulls; its destructor recycles the    *)
(* chunk the message is in, of which the reader has yet to read the link   *)
(* to the next chunk.                                                      *)
ExecuteSwitch(q) ==
  /\ reader[q].pc = "execute"
  /\ Current(q).kind = "switch"
  /\ reader' = [reader EXCEPT ![q].newCount = @ + published[q],
                              ![q].pc = "read"]
  /\ published' = [published EXCEPT ![q] = 0]
  /\ freeQueue' = freeQueue \cup {reader[q].last[1]}
  /\ Destroy(q)
  /\ UNCHANGED <<writer, pool, chunkCount, uncounted, heap, busy>>

(* What a chunk holds is of interest only as long as a reader has to leave *)
(* it.                                                                     *)
Forget(c) ==
  memory' = IF \E q \in Queues : reader[q].last[1] = c THEN memory
            ELSE [memory EXCEPT ![c] = RawChunk]

(* Wrong: a full pool takes one more chunk.                                *)
AtCapacityTooLate == chunkCount < 0 \/ chunkCount > PoolCapacity

(* The loop of the FreeChunksInFreeQueue message: take a chunk and look at *)
(* the count of the pool, which is unsigned; the memory of a chunk that is *)
(* given back to the heap is lost ...                                      *)
AtCapacity == chunkCount < 0 \/ chunkCount >= PoolCapacity

TakeFreeChunk(q) ==
  /\ reader[q].pc = "execute"
  /\ Current(q).kind = "free"
  /\ \E c \in freeQueue :
       /\ freeQueue' = freeQueue \ {c}
       /\ IF AtCapacity
          THEN /\ heap' = heap \cup {c}
               /\ memory' = [memory EXCEPT ![c] = RawChunk]
               /\ UNCHANGED reader
          ELSE /\ reader' = [reader EXCEPT ![q].pc = "pool", ![q].chunk = c]
               /\ Forget(c)
               /\ UNCHANGED heap
  /\ UNCHANGED <<writer, published, pool, chunkCount, uncounted, busy>>

(* ... put it in the pool ...                                              *)
PoolChunk(q) ==
  /\ reader[q].pc = "pool"
  /\ pool' = pool \cup {reader[q].chunk}
  /\ reader' = [reader EXCEPT ![q].pc = "count", ![q].chunk = None]
  /\ UNCHANGED <<memory, writer, published, chunkCount, uncounted, freeQueue,
                 heap, busy>>

(* ... and count it.                                                       *)
CountChunk(q) ==
  /\ reader[q].pc = "count"
  /\ chunkCount' = chunkCount + 1
  /\ reader' = [reader EXCEPT ![q].pc = "execute"]
  /\ UNCHANGED <<memory, writer, published, pool, uncounted, freeQueue, heap,
                 busy>>

FreeDone(q) ==
  /\ reader[q].pc = "execute"
  /\ Current(q).kind = "free"
  /\ freeQueue = {}
  /\ Destroy(q)
  /\ reader' = [reader EXCEPT ![q].pc = "read"]
  /\ busy' = None
  /\ UNCHANGED <<writer, published, allocator>>

Consumer(q) ==
  \/ ReadMessage(q) \/ ExecutePlain(q) \/ ExecuteSwitch(q)
  \/ TakeFreeChunk(q) \/ PoolChunk(q) \/ CountChunk(q) \/ FreeDone(q)

Next == MainThread \/ \E q \in Queues : Consumer(q)

Spec == Init /\ [][Next]_vars

------------------------------------------------------------------------------
(* Properties.                                                             *)

TypeOK ==
  /\ memory \in [Chunks -> [Offsets -> Slots]]
  /\ writer \in [Queues -> [chunk : Chunks, last : Addresses,
                            offset : 0 .. ChunkSize, pending : Nat]]
  /\ published \in [Queues -> Nat]
  /\ reader \in [Queues -> [last : Addresses, newCount : Nat,
                            pc : {"read", "execute", "pool", "count"},
                            chunk : Chunks \cup {None}]]
  /\ pool \subseteq Chunks
  /\ chunkCount \in Int /\ uncounted \in BOOLEAN
  /\ freeQueue \subseteq Chunks
  /\ heap \subseteq Chunks
  /\ busy \in Queues \cup {None}

(* The addresses of the n messages after the last one that q has read.     *)
Walk(q, n) ==
  LET path[i \in 0 .. n] ==
        IF i = 0 THEN reader[q].last ELSE At(path[i - 1]).next
  IN [i \in 1 .. n |-> path[i]]

Ahead(q) == LET walk == Walk(q, Unread(q))
            IN {walk[i] : i \in 1 .. Unread(q)}

(* The assertion of readMessage (MessageQueue.cpp:247): the reader that    *)
(* has messages to read finds, at the last one it has read, a link to the  *)
(* next.                                                                   *)
NextMessageExists ==
  \A q \in Queues :
    reader[q].pc = "read" /\ reader[q].newCount > 0
      => Current(q).next # Nowhere

(* The chunk the reader is about to read a link from has not been handed   *)
(* out for other use.                                                      *)
LastReadStillAllocated ==
  \A q \in Queues : reader[q].last[1] \notin pool \cup heap

(* The chunks that hold what q has yet to read or to write, with the one   *)
(* whose switch message is being executed.                                 *)
ChunksOf(q) ==
  {a[1] : a \in Ahead(q)} \cup {writer[q].chunk}
    \cup (IF reader[q].pc = "execute" THEN {reader[q].last[1]} ELSE {})

Held == {reader[q].chunk : q \in Queues} \ {None}

(* No chunk is lost, and none is in two places: in use by one queue,       *)
(* waiting to be freed, being freed, in the pool or not allocated.         *)
ChunkInOnePlace ==
  \A c \in Chunks :
    Cardinality({q \in Queues : c \in ChunksOf(q)})
      + Cardinality({s \in {"pool", "free", "held", "heap"} :
           \/ s = "pool" /\ c \in pool
           \/ s = "free" /\ c \in freeQueue
           \/ s = "held" /\ c \in Held
           \/ s = "heap" /\ c \in heap}) = 1

(* The pool's size is tested, changed and counted in different steps of    *)
(* two threads: whatever they do in between, the count is off by what they *)
(* have still to count, and the pool never exceeds its capacity.           *)
PoolWithinCapacity ==
  /\ chunkCount = Cardinality(pool) + (IF uncounted THEN 1 ELSE 0)
                    - Cardinality({q \in Queues : reader[q].pc = "count"})
  /\ Cardinality(pool) <= PoolCapacity

(* Each queue delivers what is written to it, in order, once.              *)
Contents(q, from, to) ==
  LET walk == Walk(q, Unread(q))
  IN [i \in 1 .. to - from + 1 |-> At(walk[from + i - 1]).kind]

Promise(q) == INSTANCE SPSCQueue WITH
  Messages <- MessageKinds,
  Waking <- {},
  Idle <- "none",
  buffered <- Contents(q, reader[q].newCount + published[q] + 1, Unread(q)),
  visible <- Contents(q, 1, reader[q].newCount + published[q]),
  executing <- IF reader[q].pc = "read" THEN "none" ELSE Current(q).kind,
  blocked <- FALSE

QueuesDeliver ==
  /\ \A q \in Queues : Promise(q)!Init
  /\ [][\A q \in Queues : [Promise(q)!Next]_(Promise(q)!vars)]_vars
==============================================================================
