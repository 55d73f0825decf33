# TLA+ models of the engine's native core

These modules model the core of the native engine, where threads, callbacks and
objects that end meet: the message queue of `cocos/base/threading`, the GFX agent
of `cocos/renderer/gfx-agent` that uses it to run the graphics device on a
thread of its own, the scheduler and the thread pool of `cocos/base`, the HTTP
client and the WebSocket of `cocos/network`, and the script objects that the
bindings put on top of these two.  The `.cfg` files check the models with TLC on
small instances, the modules with `_proofs` in their names hold
theorems that TLAPS checks for every instance.  `PROJECT.json` is the index:
which definition models which lines, what each run checks, the hazards of the
code, the findings and the theorems.

Check a run with `tlc -config <run>.cfg MC<module>.tla`, a proof with
`tlapm <module>_proofs.tla`.

## 1. Inventory

All paths are below `src/cocos`.

| Part | State | Operations | Meets others through |
|---|---|---|---|
| Message queue, `base/threading/MessageQueue` | writer and reader contexts, condition variable, mode flags; a shared chunk allocator | allocate and write, `kick`, `kickAndWait`, `finishWriting`, `flushMessages`, start and end of the consumer thread | one producer and one consumer thread; the agents |
| GFX agent, `renderer/gfx-agent` | main queue, one queue per command buffer, frame index, frame semaphore, staging buffers | every call of the GFX interface becomes a message; `present`, `flushCommands`, `setMultithreaded` | message queues, job system, GFX backends |
| Job system, `base/job-system` | graph of jobs, their edges and executed flags | create jobs, `succeed`, `run`, `waitForAll` | flush of command buffers |
| Scheduler, `base/Scheduler` | timers per target, functions queued by other threads | schedule, unschedule, pause, resume, `update` | called back from `update` by whatever was scheduled; other threads |
| Thread pool, `base/ThreadPool` | task queue with its mutex, flags and count of idle, initialised and aborting threads with theirs | `pushTask`, `stopTasksByType`, `stopAllTasks`, stretch, shrink, `stop`; the threads | audio decoding; the owner makes every call |
| Second thread pool, `base/threading/ThreadPool` | task queue, workers | dispatch, stop | nobody |
| Linear allocator, `base/threading/ThreadSafeLinearAllocator` | used size | allocate, by any thread | script values shared with native code |
| Reference counting, `base/Ref`, `base/AutoreleasePool` | counts and pools | retain, release, autorelease | most objects |
| Frame graph, `renderer/frame-graph` | passes, resources, their uses | compile (cull, lifetimes, merge), execute | the pipelines |
| HTTP client, `network/HttpClient` | the instance, its request and response queues, its count of threads, counts of references | `send`, `sendImmediate`, `destroyInstance`, the network threads, dispatch of responses | one network thread and one thread per immediate request; the scheduler's functions; the restart of the engine |
| `XMLHttpRequest`, `bindings/manual/jsb_xmlhttprequest` | ready state, flags, one timer, one callback, roots of the script object | `open`, `send`, `abort`, the answer, the timer, finalisation | HTTP client, scheduler, handlers of the script |
| WebSocket, `network/WebSocket-libwebsockets`, `bindings/manual/jsb_websocket` | ready and close states, queue of the helper thread, references, the script object | connect, send, `closeAsync`, the callbacks of libwebsockets, deletion, restart | one helper thread for all sockets; the scheduler's functions; the collector |
| Other network code | queues, sockets | Downloader, Socket.IO, WebSocket server | service threads, main thread |
| Engine, `engine`, `application` | whether the engine runs, restart flag | the loop: scheduler, scripts, rendering | everything |
| The rest | | backends (Vulkan, GLES, Metal), validator, pipelines, script bindings, audio, storage, platform, physics, UI | |

How they interact: the main thread runs scripts and the render pipelines, which
call the GFX interface.  The agents turn each call into a message, with its
arguments, in the queue of the object: a command buffer's for what is recorded,
the main queue for the rest.  The device thread executes the main queue; when it
meets a flush it executes the queues of the command buffers, itself or with
jobs.  Staging buffers and results are shared memory beside the queues.

What is hard, and what would make each part correct:

* **Message queue.**  Producer and consumer update three counters of the same
  messages at different times, one of them wraps; the producer goes on writing
  into memory (the link of its last message) that the consumer may already have
  read; the consumer sleeps without a predicate; the thread is detached, and its
  end is signalled before it has ended.  Correct means: each message is executed
  once, in order; a blocking call comes back, and not before its work is done; a
  chunk of memory is not reused while somebody needs it, and none is lost.
* **GFX agent.**  Two threads, jobs, and queues inside queues.  Correct means:
  the main thread is at most `MAX_CPU_FRAME_AHEAD` frames ahead; staged data is
  not overwritten before it is used; a flush finds everything up to its finish
  message and blocks nobody; a frame is complete when it is presented; `present`
  comes back.
* **Job system.**  Each job once and after its predecessors, whatever the shape
  of the graph.
* **Scheduler.**  Callbacks that change the collections being walked.  Correct
  means: no timer skipped, fired after it was removed, or lost.
* **Thread pool.**  The pool stretches and shrinks while tasks arrive: threads are
  told to leave because they look idle and may have taken a task since, and are joined
  by the thread that pushes.  Correct means: each task runs once or is removed, no task is
  left to threads that sleep, every call comes back, and the pool stops with all tasks run.
* **Linear allocator.**  Concurrent allocations are disjoint and within the buffer.
* **HTTP client.**  The engine destroys the client while threads are in it; the last one
  out deletes it, and the functions they posted must not run.  Each function posted takes
  the first response, whoever posted it.  Correct means: deleted by the last and not
  before, answers once and in order, references released exactly, and an end for all.
* **XMLHttpRequest.**  One object, one callback and one timer for all the requests sent
  with it, and handlers that call `open`, `send` and `abort` from within the events.
  Correct means: the answer and the timer are those of the current request, one outcome
  each, `onloadend` in the end, and the script object kept exactly as long as needed.
* **WebSocket.**  A close by the script, by the peer, by a failure, by the collector and by
  a restart, in any order, with bare pointers to the socket in the helper's queue and in
  posted functions.  Correct means: events in their order and `onClose` once, nothing left of a
  deleted socket, messages in order on their own connection, and who closes hears of it.
* **Frame graph.**  Culling keeps exactly the passes that contribute to an output
  or have a side effect; a resource lives from its first to its last use.

## 2. Modules

| Module | Models |
|---|---|
| `SPSCQueue` | What a message queue promises: the abstract specification |
| `MessageQueue` | The two threads of a queue, their counters and synchronisation, and the switch of modes |
| `MessageMemory` | The messages of several queues in the chunks of the shared allocator |
| `DeviceAgent` | Frames of the main thread executed by the device thread and its jobs |
| `Scheduler` | Timers of targets, and `update` with callbacks that call the scheduler |
| `CocosThreadQueue` | The functions other threads hand to the main thread |
| `LegacyThreadPool` | The thread pool of `base/ThreadPool`, named after its class |
| `HttpClient` | The HTTP client, its threads, its requests and its destruction |
| `XMLHttpRequest` | The script object that uses the client and the scheduler |
| `WebSocket` | Sockets, their helper thread and their script objects |
| `MC<module>` | The instance of a module for TLC |
| `<module>_proofs` | Theorems; those about `CocosThreadQueue` are in `Scheduler_proofs` |

In each module the definitions whose comment begins with "Wrong:" are mistakes
the code might contain, one for each property of a passing run.  They take no part
in the specification; put in place of the definition that follows them, they make
the property fail (`mutants` in `PROJECT.json`).

Each module has a type invariant, `TypeOK` (`PerformTypeOK` in `CocosThreadQueue`, whose names
differ from those of `Scheduler` because one module proves theorems about both).  It documents the variables, and the proofs
rest on it; no run spends time on it, since it says little of the code.

### MessageQueue

The list of messages is the sequence `unread` of the kinds of the messages the
consumer has not read; `pending`, `written`, `snap` and `newCount` are the four
counters of the code, the middle two modulo `CounterMod`.  One action is what a
thread does between two points at which the other can tell the difference: a
`kick` is a `PushMessages` and a `Signal`, a read without messages is a pull, the
wait and another pull.  `ppc` and `cpc` say where the two threads are.  A
message that does not fit its chunk brings a switch and a dummy with it
(`Allocations`), at any time: the model does not count bytes.  In immediate mode
messages are executed in place and only the data they refer to uses the chunks;
`ImmediateChunkSwitch` is what happens when one is full.

The producer's calls are those of `kick`, `kickAndWait`, `finishWriting`,
`WRITE_MESSAGE` and the two directions of `DeviceAgent::setMultithreaded`.
`JoinBeforeRestart` restricts the callers: with it, multithreading is switched on
again only after the old thread has gone, which the code does not ensure.

The condition variable is two states of the consumer, `wait` (before the mutex is
taken) and `asleep`; a signal wakes only a consumer that is asleep.  Spurious
wakeups, which the C++ standard allows, are actions that nothing forces.

`MaxUnread` bounds the list; it is a guard of the writing actions.
`MaxUnread + 2 < CounterMod` holds in the code as long as fewer than 2^32 messages
are unread.

### MessageMemory

Chunks are arrays of slots, a message or a piece of data takes one.  `Request`,
`recycle` and `free` of the allocator are modelled step by step: the test of the
pool's size, the enqueue and the count of `MemoryAllocator::free` are three steps,
the dequeue and the count of `request` two (`Request`, `CountRequest`, with `uncounted` in
between), with other threads in between.  The count may be below zero, which the code's
unsigned comparison takes for full (`AtCapacity`).  Messages follow their links: a
reader that follows a link into a chunk that was reused reads what is there.  A
freed chunk is modelled as holding no messages (one of the outcomes that reading
freed memory has).

A queue's reader is one thread: with `ParallelFlush` each queue has its own,
otherwise one device thread reads them one message at a time.  The producer's writing
is atomic per allocation, which no other thread can tell: the memory it writes is
not published.  The one exception, the link of the last message
(`MessageQueue.h:239`), is a single store.

### DeviceAgent

The queues are those of `SPSCQueue`, with `hidden` messages of the main queue
not yet published; the queue of a command buffer is read only after the flush
message that follows it, so what of it is published does not matter.  Messages carry the frame they were
written in, `staging` the frame whose data a staging buffer holds, and
`presented` counts executed present messages: history, to state the properties
with.  Updates stand for all commands: those without staged data would only
lengthen the queues.

`AllFlushed` is an assumption about the callers: the pipelines flush what they have
recorded before the frame is presented (`ForwardPipeline.cpp:119`,
`DeferredPipeline.cpp:133`).

The bounds `MaxFrame`, `MaxMessages` and `MaxCommands` are guards; the run ends in
states with no successor when `MaxFrame` is reached, which is why its
configuration does not check for deadlock.

### Scheduler

`update` and `Timer::update` are cut where a callback runs, and where their loops
turn: `pc` is `"timer"` at the head of the loop over a target's timers, `"loop"` at that
of the loop over intervals, `"callback"` while the program's code runs.  There it may make any
of the scheduler's calls that `Reentrant` names, any number of times, and it
returns with `ReturnDelayed` or `Return`.  Removing timers is one piece of state
change with two users (`DropTimers`, `DropEntry`): by key, which moves the index of the
walk, and for a whole target, which leaves it.

The hash map is the sequence of its targets in the order of the walk; a new target may take
any place.  A rehash, which could change the order of the others during a walk,
is not modelled.  Times are integers and small.  A Timer whose count of references drops
to zero may be allocated again; its fields are then those of the new one.

`due`, `ticked` and `fired` are history: what the update under way has still to reach, has
reached, and whether the current timer was triggered in it.  `unscheduleAll` within
`~Scheduler` is the action `UnscheduleAll`; the scheduler's memory itself does not
go away in the model.

### CocosThreadQueue

`performFunctionInCocosThread` and `removeAllFunctionsToBePerformedInCocosThread` take the
mutex and change the vector in two steps.  `update` tests the vector without the
mutex: while another thread is inside its call that is a data race and the test may come
out either way (`TestEmpty` may happen or not).  Functions run without the mutex
and may make both calls.

### LegacyThreadPool

There are two mutexes.  Whatever is done with the one of the task queue in hand is one
step.  `_mutex` is not: a thread keeps it while it tests whether to sleep, and the owner
notifies with or without it, which is what decides whether a notification is lost
(`"lock"`, `"test"` and `"asleep"` of `pc`).  The predicate of a wait takes a task, so a
thread that looks idle may have one: `task` is what it has in hand.  `pushTask` is the chain
of labels of `main` from `"check"` to `"notify"`, with `pushing` set: the looks at the idle threads and
at the queue are two steps.  The owner of a cached pool may also call `tryShrinkPool` itself, which is
the part from `"shrink"` to `"join"`; the threads that it tells to leave, one by one, are in
`joining`.  The clock that makes the pool
shrink only every so often is a choice.  `stopTasksByType` puts back what is not of its
type, one task after the other while the threads may take them, without notifying anybody
(`unannounced`).

### HttpClient

A client's network thread has the client's name, the thread of `sendImmediate` that of its
request, so that `pc` is a function of both.  `functions` is the scheduler's vector: what
`CocosThreadQueue` says of it is used, not modelled again.  `destroyInstance` takes the
steps of `main` from `"quit"` to `"remove functions"`, the last of them the call of
`Engine::restartVM` that follows; a thread that finds no scheduler does not post.  The count of
threads is exact: each thread counts itself when it first runs.  The code does not
make the owner wait for that, and `CountedInTime` is the assumption that it happens in time.
`sent` (the requests of each client in their order) and `answered` (what the functions that each
thread posted have answered) are history, to say with them what the order of answers is.
Requests and responses have counts of references (`refs`, `responseRefs`); a response has one of its
maker's, beside that of the queue it waits in, and holds one to its request until its own last goes
(`ReleaseResponses`).  So the end of a client, which clears its queues, leaves the responses that
waited with their maker's reference.  Counts are taken as atomic, and a sender keeps its own
reference until the callback.

### XMLHttpRequest

`todo` is the stack of what the functions that are running have still to do, the
innermost function first: an event is an entry, and when it is fired the entry becomes
`"handler"`, during which the script may call `open`, `send` and `abort`, whose entries go in front.
The client is external: `flying` are the requests that will be answered, with a response or
with an error, in the order of their sending or not.  The script may open the object, send with it and abort at any time, also while answers to requests that
timed out or were aborted are still to come.  The object has no memory of these requests, so the
history `fate` keeps what befell each one in the air: it was aborted, the object was opened again
(`"reopened"`), an `abort` of which it was not the aim cleared its callback (`"silenced"`), or the answer
to another was taken for its own (`"confused"`).  A property names those of them it exempts.

### WebSocket

`conn` is what libwebsockets knows of a connection, and its callbacks are the actions that
move it; which comes next is its choice, within the order its own documentation gives
them.  The helper thread takes one request or writes one fragment at a time.  `functions` is
again the scheduler's vector.  A socket's script object is rooted, loose (the collector may
take it) or finalized.  Addresses are not used again.  The synchronous `close` has
no caller and is left out.  `EarlyClose` tells whether the script may close a socket before the helper
has taken its request for a connection.  The code roots a script object twice, by the value its
delegate keeps (`jsb_websocket.cpp:305` and `318`) and by `root` (339), and `onError` (229) and `onClose`
(187) take one root each, so that the delegate's goes only with the delegate.  The model has one, and
lets the collector take the object when either has run: it allows more than the code does, and
does not show an object that is kept longer than needed.  Bounds: two sockets, one restart before
the first message is sent, one message received that was not delivered.

## 3. Runs

| Run | Shows | Distinct states |
|---|---|---|
| `MessageQueue` | counters and the refinement of `SPSCQueue`, in every interleaving; a blocking call comes back unless its signal hits the window before the consumer's wait | 268,000 |
| `MessageQueueLostWakeup` | it may not come back if it does: **violated** | |
| `MessageMemory` | links, reuse of chunks, the capacity of the pool, and that a queue, read through its links, implements `SPSCQueue` | 383,000 |
| `DeviceAgent` | distance, staging, and completeness of frames; `present` comes back | 422,000 |
| `Scheduler` | lifetimes of timers, the walk over a target's timers, empty entries, repetitions, with every call from every callback; `update` comes back | 394,000 |
| `SchedulerSkips` | "it will be called every frame": **violated** | |
| `CocosThreadQueue` | every function runs once and in order, or is removed; no call hangs | 106,000 |
| `LegacyThreadPool` | each task once, none stranded; every call comes back and every task runs | 439,000 |
| `HttpClient` | deletion by the last thread, answers once and in order, references of requests and responses; every request is answered and every destroyed client deleted | 270,000 |
| `XMLHttpRequest` | the answer, the timer, the roots and the outcome of each request, with objects used again at any time; each has its end | 1,051,000 |
| `WebSocket` | events in order, nothing left of a deleted socket, messages in order; who closes hears `onClose` | 1,022,000 |
| `WebSocketEarlyClose` | "Closes the connection to server asynchronously.": **violated** | |

Why the bounds are enough.  In `MessageQueue`, five unread messages leave room for
a chunk switch behind a message that is being waited for, and a modulus of eight
makes the counters wrap several times within a run.  In `DeviceAgent`, four frames
turn the index of two staging buffers twice, with two command buffers
flushed together or apart.  In `MessageMemory`, the second queue forces chunks to
travel between queues, a pool of capacity one with four chunks is empty, full and
passed by, and with three slots per chunk every chunk has a message or data, another, and the switch.
In `Scheduler`, two targets have each other to remove, two timers put one before or
behind the timer that is removed or being updated, a timer that repeats for ever at
interval 0 and one that ends after a delay and an interval meet both ends of
`Timer::update`, and a step of two covers several intervals.  In
`CocosThreadQueue`, two functions of each thread, one removal and the main
thread as a third caller meet every step of `update`.  In `LegacyThreadPool`, one to two
threads with steps of two make a stretch and a shrink, from within a push or by itself, hit their
limits, and three tasks of two types have one running, one waiting and one put back.  In `HttpClient`, two clients are one that is
destroyed and one that follows while the first still has threads, two queued requests have
one working and one waiting, and the immediate one overtakes.  In
`XMLHttpRequest`, three requests are one that is under way, one sent by a handler of its
end, and one by a handler of that, or one that timed out and two that were aborted, with all three in
the air.  In `WebSocket`, two sockets share the helper, its queue
and its end, two messages of two fragments interleave with each other and with the closes.

Fairness.  The consumer, and the producer once it is inside a call, are weakly
fair: the operating system runs every thread that can run.  Nothing obliges the
producer to call anything, and no spurious wakeup ever has to happen.  In
`DeviceAgent` the device thread is weakly fair, which stands on the liveness of its
queue (`KickServed`): the exception to it, the lost wakeup, would also stop the
device thread.  `KickServed` excludes exactly the state in which the wakeup is
lost, and `BlockedUntilFinished` shows that the exclusion is needed.  In `Scheduler`
the steps of `update` are weakly fair, the return of a callback among them; no
callback has to make any call.  In `CocosThreadQueue` the threads inside a call
and the main thread are weakly fair, and `update` is called every frame
(`Engine::tick`); the calls are finitely many, so that the mutex is not
withheld from one thread by the others for ever.  In `LegacyThreadPool` the fairness is
strong: a thread that waits for `_mutex` can take it again and again, but not always, and
gets it in the end although others take it too.  In `HttpClient` the threads run, and the main thread
ticks; nobody has to send or to restart.  In `XMLHttpRequest` handlers return, and
curl answers each request in the end.  In `WebSocket` the main thread ticks, and the helper
serves each socket: libwebsockets ends every handshake, and calls back for a connection that
may be written to; peers do not have to close, nor the script, the collector or the engine to
do anything.

## 4. Findings

Three runs end in a violation:

1. **Lost wakeup** (`MessageQueue.cpp:239`, run `MessageQueueLostWakeup`).  `_event.wait()`
   has no predicate, and the pull that precedes it is made without the mutex.  A kick in
   between is lost.
2. **The target after a removed one is skipped** (`Scheduler.cpp:371`, run
   `SchedulerSkips`).  When the callbacks of a target remove its last timer, `update` advances its
   iterator twice.  The audio engine and the curl downloader unschedule their only timer
   from its callback.
3. **A close that is forgotten** (`WebSocket-libwebsockets.cpp:950`, run
   `WebSocketEarlyClose`).  A socket closed before the helper thread has taken its request for
   a connection is set to connecting again; it opens and stays open, and another
   close returns at once.

Not among the runs, but found by TLC in the same way (in brackets, the definition that fails
and the constants that differ from the run's):

* **The device thread is not joined** (`DeviceAgent.cpp:193` "Device thread joined.",
  `MessageQueue.cpp:257`; `DeviceThreadJoined`, `JoinBeforeRestart = FALSE`).  The blocking
  call returns from inside the thread's last message.  The thread's last writes race with
  immediate mode and with the deletion of the queue in `doDestroy`.  While it has not reset
  `flushingFinished`, a chunk switch in immediate mode takes the queue for empty and puts the main
  thread to sleep.
* **Quick restart** (`MessageQueue.cpp:122` and `133`; `TwoMessagesToExecute`,
  `JoinBeforeRestart = FALSE`, 27 states).  A thread that has been told to end but still counts as
  attached keeps `runConsumerThread` from starting a new one; when the flag goes down,
  `terminateConsumerThread` does not wait.  The queue enters immediate mode with messages pending, and
  the next chunk switch meets more than the two that it asserts (196).
* **Chunks freed during a parallel flush** (`MessageQueue.cpp:271` and `245`;
  `NextMessageExists`, `ParallelFlush = TRUE`).  The reader needs the link of a switch message whose
  chunk it has already recycled.  With one reading thread the chunk is freed only by a
  later message of the same thread, after the link was followed (`LastReadStillAllocated`);
  with several it is not.
* **Twice in a frame** (`Scheduler.cpp:84`, whose comment says "should trigger once every frame";
  `OncePerFrame`, one target, key and timer, `DelayedSettings`, deltas of 1, no calls from callbacks, 11
  states).  A timer of interval 0 with a delay is triggered by the delay and again by the interval in
  the same update.
* **Cancelled by key** (`Scheduler.cpp:123`; `CancelsItself`, one target and key, two timers,
  `OnceSettings`, deltas of 1, `Schedule` and `Unschedule` from callbacks, 14 states).  The last callback
  of a timer unschedules it and schedules a new one with its key; the end of the old timer removes
  the new one.
* **Triggered after it was unscheduled** (`Scheduler.cpp:99`; `UnscheduledNotTriggered`, one target, two
  keys and timers, `RegularSettings`, deltas of 2, `Unschedule` from callbacks, 14 states).  A timer that
  unschedules itself while its target has others is triggered again if the frame spans
  several of its intervals.
* **Paused in the middle** (`Scheduler.cpp:347`; `PausedNotTicked`).  A target paused by one
  of its callbacks has its other timers triggered in this update.
* **Removed, but copied** (`Scheduler.cpp:390`; `RemovalComplete`).  A removal of all functions
  does not reach those that `update` has copied.
* **Put back in silence** (`ThreadPool.cpp`, `stopTasksByType`; `PutBackRun`).  Tasks put
  back into the queue wait for the next push if all threads sleep.  The call has no
  caller in the repository.
* **Deleted before it was counted** (`HttpClient.cpp:529`; `ThreadsHaveClient`,
  `CountedInTime = FALSE`).  A thread counts itself in when it first runs; a client that is
  destroyed before that is deleted under it.
* **Responses that stay** (`HttpClient.cpp:126`; `ResponsesDestroyed`, one client and one queued
  request).  A response that waits when its client comes to its end has the queue's reference and its
  maker's.  `clear` (`Vector.h:396`) drops the first, so that the destructor, which "will be called in
  HttpClient internal" (`HttpResponse.h:64`) and lets go of the request, never runs.  `RefsExact` counts
  what stays.
* **Left in the queue** (`WebSocket-libwebsockets.cpp`; `NothingLeftBehind`).  What a deleted
  socket left unsent stays in the helper's queue, with its pointer, until the helper ends;
  it is not followed (`DeletedSilent`).
* **The aborted request's answer** (`jsb_xmlhttprequest.cpp:491`; `AbortedUntold`, two requests and one
  abort).  `abort` takes the callback away ("request is aborted, no more callback needed", 316), and
  the next `send` sets it again on the same `HttpRequest`, while the aborted request is in the air: its
  answer is told as that of the new one.

What the properties of `XMLHttpRequest` exempt are facts too.  After a timeout `open` is accepted and a
`send` then is lost, because `_isSending` is still set (`jsb_xmlhttprequest.cpp:472`); the late
answer of the request that timed out is told as `onload` after its `ontimeout` (`"reopened"` in
`OneOutcome`).  `abort` leaves the timer, whose `ontimeout` follows `onloadend` (the exception of
`TimerIsOwn`), and keeps the next request from having one of its own.  A request that a handler of
`abort` sends loses its callback when `abort` goes on (317; `"silenced"` in `SendEnds`).  And an `abort`
that finds no request under way fires `onloadend` all the same and unroots the object once too often: the
collector may then take it under a later request (`SendEnds`; `RootsExact` is about objects that were not
aborted).

The engine switches multithreading on once and never off, and flushes in parallel
only with a job system that is off by default: the quick restart, the thread that is not
joined (but for `doDestroy`) and the chunks freed during a parallel flush need callers or options
that the repository allows but does not use itself.

Met while reading, and outside the models: Socket.IO releases its request right after `send`
(`SocketIO.cpp:385`) while the network thread changes the same plain count; requests that a
destroyed client does not answer keep the client's reference (`RefsExact` says so); in the WebSocket,
`closeAsync(code)` uses the connection's instance also while there is none
(`WebSocket-libwebsockets.cpp:830`), the destructor assumes a helper (656), and a
`close` after `onClose` attaches the script object once more (`jsb_websocket.cpp:434`); a
restart may drop an `onClose` that was posted, which is the exception (`lost`) in
`CloseAnswered`.

## 5. Proofs

The theorems hold for all values of the constants that the modules' assumptions allow:
natural numbers, `MaxUnread + 2 < CounterMod`, and names that are not those of something
else.  Three assumptions are about the callers and the options: `JoinBeforeRestart` in
`SwitchExecutesTwo` and `KeepsPromise`, `~ParallelFlush` in the theorems of `MessageMemory`,
and `CountedInTime` in those of `HttpClient`; section 4 says what happens without them.

`MessageQueue_proofs` proves `TypeOK` and `CountsExact`, with or without
`JoinBeforeRestart`.  `CountsExact` is not inductive alone: the difference of
two counters modulo `CounterMod` says nothing without a bound.  The invariant
`CountInv` adds `Len(unread) <= MaxUnread`; the lemma `MinusPlus` is the
arithmetic of the wrap, `AllocateCounts` and `PullCounts` are the two things that
happen to the counters, and there is one step per action.  `SwitchExecutesTwo`
(`TwoMessagesToExecute`) rests on `ModeInv`: the terminate message is the last of the
queue, and only its execution lets the producer into immediate mode, so that it finds the
queue empty.

It also proves that the two threads implement `SPSCQueue`
(`KeepsPromise`).  `MappingInv` says that a producer that waits has published all it wrote,
and that its semaphore is up only when nothing is left to execute.  `MapsInit` maps the initial
states, and there is one lemma per kind of step: writing, publishing, blocking, unblocking, taking,
executing, and what the abstract queue does not see.

`MessageMemory_proofs` proves, for any number of queues and chunks and any size of a chunk, of
the pool and of the queues, `TypeOK`, `LastReadStillAllocated`, `NextMessageExists` (the assertion
of `readMessage`), `ChunkInOnePlace`, `PoolWithinCapacity` and that every queue implements `SPSCQueue`
(`QueuesDeliver`).  `Walk` is a recursion over the links, and what it computes cannot be proved by
induction.  It need not be: two paths that start at the same address and follow the same links
are equal, since there is no least place where they differ (`Least`, `SamePath`), so that
whatever sequence of addresses follows the links is `Walk`'s (`PathUnique`), and each step has
only to show one.  The invariant `IInv` consists of

* `AllGood`: for each queue, the path from the last message read over the unread ones goes forward
  within a chunk, changes it at switch messages and there only, never comes back to a chunk it has
  left (`Chain`), and ends at the writer's last message, behind which the writer goes on
  (`WriterAt`);
* `Placed`: the chunks on the paths of two queues are disjoint, and none of them is in the pool,
  given back or not allocated; a chunk waits to be freed only if it is the one that its
  reader has still to leave;
* `Turns`: the device thread is busy with a queue while it executes a message of it and until
  it has left the chunk of a switch message.  This is where `~ParallelFlush` is needed: the free
  message is executed by the same thread, and so after the link was followed.

`PoolWithinCapacity` is inductive with one more fact, `PoolFits`: there is room in the pool as long as a
thread that has tested it is still to put its chunk there.  That holds because `IInv` lets one
reader be inside the allocator at a time (`OneCounter`), and the main thread only takes chunks; so the
count may be late in both directions, but what was read from it is never too small.

`MessagePlaced`, `DataPlaced` and `SwitchPlaced` say what an allocation does to a path,
`SameKept` that a step on one queue leaves the others' paths alone, `TakeFree` and `Pool` move a
chunk from one place to another, and `Effect` is what each step means to each queue: it is
longer, published, read by one message, or as it was.  The refinement follows from `Effect`
alone (`EffectDelivers`, with the facts about the two parts of a list: `PartLonger`, `PartsJoin`,
`PartsShift`).

`DeviceAgent_proofs` proves, for every `MAX_CPU_FRAME_AHEAD`, all sets of buffers
and command buffers and all bounds:

* `TypeOK`; `NextIndex` is the arithmetic of the modulo in `present`;
* `FramesAhead`, from the invariant `SemaphoreExact`: the semaphore's count, the
  frames begun and the frames presented add up;
* `StagingIntact`, from `StagingInv`.  The main queue is ordered by frame, present
  messages separate the frames, and nothing in it is older than what was presented
  (`QueueInOrder`).  The slot of an update and the current index are as far apart
  around the circle as their frames (`SlotOfFrame`).  Since no message is more than
  `MAX_CPU_FRAME_AHEAD` frames old while the main thread records (`Distance`), a slot
  that is being overwritten belongs to an update of the same frame
  (`SameSlotSameFrame`);
* `RecordedStagingIntact` and `PresentedComplete`, from `CommandInv`.  The finish messages
  of a command buffer that are still to be reached are matched, in order, with the flushes in
  the main queue, and have their frames (`Matched`); what was recorded in a frame
  that has ended is followed by a finish message (`Ended`).  So when a present message is executed, the
  flushes before it have executed all commands of its frame (`PresentLeavesNothing`), and a
  command is never older than the slot it reads allows (`SlotTurns`).

`Scheduler_proofs` proves, for all sets of targets, keys, timers, settings and
deltas and any `Reentrant`: `TypeOK`, `RefsExact`, `KeysUnique`, `NoEmptyEntry`, `WalkExact`
and `RepeatsBounded`.  (`KeysUnique` is there for the others; no run checks it.)  None is
inductive alone, and each needs another: a timer taken from the free ones is in no list because of `RefsExact`, so the lists stay disjoint (`ListInv`); a
target with timers has an entry because of `NoEmptyEntry`, so `RemoveTimer` finds the
entry to remove, and the iterator stays at an entry because the one removed is another
or is behind it (`HashInv`, `SuccessorFacts`); the timer being updated is alive, so
what is written when its callback returns is its own, and `elapsed` has what is taken
from it (`TimerInv`).  `IInv` is their conjunction with `WalkInv`, which says what
each `pc` means.  `RemoveAtFacts`, `InsertAtFacts`, `RemoveEntry` and `InsertEntry` are the
facts about sequences; there is one lemma per action.  `WalkExact` rests on `TickedInv` (what
was ticked is alive, and in a list that the iterator has passed, `Follows`, or before the
index in the current one), and `RepeatsBounded` on `RepeatInv` (a timer that has had all its
repetitions is the current one and about to be cancelled, or out of its list).

Of `CocosThreadQueue` it proves `PerformTypeOK` and `HandedOverOnce`: what has run, what was
copied and what waits are, one after the other, a sequence in the order of each thread.

`LegacyThreadPool_proofs` proves `TypeOK`, `RunOnce`, `NotStranded` and `StopRunsAll`.
`NumberInv` counts the threads and the idle ones; `ThreadsInv` says what each place of a
thread means (one that leaves was told to, one that sleeps has no task); `OwnerInv`
says the same of the owner's calls, in particular whom it joins; `PlaceInv` has each task in one place; and
`ServedInv`, of which `NotStranded` is the visible part, says who will look at the queue next: also
while a shrink joins, since the threads it has woken up do not go to sleep again before the queue is
empty.

`HttpClient_proofs` proves `DeletedByTheLast` and `FunctionsHaveClient`: the count is the
number of the threads inside and the owner, a thread that is inside has a client, and a
function that was posted belongs to the instance unless the engine is about to remove it.
On top of this invariant (`IInv`) another (`JInv`) gives `InOrderOnce`, `RefsExact` and `TypeOK`.
`RequestCount` and `ResponseCount` say of each count whose references it counts.
`PlaceInv` has each request of a client in one place at most, its queue, the network thread, the
responses or what was answered; `WorkInv` says that the network thread has a request exactly
while it processes one or pushes its response; `AloneInv` that the function of a
request of `sendImmediate` is posted after its thread has the response, and run once;
`AnsweredInv` that answers are recorded under the thread that posted; `EndingInv` that a
network thread that clears the queues is not the instance's; `HeldInv` that a request which
waits for its answer still has its sender's reference.
`RefsExact` is not inductive without them: a reference is dropped by whoever takes the request out
of a place, and that place must be the only one.

`XMLHttpRequest_proofs` proves `AnswerIsCurrent`, `TimerIsOwn`, `RootsExact` and `OneOutcome`.
The invariant counts what is left to do of the functions that are running, which the handlers
nest at will; it does not restrict when the object is opened, used or aborted.  `CurrentInv`: what is
in the air is the last request or has gone astray, and when nothing is being sent all of it has;
`TimerInv`: a timer that abort did not leave is that of the last request, whose answer will take it
away; `QuietInv`: before the first abort, whatever is in the air is waited for with a callback;
`RootInv`: a root is added before anything else is done; `ToldOnce`: a
request whose outcome was told, or is about to be, has no timer but one that is being cancelled,
and its answer, if it is still to come, will not be told (`Quieted`) unless the object is opened
first.  `DoCounts`, `ConcatCounts` and `HeadCounts` are the facts about the stack; `ContinueInv` is
what the actions that go on have in common.

`WebSocket_proofs` proves `TypeOK`, `EventsInOrder`, `DeletedSilent` and `SentInOrder`, for any
number of sockets, messages and fragments, with and without `EarlyClose`.  `IInv` has two parts
for each socket besides `EventsInOrder` itself:

* `Life`: the references are the finalizer's, or the pool's in its place, and that of `onClose`,
  and a socket is among the instances as long as one is left;
* `Trace`: the events a script heard or has posted to it (`Heard`) tell how far its connection
  is, and the request to connect is in the helper's queue once at most, before there is a connection.

`DeletedSilent` follows: a socket without references has had its `onClose`, which nothing may
follow (`MayFollow`), and its connection is gone or about to be destroyed after a failure.
`EventsInOrder` is not inductive without `Trace`, which says that no event comes after `close`
because the connection that would cause it has gone.  `HelperStep` and `TraceKept` are what
the callbacks of libwebsockets have in common.

`SentInOrder` rests on another invariant, `MInv`: messages are numbered as they are sent
(`Numbered`) and wait in that order (`Increasing`), and while a connection is up there is a number
`d` such that the first `d` messages of its socket are on the wire as a whole, the next is
being written, and exactly those from it on wait in the queue (`Going`).  So the message
the helper finds first is the one whose fragments are due.  `DividedOnce`, `PieceAt` and
`BeginsPrefix` are the arithmetic of the fragments, `RemovedOnce`, `RemovedIncreasing` and
`PostOrdered` the facts about the queue.

Every invariant and refinement a passing run checks is proved.  Model-checked only is all liveness, with
the fairness and `ENABLED` it rests on, which TLAPS cannot do; and the runs that are expected
to find a violation refute theirs on one instance, which is enough.

## 6. Not modelled

Of the modelled parts:

* message queues: their destruction (`MessageQueue.h:99`, and the use of the queue by its
  thread afterwards), sizes and alignment in bytes, and reads of plain (non-atomic)
  flags that another thread writes at the same time: `_workerAttached`, `flushingFinished` and
  `terminateConsumerThread` are read and written as if sequentially consistent;
* GFX agent: a second update of a buffer in a frame and its resizing and destruction
  (`BufferAgent.cpp:166` and `94`), query pools (`DeviceAgent.cpp:377`), the mode switch of
  command buffers' queues that hold commands (`DeviceAgent.cpp:190`), and what backends do
  inside a message;
* network: what curl and libwebsockets do beyond the order of their callbacks, cookies and headers,
  received fragments, the synchronous `close`, the downloader, Socket.IO, the server
  and the assets manager.

Parts left out because the repository does not use what would be interesting in them: the
pool of `base/threading/ThreadPool` has no user (its `stop` joins workers that still wait for an
event, `threading/ThreadPool.cpp:45`); the dummy job graph is only built of single jobs or one loop;
the compare-and-swap loop of the linear allocator is used by one thread.  The frame
graph could be modelled (section 7).  The rest, backends, bindings, platform, storage, audio and physics, are
wrappers of other programs, generated code or numerical code; they are most of the
repository's lines.

## 7. Plan

1. `DeviceAgent` extended by resizing, destroying and query pools, and composed with
   `MessageQueue` through the two directions of `setMultithreaded`.
2. `FrameGraph`: culling and lifetimes against reference definitions over all small graphs.
3. `JobGraph`: the dummy job graph, every job once and after its predecessors, against a
   reference definition of a topological order, should graphs of more than one job appear.
4. The downloader and the audio engine, whose threads meet the scheduler.

Proofs to follow: those of the modules above, with their abstract specifications.
