------------------------------- MODULE WebSocket -------------------------------
(***************************************************************************)
(* network/WebSocket-libwebsockets and its only script user,               *)
(* bindings/manual/jsb_websocket: sockets of the main thread whose         *)
(* connections live in one helper thread (WsThreadHelper), which exists as *)
(* long as a socket does.  The main thread gives the helper a queue of     *)
(* connection requests and of messages to send, and the two share          *)
(* _readyState; the helper posts functions to the scheduler.               *)
(*                                                                         *)
(* A step is what a thread does while it holds a mutex.  libwebsockets is  *)
(* external: conn is what it knows of a connection.  close(), which waits  *)
(* for the helper, has no caller and is left out.  A socket's address is   *)
(* never that of another socket.                                           *)
(***************************************************************************)
EXTENDS Integers, Sequences, SequencesExt, FiniteSets

CONSTANTS
  NumSockets,   \* bound: the WebSocket objects, numbered as they are made
  NumMessages,  \* bound: the messages, numbered as they are sent
  Fragments,    \* the fragments (WS_RX_BUFFER_SIZE) a message has
  EarlyClose    \* FALSE: a socket is not closed before the helper thread has
                \* taken its request for a connection

ASSUME WebSocketAssumption ==
  /\ NumSockets \in Nat /\ NumMessages \in Nat
  /\ Fragments \in Nat \ {0}
  /\ EarlyClose \in BOOLEAN

Sockets == 1..NumSockets
Messages == 1..NumMessages
None == 0

VARIABLES
  instances,   \* websocketInstances
  deleted,     \* the sockets with _isDestroyed
  refs,        \* _referenceCount
  pooled,      \* the sockets in the frame's autorelease pool
  js,          \* the script's object: "none", "rooted", "loose", "finalized"
  attached,    \* the sockets attached to the global object
  readyState,  \* _readyState
  closeState,  \* _closeState
  conn,        \* the connection: "none", "handshake", "up", "broken" (a write
               \* failed), "failing", "ending" (to be destroyed), "gone"
  helper,      \* wsHelper and its thread: "none", "running", "quitting", "ended"
  queue,       \* _subThreadWsMessageQueue
  issued,      \* fragments of each message already sent (data->issued)
  failing,     \* the socket between onConnectionError and onConnectionClosed
  functions,   \* Scheduler::_functionsToPerform, as <<method, socket>>
  main,        \* where the main thread is
  thiz,        \* the socket it is working on
  restart,     \* restartVM: "not yet", "running" or "done"; bound: one restart
  events,      \* history: the methods of the delegate called for each socket
  sent,        \* history: the messages given to send
  wire,        \* history: the fragments sent over each connection
  lost         \* history: the sockets whose onClose the restart removed

objects == <<instances, deleted, refs, pooled, js, attached>>
states == <<readyState, closeState>>
thread == <<conn, helper, queue, issued, failing>>
mainThread == <<main, thiz, restart>>
history == <<events, sent, wire, lost>>
vars == <<objects, states, thread, functions, mainThread, history>>

Init ==
  /\ instances = {} /\ deleted = {}
  /\ refs = [s \in Sockets |-> 0] /\ pooled = {}
  /\ js = [s \in Sockets |-> "none"]
  /\ attached = {}
  /\ readyState = [s \in Sockets |-> "connecting"]
  /\ closeState = [s \in Sockets |-> "none"]
  /\ conn = [s \in Sockets |-> "none"]
  /\ helper = "none"
  /\ queue = <<>>
  /\ issued = [m \in Messages |-> 0]
  /\ failing = None
  /\ functions = <<>>
  /\ main = "idle" /\ thiz = None /\ restart = "not yet"
  /\ events = [s \in Sockets |-> <<>>]
  /\ sent = [s \in Sockets |-> <<>>]
  /\ wire = [s \in Sockets |-> <<>>]
  /\ lost = {}

Request(s) == [what |-> "create", user |-> s]
Message(s, m) == [what |-> "send", user |-> s, data |-> m]

Become(f, s, v) == f' = [f EXCEPT ![s] = v]

(* sendMessageToCocosThread.                                               *)
Post(method, s) == functions' = Append(functions, <<method, s>>)

------------------------------------------------------------------------------
(* The script, in the main thread.                                         *)

Free == main = "idle" /\ restart # "running"
Usable(s) == js[s] \in {"rooted", "loose"}
MayClose(s) == EarlyClose \/ Request(s) \notin Range(queue)

(* webSocketConstructor and init: one reference for the finalizer, one for *)
(* onClose.                                                                *)
Construct(s) ==
  /\ Free /\ js[s] = "none" /\ \A t \in 1..(s - 1) : js[t] # "none"
  /\ instances' = instances \cup {s}
  /\ Become(refs, s, 2)
  /\ Become(js, s, "rooted")
  /\ queue' = Append(queue, Request(s))
  /\ helper' = IF helper = "none" THEN "running" ELSE helper
  /\ UNCHANGED <<deleted, pooled, attached, states, conn, issued, failing, functions,
                 mainThread, history>>

Send(s, m) ==
  /\ Free /\ Usable(s) /\ readyState[s] = "open"
  /\ 1..(m - 1) = UNION {Range(sent[t]) : t \in Sockets}
  /\ queue' = Append(queue, Message(s, m))
  /\ Become(sent, s, Append(sent[s], m))
  /\ UNCHANGED <<objects, states, conn, helper, issued, failing, functions,
                 mainThread, events, wire, lost>>

(* webSocketClose: closeAsync sets _closeState first, then, if it was the  *)
(* first, _readyState.                                                     *)
CloseAsync(s) ==
  /\ Free /\ Usable(s) /\ MayClose(s)
  /\ attached' = attached \cup {s}
  /\ IF closeState[s] = "none"
     THEN Become(closeState, s, "async") /\ main' = "closing" /\ thiz' = s
     ELSE UNCHANGED <<closeState, main, thiz>>
  /\ UNCHANGED <<instances, deleted, refs, pooled, js, readyState, thread,
                 functions, restart, history>>

Closing(s) == IF readyState[s] = "closed" THEN "closed" ELSE "closing"

MarkClosing ==
  /\ main \in {"closing", "closing to finalize"}
  /\ Become(readyState, thiz, Closing(thiz))
  /\ IF main = "closing" THEN main' = "idle" /\ thiz' = None
                         ELSE main' = "release" /\ UNCHANGED thiz
  /\ UNCHANGED <<objects, closeState, thread, functions, restart, history>>

------------------------------------------------------------------------------
(* Release and destruction of a socket, in the main thread.                *)

(* The destructor, once no callback holds instanceMutex: the last one      *)
(* joins the thread, before it sets _isDestroyed.                          *)
Destroy(s) ==
  /\ failing # None => conn[failing] # "failing"
  /\ instances' = instances \ {s}
  /\ IF instances' = {}
     THEN /\ helper' = "quitting"
          /\ main' = "join" /\ thiz' = s /\ UNCHANGED deleted
     ELSE /\ deleted' = deleted \cup {s}
          /\ main' = "idle" /\ thiz' = None /\ UNCHANGED helper

Release(s) ==
  /\ Become(refs, s, refs[s] - 1)
  /\ IF refs[s] = 1 THEN Destroy(s)
     ELSE main' = "idle" /\ thiz' = None /\ UNCHANGED <<instances, deleted, helper>>

Join ==
  /\ main = "join" /\ helper = "ended"
  /\ helper' = "none"
  /\ queue' = <<>>
  /\ deleted' = deleted \cup {thiz}
  /\ main' = "idle" /\ thiz' = None
  /\ UNCHANGED <<instances, refs, pooled, js, attached, states, conn, issued,
                 failing, functions, restart, history>>

(* webSocketFinalize, by the collector or when the script engine goes.     *)
Finalize(s) ==
  /\ main = "idle" /\ Usable(s)
  /\ restart = "running" \/ (js[s] = "loose" /\ s \notin attached)
  /\ thiz' = s
  /\ IF readyState[s] # "closed" /\ closeState[s] = "none"
     THEN Become(closeState, s, "async") /\ main' = "closing to finalize"
     ELSE main' = "release" /\ UNCHANGED closeState
  /\ UNCHANGED <<objects, readyState, thread, functions, restart, history>>

(* Wrong: the finalizer releases the reference of onClose as well.         *)
FinalizeReleaseTwice ==
  /\ main = "release"
  /\ Become(js, thiz, "finalized")
  /\ Become(refs, thiz, 0)
  /\ Destroy(thiz)
  /\ UNCHANGED <<pooled, attached, states, conn, queue, issued, failing, functions, restart,
                 history>>

(* The last reference goes with the frame.                                 *)
FinalizeRelease ==
  /\ main = "release"
  /\ Become(js, thiz, "finalized")
  /\ IF refs[thiz] = 1
     THEN /\ pooled' = pooled \cup {thiz}
          /\ main' = "idle" /\ thiz' = None
          /\ UNCHANGED <<instances, deleted, refs, helper>>
     ELSE Release(thiz) /\ UNCHANGED pooled
  /\ UNCHANGED <<attached, states, conn, queue, issued, failing, functions, restart,
                 history>>

(* LegacyAutoreleasePool::clear, at the end of a tick.                     *)
ClearPool(s) ==
  /\ Free /\ s \in pooled
  /\ pooled' = pooled \ {s}
  /\ Release(s)
  /\ UNCHANGED <<js, attached, states, conn, queue, issued, failing, functions,
                 restart, history>>

(* Engine::restartVM removes the functions, then finalizes every object.   *)
(* Bound: once, and before the first message is sent.                      *)
RestartVM ==
  /\ Free /\ restart = "not yet" /\ \A s \in Sockets : sent[s] = <<>>
  /\ EarlyClose \/ \A s \in Sockets : Request(s) \notin Range(queue)
  /\ restart' = "running"
  /\ lost' = {s \in Sockets : <<"close", s>> \in Range(functions)}
  /\ functions' = <<>>
  /\ UNCHANGED <<objects, states, thread, main, thiz, events, sent, wire>>

EndRestart ==
  /\ main = "idle" /\ restart = "running" /\ \A s \in Sockets : ~Usable(s)
  /\ restart' = "done"
  /\ UNCHANGED <<objects, states, thread, functions, main, thiz, history>>

(* Scheduler::update runs a function, unless its socket was destroyed: the *)
(* delegate's onOpen, onMessage, onError or onClose.                       *)
RunFunction ==
  LET method == Head(functions)[1]
      s == Head(functions)[2]
  IN  /\ Free /\ functions # <<>>
      /\ functions' = Tail(functions)
      /\ IF s \in deleted
         THEN UNCHANGED <<instances, deleted, refs, js, attached, helper, main, thiz,
                          events>>
         ELSE /\ Become(events, s, Append(events[s], method))
              /\ js' = IF method \in {"error", "close"} /\ Usable(s)
                       THEN [js EXCEPT ![s] = "loose"] ELSE js
              /\ IF method = "close"
                 THEN attached' = attached \ {s} /\ Release(s)
                 ELSE UNCHANGED <<attached, refs, instances, deleted, helper, main, thiz>>
      /\ UNCHANGED <<pooled, states, conn, queue, issued, failing, restart, sent,
                     wire, lost>>

------------------------------------------------------------------------------
(* The helper thread: the connection requests, and libwebsockets, which    *)
(* calls back for the sockets it still finds in instances.                 *)

Running == helper = "running" /\ failing = None

OnConnectionError(s) ==
  /\ Become(readyState, s, "closing")
  /\ Post("error", s)
  /\ failing' = s

(* Wrong: the state stays, and the next call posts another onClose.        *)
OnConnectionClosedAgain(s) ==
  IF s \in instances /\ readyState[s] # "closed"
  THEN Become(readyState, s, "closing") /\ Post("close", s)
  ELSE UNCHANGED <<readyState, functions>>

OnConnectionClosed(s) ==
  IF s \in instances /\ readyState[s] # "closed"
  THEN Become(readyState, s, "closed") /\ Post("close", s)
  ELSE UNCHANGED <<readyState, functions>>

(* onClientOpenConnectionRequest: whatever the state was, it is CONNECTING *)
(* now.  libwebsockets may fail at once.                                   *)
OpenConnection(s) ==
  /\ Running
  /\ \E i \in DOMAIN queue : queue[i] = Request(s) /\ queue' = RemoveAt(queue, i)
  /\ \/ /\ Become(readyState, s, "connecting")
        /\ Become(conn, s, "handshake")
        /\ UNCHANGED <<functions, failing>>
     \/ OnConnectionError(s) /\ Become(conn, s, "gone")
  /\ UNCHANGED <<objects, closeState, helper, issued, mainThread, history>>

ConnectionOpened(s) ==
  /\ Running /\ conn[s] = "handshake"
  /\ Become(conn, s, "up")
  /\ IF s \in instances /\ readyState[s] \notin {"closing", "closed"}
     THEN Become(readyState, s, "open") /\ Post("open", s)
     ELSE UNCHANGED <<readyState, functions>>
  /\ UNCHANGED <<objects, closeState, helper, queue, issued, failing, mainThread,
                 history>>

ConnectionError(s) ==
  /\ Running /\ conn[s] = "handshake"
  /\ Become(conn, s, "failing")
  /\ IF s \in instances /\ readyState[s] # "closed" THEN OnConnectionError(s)
     ELSE UNCHANGED <<readyState, functions, failing>>
  /\ UNCHANGED <<objects, closeState, helper, queue, issued, mainThread, history>>

ConnectionClosed ==
  /\ failing # None
  /\ OnConnectionClosed(failing)
  /\ failing' = None
  /\ UNCHANGED <<objects, closeState, conn, helper, queue, issued, mainThread,
                 history>>

(* Wrong: the socket's last message goes.                                  *)
FirstIsLast(s) == SelectLastInSeq(queue, LAMBDA r : r.user = s)

(* The message onClientWritable takes: the first of this socket.           *)
First(s) == SelectInSeq(queue, LAMBDA r : r.user = s)

(* One of its fragments goes; or the write fails, and the connection with  *)
(* it.                                                                     *)
WriteFragment(s) ==
  LET m == queue[First(s)].data
  IN  /\ First(s) # 0 /\ conn[s] = "up"
      /\ Become(issued, m, issued[m] + 1)
      /\ queue' = IF issued'[m] = Fragments THEN RemoveAt(queue, First(s)) ELSE queue
      /\ Become(wire, s, Append(wire[s], <<m, issued'[m]>>))
      /\ UNCHANGED <<states, conn>>

WriteFails(s) ==
  /\ First(s) # 0
  /\ queue' = RemoveAt(queue, First(s))
  /\ Become(conn, s, "broken")
  /\ Become(closeState, s, "async")
  /\ readyState' = IF closeState[s] = "none"
                   THEN [readyState EXCEPT ![s] = Closing(s)] ELSE readyState
  /\ UNCHANGED <<issued, wire>>

(* Wrong: the state is not looked at.                                      *)
ClientWritableAnyway(s) ==
  /\ Running /\ conn[s] \in {"up", "broken"} /\ s \in instances
  /\ WriteFragment(s) \/ WriteFails(s)
  /\ UNCHANGED <<objects, helper, failing, functions, mainThread, events, sent, lost>>

(* onClientWritable; libwebsockets calls it again and again.               *)
ClientWritable(s) ==
  /\ Running /\ conn[s] \in {"up", "broken"} /\ s \in instances
  /\ IF readyState[s] = "closing"
     THEN Become(conn, s, "ending") /\ UNCHANGED <<states, queue, issued, wire>>
     ELSE WriteFragment(s) \/ WriteFails(s)
  /\ UNCHANGED <<objects, helper, failing, functions, mainThread, events, sent, lost>>

(* Bound: at any time one message from the other ends, of all sockets.     *)
ClientReceivedData(s) ==
  /\ Running /\ conn[s] = "up" /\ s \in instances
  /\ \A t \in Sockets : /\ "message" \notin Range(events[t])
                          /\ <<"message", t>> \notin Range(functions)
  /\ Post("message", s)
  /\ UNCHANGED <<objects, states, thread, mainThread, history>>

PeerCloses(s) ==
  /\ Running /\ conn[s] \in {"up", "broken"}
  /\ Become(conn, s, "ending")
  /\ UNCHANGED <<objects, states, helper, queue, issued, failing, functions,
                 mainThread, history>>

WsiDestroy(s) ==
  /\ Running /\ conn[s] \in {"failing", "ending"}
  /\ Become(conn, s, "gone")
  /\ OnConnectionClosed(s)
  /\ UNCHANGED <<objects, closeState, helper, queue, issued, failing, mainThread,
                 history>>

SubThreadEnded ==
  /\ helper = "quitting" /\ failing = None
  /\ helper' = "ended"
  /\ conn' = [s \in Sockets |-> IF conn[s] = "none" THEN "none" ELSE "gone"]
  /\ UNCHANGED <<objects, states, queue, issued, failing, functions, mainThread,
                 history>>

------------------------------------------------------------------------------
HelperThread(s) ==
  \/ OpenConnection(s)
  \/ ConnectionOpened(s) \/ ConnectionError(s)
  \/ ClientWritable(s)
  \/ WsiDestroy(s)

MainThread ==
  \/ MarkClosing
  \/ Join
  \/ FinalizeRelease
  \/ \E s \in Sockets : ClearPool(s)
  \/ RunFunction
  \/ EndRestart
  \/ restart = "running" /\ \E s \in Sockets : Finalize(s)

Next ==
  \/ \E s \in Sockets :
       \/ Construct(s) \/ CloseAsync(s) \/ Finalize(s)
       \/ \E m \in Messages : Send(s, m)
       \/ HelperThread(s)
       \/ ClientReceivedData(s) \/ PeerCloses(s)
  \/ RestartVM
  \/ MainThread
  \/ ConnectionClosed
  \/ SubThreadEnded

(* The engine ticks, the thread runs, libwebsockets ends every handshake   *)
(* (it has a timeout) and serves what is writable.  Nobody has to close.   *)
Spec ==
  /\ Init /\ [][Next]_vars
  /\ WF_vars(MainThread)
  /\ \A s \in Sockets : WF_vars(HelperThread(s))
  /\ WF_vars(ConnectionClosed) /\ WF_vars(SubThreadEnded)

------------------------------------------------------------------------------
Methods == {"open", "message", "error", "close"}
Entries == {Request(s) : s \in Sockets} \cup {Message(s, m) : s \in Sockets, m \in Messages}

TypeOK ==
  /\ instances \subseteq Sockets /\ deleted \subseteq Sockets
  /\ refs \in [Sockets -> 0..2] /\ pooled \subseteq Sockets
  /\ js \in [Sockets -> {"none", "rooted", "loose", "finalized"}]
  /\ attached \subseteq Sockets
  /\ readyState \in [Sockets -> {"connecting", "open", "closing", "closed"}]
  /\ closeState \in [Sockets -> {"none", "async"}]
  /\ conn \in [Sockets -> {"none", "handshake", "up", "broken", "failing", "ending",
                           "gone"}]
  /\ helper \in {"none", "running", "quitting", "ended"}
  /\ queue \in Seq(Entries)
  /\ issued \in [Messages -> 0..Fragments]
  /\ failing \in Sockets \cup {None}
  /\ functions \in Seq(Methods \X Sockets)
  /\ main \in {"idle", "closing", "closing to finalize", "release", "join"}
  /\ thiz \in Sockets \cup {None}
  /\ restart \in {"not yet", "running", "done"}
  /\ events \in [Sockets -> Seq(Methods)]
  /\ sent \in [Sockets -> Seq(Messages)]
  /\ wire \in [Sockets -> Seq(Messages \X (1..Fragments))]
  /\ lost \subseteq Sockets

(* Whether the method f of the delegate may come after e.                  *)
MayFollow(e, f) ==
  /\ e # "close"
  /\ f \notin {"open", "error"}
  /\ e = "error" => f = "close"

(* The delegate is called in the order of a socket's life: onOpen before   *)
(* everything else, onClose last and once, and after onError nothing but   *)
(* onClose; whether the connection ends by the script, the peer or an      *)
(* error that is reported twice (the error, and the end of the wsi).  This *)
(* is so of the methods called and of those posted.                        *)
EventsInOrder ==
  \A s \in Sockets :
    LET posted == {i \in DOMAIN functions : functions[i][2] = s}
    IN  /\ \A i, j \in DOMAIN events[s] : i < j => MayFollow(events[s][i], events[s][j])
        /\ \A i, j \in posted : i < j => MayFollow(functions[i][1], functions[j][1])
        /\ \A i \in DOMAIN events[s], j \in posted :
             MayFollow(events[s][i], functions[j][1])

(* When a socket is deleted, nothing of it is left: no function that would *)
(* call its delegate, no connection that libwebsockets would still serve   *)
(* for it, and no request that would make the thread use its address.      *)
DeletedSilent ==
  \A s \in Sockets \ instances : js[s] # "none" =>
    /\ \A i \in DOMAIN functions : functions[i][2] # s
    /\ conn[s] \in {"failing", "gone"}
    /\ Request(s) \notin Range(queue)

Wire(q) == [i \in 1..(Fragments * Len(q)) |->
              <<q[1 + ((i - 1) \div Fragments)], 1 + ((i - 1) % Fragments)>>]

(* What goes over a connection is what was sent with its socket, message   *)
(* by message and fragment by fragment in the order of the calls, cut off  *)
(* where the connection ends; never a message that waits for another       *)
(* socket in the same queue, and never one after a write failed.           *)
SentInOrder == \A s \in Sockets : IsPrefix(wire[s], Wire(sent[s]))

(* A socket that the script or a failed write has closed, or whose object  *)
(* was finalized, hears onClose, from whatever state its connection was    *)
(* in; and if finalized it is deleted, its destructor back from the join.  *)
(* Unless the engine restarts after the function was posted and before it  *)
(* ran: then the socket stays.                                             *)
CloseAnswered ==
  \A s \in Sockets :
    closeState[s] # "none" \/ js[s] = "finalized" ~>
      \/ "close" \in Range(events[s]) /\ (js[s] = "finalized" => s \in deleted)
      \/ s \in lost

(* Not among the runs: what a socket leaves unsent goes from the queue     *)
(* with it.                                                                *)
NothingLeftBehind == \A i \in DOMAIN queue : queue[i].user \in instances
================================================================================
