---------------------------- MODULE XMLHttpRequest ----------------------------
(***************************************************************************)
(* bindings/manual/jsb_xmlhttprequest: an XMLHttpRequest of the script     *)
(* engine on top of HttpClient::sendImmediate and of a timer of the        *)
(* Scheduler.  It has one HttpRequest and one response callback, whatever  *)
(* the number of requests sent with it that are still in the air, and its  *)
(* script object is kept from the collector by counting roots.             *)
(*                                                                         *)
(* Everything runs on the main thread, but an event handler of the script  *)
(* may call open, send and abort in the middle of the function that fires  *)
(* it: todo is what is left to do of the functions that are running, the   *)
(* innermost first.                                                        *)
(***************************************************************************)
EXTENDS Integers, Sequences, SequencesExt, FiniteSets

CONSTANTS
  NumSends,    \* bound: the requests sent with the object, numbered from 1
  NumAborts    \* bound: the calls of abort

ASSUME XMLHttpRequestAssumption ==
  NumSends \in Nat \ {0} /\ NumAborts \in Nat

Sends == 1 .. NumSends

VARIABLES
  readyState,   \* _readyState
  isAborted, isLoadStart, isTimeout, isSending,
  callback,     \* the response callback of _httpRequest is set
  timer,        \* the request whose ontimeout is scheduled, or 0
  flying,       \* the requests sent whose answer was not dispatched yet
  todo,         \* what is left to do, see above
  memory,       \* "alive", "finalized" (in the autorelease pool), "deleted"
  referenced,   \* the script still has a reference to the object
  rootCount,    \* se::Object::_rootCount
  sends,        \* history: the number of requests sent
  aborts,       \* history: the number of calls of abort
  outcome,      \* history: how each request ended, as the script was told
  ended,        \* history: the requests that had their onloadend
  fate          \* history: what happened to each request in the air

flags == <<isAborted, isLoadStart, isTimeout, isSending>>
gc == <<memory, referenced>>
history == <<sends, aborts, outcome, ended, fate>>
vars == <<readyState, flags, callback, timer, flying, todo, gc, rootCount, history>>

Init ==
  /\ readyState = "UNSENT"
  /\ isAborted = FALSE /\ isLoadStart = FALSE
  /\ isTimeout = FALSE /\ isSending = FALSE
  /\ callback = FALSE /\ timer = 0 /\ flying = {}
  /\ todo = <<>>
  /\ memory = "alive" /\ referenced = TRUE /\ rootCount = 0
  /\ sends = 0 /\ aborts = 0
  /\ outcome = [n \in Sends |-> {}] /\ ended = {}
  /\ fate = [n \in Sends |-> {}]

Do(step, n) == <<[step |-> step, of |-> n]>>

(* setReadyState fires its event only on a change.                         *)
SetReadyState(state, n) ==
  IF readyState = state THEN <<>> ELSE Do("onreadystatechange", n)

------------------------------------------------------------------------------
(* What the script calls, from a handler or between two frames.            *)

ScriptRuns ==
  /\ memory = "alive"
  /\ IF todo = <<>> THEN referenced ELSE Head(todo).step = "handler"

(* What happens to several requests in the air at once.                    *)
Befalls(what, S) == [n \in Sends |-> IF n \in S THEN fate[n] \cup {what} ELSE fate[n]]

Open ==
  /\ ScriptRuns
  /\ readyState = "UNSENT"
  /\ isAborted' = FALSE
  /\ isTimeout' = FALSE
  /\ readyState' = "OPENED"
  /\ todo' = SetReadyState("OPENED", sends) \o todo
  /\ fate' = Befalls("reopened", flying)
  /\ UNCHANGED <<isLoadStart, isSending, callback, timer, flying, gc, rootCount,
                 sends, aborts, outcome, ended>>

SendTail ==
  /\ isSending' = TRUE
  /\ isTimeout' = FALSE
  /\ sends' = sends + 1
  /\ timer' \in {timer, IF timer = 0 THEN sends' ELSE timer}
  /\ callback' = TRUE
  /\ flying' = flying \cup {sends'}
  /\ todo' = Do("onloadstart", sends') \o todo
  /\ UNCHANGED <<readyState, isAborted, isLoadStart, gc, rootCount, aborts,
                 outcome, ended, fate>>

(* Wrong: a request in the air does not keep the next one waiting.         *)
SendRequestAgain ==
  /\ ScriptRuns
  /\ sends < NumSends
  /\ readyState # "UNSENT"
  /\ SendTail

(* sendRequest does nothing while a request is being sent.  A timer is     *)
(* scheduled if the script has set a timeout; schedule() leaves the one    *)
(* that is there, of the same key.  (To send what was not opened is an     *)
(* error of the script.)                                                   *)
SendRequest ==
  /\ ScriptRuns
  /\ sends < NumSends
  /\ readyState # "UNSENT"
  /\ ~isSending
  /\ SendTail

Abort ==
  /\ ScriptRuns
  /\ aborts < NumAborts
  /\ isLoadStart
  /\ isAborted' = TRUE
  /\ isSending' = FALSE
  /\ readyState' = "DONE"
  /\ todo' = SetReadyState("DONE", sends) \o Do("onabort", sends)
               \o Do("onloadend", sends) \o Do("aborted", sends) \o todo
  /\ aborts' = aborts + 1
  /\ fate' = Befalls("aborted", flying)
  /\ UNCHANGED <<isLoadStart, isTimeout, callback, timer, flying, gc, rootCount,
                 sends, outcome, ended>>

------------------------------------------------------------------------------
(* What Scheduler::update calls: the timer, and the functions the network  *)
(* threads have posted.                                                    *)

Timeout ==
  /\ todo = <<>> /\ timer # 0
  /\ todo' = Do("ontimeout", timer) \o Do("timed_out", timer) \o Do("cancel", timer)
  /\ UNCHANGED <<readyState, flags, callback, timer, flying, gc, rootCount, history>>

(* Wrong: the timer stays.                                                 *)
OnResponseUnscheduled(n) ==
  /\ isSending' = FALSE
  /\ readyState' = "DONE"
  /\ todo' = Do("onload", n) \o Do("onloadend", n)
  /\ UNCHANGED timer

(* The answer to request n: late, unwanted, failed without a status, or    *)
(* with one.                                                               *)
OnResponse(n) ==
  /\ timer' = 0
  /\ isSending' = FALSE
  /\ \/ /\ isTimeout
        /\ todo' = Do("onloadend", n)
        /\ UNCHANGED readyState
     \/ /\ ~isTimeout /\ (isAborted \/ readyState = "UNSENT")
        /\ UNCHANGED <<readyState, todo>>
     \/ /\ ~(isTimeout \/ isAborted \/ readyState = "UNSENT")
        /\ \/ /\ todo' = Do("onerror", n) \o Do("onloadend", n)
              /\ UNCHANGED readyState
           \/ /\ readyState' = "DONE"
              /\ todo' = SetReadyState("DONE", n) \o Do("onload", n)
                           \o Do("onloadend", n)

(* The function posted by networkThreadAlone: it calls the callback that   *)
(* the request has now.  Answers come in any order: from the answer to one *)
(* that was aborted on, they are taken for those of others ("confused").   *)
Dispatch(n) ==
  /\ todo = <<>> /\ n \in flying
  /\ flying' = flying \ {n}
  /\ IF callback THEN OnResponse(n)
                 ELSE UNCHANGED <<readyState, isSending, timer, todo>>
  /\ fate' = IF callback /\ fate[n] \cap {"aborted", "confused"} # {}
             THEN Befalls("confused", flying) ELSE fate
  /\ UNCHANGED <<isAborted, isLoadStart, isTimeout, callback, gc, rootCount,
                 sends, aborts, outcome, ended>>

------------------------------------------------------------------------------
(* The functions that are running go on: an event calls its handler.       *)

Event ==
  {"onreadystatechange", "onloadstart", "onload", "onerror", "onabort", "ontimeout",
   "onloadend"}

(* onloadstart roots the script object first, onloadend unroots it after   *)
(* the handler.                                                            *)
Fire ==
  /\ todo # <<>> /\ Head(todo).step \in Event
  /\ LET event == Head(todo).step
         n == Head(todo).of
     IN  /\ rootCount' = IF event = "onloadstart" THEN rootCount + 1 ELSE rootCount
         /\ todo' = Do("handler", n)
                      \o (CASE event = "onloadend" -> Do("unroot", n)
                            [] event = "onloadstart" -> Do("load_started", n)
                            [] OTHER -> <<>>)
                      \o Tail(todo)
         /\ outcome' = IF event \in {"onload", "onerror", "ontimeout"}
                       THEN [outcome EXCEPT ![n] = @ \cup {event}] ELSE outcome
         /\ ended' = IF event = "onloadend" THEN ended \cup {n} ELSE ended
  /\ UNCHANGED <<readyState, flags, callback, timer, flying, gc, sends, aborts, fate>>

Continue(step) ==
  /\ todo # <<>> /\ Head(todo).step = step
  /\ todo' = Tail(todo)
  /\ UNCHANGED <<isAborted, isSending, flying, gc, sends, aborts, outcome, ended>>

Return ==
  /\ Continue("handler")
  /\ UNCHANGED <<readyState, isLoadStart, isTimeout, callback, timer, rootCount, fate>>

(* Wrong: the object is unrooted entirely.                                 *)
UnrootAll ==
  /\ Continue("unroot")
  /\ rootCount' = 0
  /\ UNCHANGED <<readyState, isLoadStart, isTimeout, callback, timer, fate>>

Unroot ==
  /\ Continue("unroot")
  /\ rootCount' = IF rootCount > 0 THEN rootCount - 1 ELSE 0
  /\ UNCHANGED <<readyState, isLoadStart, isTimeout, callback, timer, fate>>

LoadStarted ==
  /\ Continue("load_started")
  /\ isLoadStart' = TRUE
  /\ UNCHANGED <<readyState, isTimeout, callback, timer, rootCount, fate>>

(* The callback goes, also that of a request a handler of abort has sent.  *)
Aborted ==
  /\ Continue("aborted")
  /\ readyState' = "UNSENT"
  /\ callback' = FALSE
  /\ fate' = Befalls("silenced", {n \in flying : "aborted" \notin fate[n]})
  /\ UNCHANGED <<isLoadStart, isTimeout, timer, rootCount>>

(* Wrong: only the state tells that the request timed out.                 *)
TimedOutUnflagged ==
  /\ Continue("timed_out")
  /\ readyState' = "UNSENT"
  /\ UNCHANGED <<isLoadStart, isTimeout, callback, timer, rootCount, fate>>

(* Wrong: the state stays OPENED, and nothing remembers the timeout.       *)
TimedOutForgotten ==
  /\ Continue("timed_out")
  /\ UNCHANGED <<readyState, isLoadStart, isTimeout, callback, timer, rootCount, fate>>

TimedOut ==
  /\ Continue("timed_out")
  /\ isTimeout' = TRUE
  /\ readyState' = "UNSENT"
  /\ UNCHANGED <<isLoadStart, callback, timer, rootCount, fate>>

(* Timer::update cancels what has run as often as it was to.               *)
Cancel ==
  /\ Continue("cancel")
  /\ timer' = 0
  /\ UNCHANGED <<readyState, isLoadStart, isTimeout, callback, rootCount, fate>>

------------------------------------------------------------------------------
(* The collector, and what it leaves to the end of the frame.              *)

Drop ==
  /\ todo = <<>> /\ referenced
  /\ referenced' = FALSE
  /\ UNCHANGED <<readyState, flags, callback, timer, flying, todo, memory, rootCount,
                 history>>

Finalize ==
  /\ todo = <<>> /\ memory = "alive"
  /\ ~referenced /\ rootCount = 0
  /\ memory' = "finalized"
  /\ UNCHANGED <<readyState, flags, callback, timer, flying, todo, referenced,
                 rootCount, history>>

(* ~XMLHttpRequest                                                         *)
Delete ==
  /\ todo = <<>> /\ memory = "finalized"
  /\ memory' = "deleted"
  /\ timer' = 0
  /\ callback' = FALSE
  /\ UNCHANGED <<readyState, flags, flying, todo, referenced, rootCount, history>>

------------------------------------------------------------------------------
GoOn ==
  \/ Fire
  \/ Return
  \/ Unroot
  \/ LoadStarted
  \/ Aborted
  \/ TimedOut
  \/ Cancel

Next ==
  \/ Open
  \/ SendRequest
  \/ Abort
  \/ Timeout
  \/ \E n \in Sends : Dispatch(n)
  \/ GoOn
  \/ Drop
  \/ Finalize
  \/ Delete

(* Handlers return, and every request is answered: curl gives up in the    *)
(* end, two seconds after the timer.                                       *)
Spec ==
  /\ Init /\ [][Next]_vars
  /\ WF_vars(GoOn)
  /\ \A n \in Sends : WF_vars(Dispatch(n))

------------------------------------------------------------------------------
TypeOK ==
  /\ readyState \in {"UNSENT", "OPENED", "DONE"}
  /\ {isAborted, isLoadStart, isTimeout, isSending, callback, referenced} \subseteq BOOLEAN
  /\ timer \in Sends \cup {0}
  /\ flying \subseteq 1 .. sends
  /\ \A i \in DOMAIN todo :
       /\ todo[i].step \in
            Event \cup {"handler", "unroot", "load_started", "aborted", "timed_out", "cancel"}
       /\ todo[i].of \in Sends \cup {0}
  /\ memory \in {"alive", "finalized", "deleted"}
  /\ rootCount \in 0 .. NumSends
  /\ sends \in Sends \cup {0} /\ aborts \in 0 .. NumAborts
  /\ outcome \in [Sends -> SUBSET {"onload", "onerror", "ontimeout"}]
  /\ ended \subseteq Sends
  /\ fate \in [Sends -> SUBSET {"aborted", "reopened", "silenced", "confused"}]

(* The callback is one for all requests of the object: the answer to a     *)
(* request can be taken for that of a later one only if it was aborted, or *)
(* after the answer to one that was; not if it is late after a timeout,    *)
(* although open is accepted then.                                         *)
AnswerIsCurrent ==
  \A n \in flying : n = sends \/ fate[n] \cap {"aborted", "confused"} # {}

(* The timer that stands is that of the request being sent: it can not     *)
(* outlive the answer and hit the next request.  (abort leaves it, and the *)
(* one of a request that a handler of abort has sent.)                     *)
TimerIsOwn ==
  timer # 0 => \/ fate[timer] \cap {"aborted", "silenced"} # {}
               \/ timer = sends /\ timer \in flying

Pending(step) == Cardinality({i \in DOMAIN todo : todo[i].step = step})

(* Unless abort is called: as many roots as requests that are on their way *)
(* to their onloadend, also when a handler sends the next request before   *)
(* the onloadend of the last: the collector can not take what is going to  *)
(* be called, and takes it in the end.                                     *)
RootsExact ==
  aborts = 0 =>
    rootCount + Pending("onloadstart")
      = Cardinality(flying) + Pending("onloadend") + Pending("unroot")

(* Whatever the order of the timer, the answers and abort, the script is   *)
(* told one outcome of a request; unless it opens the object for the next  *)
(* while that one is in the air: then a late answer is told after its      *)
(* timeout.                                                                *)
OneOutcome ==
  \A n \in Sends : "reopened" \notin fate[n] => Cardinality(outcome[n]) <= 1

(* Each request has its onloadend: when it was answered, after its timeout *)
(* or when it was aborted.  Not those a handler of abort sends, whose      *)
(* callback abort clears, nor where an answer was taken for another's, nor *)
(* once abort has unrooted the object for a later request and the          *)
(* collector takes it.                                                     *)
SendEnds ==
  \A n \in Sends :
    n \in flying ~> \/ n \in ended
                    \/ fate[n] \cap {"silenced", "confused"} # {}
                    \/ aborts > 0 /\ memory = "deleted"

------------------------------------------------------------------------------
(* Not among the runs.                                                     *)

(* "request is aborted, no more callback needed" (abort): its answer is    *)
(* not told.  But if the object is opened and used again, it has its       *)
(* callback again.                                                         *)
AbortedUntold ==
  \A n \in Sends : "aborted" \in fate[n] => outcome[n] \cap {"onload", "onerror"} = {}
==============================================================================
