------------------------------ MODULE SPSCQueue ------------------------------
(***************************************************************************)
(* What a message queue of cc::MessageQueue promises to its two users.     *)
(*                                                                         *)
(* One producer writes messages, which stay private to it until it         *)
(* publishes them; one consumer takes the published ones, in the order     *)
(* they were written, and executes each exactly once.  A producer that     *)
(* asks to be blocked until the queue is finished (kickAndWait,            *)
(* terminateConsumerThread) gets control back only when every message it   *)
(* wrote has been executed, the last one being at most in the middle of    *)
(* its own execution: it is the message that wakes the producer up.        *)
(***************************************************************************)
EXTENDS Naturals, Sequences

CONSTANTS
  Messages,  \* what may be written
  Waking,    \* the messages whose execution wakes a blocked producer up
  Idle       \* the value of executing when the consumer executes nothing

VARIABLES
  buffered,   \* written by the producer, not yet published
  visible,    \* published, not yet taken by the consumer
  executing,  \* the message being executed, or Idle
  blocked     \* the producer is blocked until the queue is finished

vars == <<buffered, visible, executing, blocked>>

TypeOK ==
  /\ buffered \in Seq(Messages)
  /\ visible \in Seq(Messages)
  /\ executing \in Messages \cup {Idle}
  /\ blocked \in BOOLEAN

Init ==
  /\ buffered = <<>>
  /\ visible = <<>>
  /\ executing = Idle
  /\ blocked = FALSE

(* One or more messages are written: a message that does not fit the       *)
(* current chunk of memory takes two bookkeeping messages with it.  A      *)
(* blocked producer writes and publishes nothing: its thread waits.        *)
Write ==
  /\ ~blocked
  /\ Len(buffered') > Len(buffered)
  /\ buffered' \in Seq(Messages)
  /\ SubSeq(buffered', 1, Len(buffered)) = buffered
  /\ UNCHANGED <<visible, executing, blocked>>

Publish ==
  /\ ~blocked
  /\ visible' = visible \o buffered
  /\ buffered' = <<>>
  /\ UNCHANGED <<executing, blocked>>

Block ==
  /\ ~blocked /\ blocked' = TRUE
  /\ buffered = <<>>
  /\ UNCHANGED <<buffered, visible, executing>>

Unblock ==
  /\ blocked
  /\ visible = <<>>
  /\ executing \in Waking \cup {Idle}
  /\ blocked' = FALSE
  /\ UNCHANGED <<buffered, visible, executing>>

Take ==
  /\ executing = Idle
  /\ visible # <<>>
  /\ executing' = Head(visible)
  /\ visible' = Tail(visible)
  /\ UNCHANGED <<buffered, blocked>>

Done ==
  /\ executing # Idle
  /\ executing' = Idle
  /\ UNCHANGED <<buffered, visible, blocked>>

Next ==
  \/ Take \/ Done
  \/ Write \/ Publish \/ Block \/ Unblock

Spec == Init /\ [][Next]_vars
==============================================================================
