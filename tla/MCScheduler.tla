----------------------------- MODULE MCScheduler -----------------------------
(***************************************************************************)
(* Instances of Scheduler for TLC.                                         *)
(***************************************************************************)
EXTENDS Scheduler

EveryFrameForever == [interval |-> 0, repeat |-> Forever, delay |-> 0]
DelayedTwice == [interval |-> 1, repeat |-> 1, delay |-> 1]
DelayedForever == [interval |-> 0, repeat |-> Forever, delay |-> 1]
Once == [interval |-> 1, repeat |-> 0, delay |-> 0]
Regularly == [interval |-> 1, repeat |-> Forever, delay |-> 0]

SafetySettings == {EveryFrameForever, DelayedTwice}
FrameSettings == {EveryFrameForever}

(* To refute OncePerFrame, CancelsItself and UnscheduledNotTriggered with. *)
DelayedSettings == {DelayedForever}
OnceSettings == {Once}
RegularSettings == {Regularly}
==============================================================================
