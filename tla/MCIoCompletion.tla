--------------------------- MODULE MCIoCompletion ---------------------------
(* Instances of IoCompletion for TLC. *)
EXTENDS IoCompletion

MCEvent == {<<"event", 1>>}
MCSemaphore == {<<"semaphore", 1>>}
MCManual == {<<"manual", 1>>}
MCNone == {}

\* NtRemoveIoCompletion, and NtRemoveIoCompletionEx in three ways
MCWaits ==
    {[max |-> 1, timeout |-> "none", alertable |-> FALSE],
     [max |-> 2, timeout |-> "none", alertable |-> TRUE],
     [max |-> 2, timeout |-> "later", alertable |-> FALSE],
     [max |-> 2, timeout |-> "zero", alertable |-> FALSE]}
=============================================================================
