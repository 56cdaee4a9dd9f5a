--------------------------- MODULE MCThreadWaits ---------------------------
(* Instances of ThreadWaits for TLC. *)
EXTENDS ThreadWaits

CONSTANTS auto, manual, mutant, semaphore

MCAuto == {auto}
MCManual == {manual}
MCMutant == {mutant}
MCSemaphore == {semaphore}
MCNone == {}

\* The arrays of handles the guest waits for; thread 1 is an object as well.
MCLists == {<<auto, auto>>, <<mutant, semaphore>>, <<mutant, 1>>}

============================================================================
