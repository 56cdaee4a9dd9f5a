------------------------- MODULE ThreadWaitsProofs -------------------------
(***************************************************************************)
(* TLAPS proofs about ThreadWaits, for any number of threads, vCPUs and    *)
(* objects and any handle arrays: the inductive invariant IInv, and the    *)
(* action properties that follow from it.  They assume that no debugger    *)
(* forces a thread onto a vCPU, and that no thread creates objects while   *)
(* it is being terminated on another vCPU.                                 *)
(***************************************************************************)
EXTENDS ThreadWaitsCallProofs

----------------------------------------------------------------------------
(* The theorems.                                                           *)

\* The invariant holds when the first thread is created.
LEMMA InitInv == Init => IInv
<1> SUFFICES ASSUME Init PROVE IInv
  OBVIOUS
<1> USE CountsAssumption DEF Init
<1>1. awaitObjects \in [Threads -> Seq(Waitables)]
  OBVIOUS
<1>2. /\ exited \in [Threads -> BOOLEAN] /\ awaitAny \in [Threads -> BOOLEAN]
      /\ waitingForAlert \in [Threads -> BOOLEAN] /\ alerted \in [Threads -> BOOLEAN]
      /\ apcAlertable \in [Threads -> BOOLEAN] /\ open \in [Objects -> BOOLEAN]
      /\ signaled \in [Events -> BOOLEAN] /\ abandoned \in [Mutants -> BOOLEAN]
      /\ failed \in BOOLEAN
  BY ZenonT(60)
<1>3. /\ suspended \in [Threads -> 0 .. MaxSuspend] /\ pendingApcs \in [Threads -> 0 .. MaxApcs]
      /\ count \in [Semaphores -> 0 .. MaxCount] /\ locked \in [Mutants -> Nat]
      /\ pendingStatus \in [Threads -> Int] /\ rax \in [Threads -> Int]
      /\ owner \in [Mutants -> Threads \cup {NoThread}]
  BY SMTT(60) DEF None
<1>4. /\ place \in [Threads -> {"running", "switching", "entered", "out"}]
      /\ awaitTime \in [Threads -> {"none", "infinite", "future", "past"}]
      /\ pulse \in {<<>>} \cup (Events \X (1 .. NumThreads + 1))
  OBVIOUS
<1>5. TypeOK
  BY <1>1, <1>2, <1>3, <1>4, ZenonT(60) DEF TypeOK
<1>6. RunningIsSettled /\ PendingMeansWoken /\ AlertWaitIsPure
  BY SMTT(60) DEF RunningIsSettled, PendingMeansWoken, AlertWaitIsPure, Blocked
<1>7. MutantOwnerAlive /\ \A t \in Threads : place[t] # "entered"
  BY DEF MutantOwnerAlive
<1> QED  BY <1>5, <1>6, <1>7 DEF IInv

\* Every step keeps the invariant.
LEMMA NextInv ==
    ASSUME "debug" \notin Ops, "create" \notin Ops, IInv, [Next]_vars
    PROVE  IInv'
<1>1. ASSUME NEW t \in Threads, Switch(t) PROVE IInv'
  BY <1>1, SwitchSatisfiedInv, SwitchReadyInv, SwitchApcInv, PlaceInv, SMTT(60) DEF Switch
<1>2. ASSUME NEW t \in Threads, Activate(t) \/ Enter(t) PROVE FALSE
  BY <1>2, ZenonT(60) DEF Activate, Enter, IInv
<1>3. CASE UNCHANGED vars
  <2> USE DEF vars, lifeVars, waitVars, apcVars, statusVars, objectVars, mutantVars
  <2>1. TypeOK'
    BY <1>3, ZenonT(60) DEF IInv, TypeOK
  <2> QED  BY <1>3, <2>1, SameThreads, SameMutants, SMTT(60) DEF IInv
<1> QED  BY <1>1, <1>2, <1>3, WaitCallInv, ObjectCallInv, ThreadCallInv, PlaceInv, TickInv,
            PulseWakeInv, PulseEndInv, SMTT(60) DEF Next

\* Without a debugger, and for mutants that exist from the start, IInv holds
\* for every number of vCPUs, threads and objects.
THEOREM InvariantHolds ==
    ASSUME "debug" \notin Ops, "create" \notin Ops
    PROVE  Spec => []IInv
<1>1. Init => IInv
  BY InitInv
<1>2. IInv /\ [Next]_vars => IInv'
  BY NextInv
<1> QED  BY <1>1, <1>2, PTL DEF Spec

\* The fields of threads and of kernel objects keep their types: no semaphore
\* exceeds its maximum (semaphore::release), no count goes below zero.
THEOREM TypesHold ==
    ASSUME "debug" \notin Ops, "create" \notin Ops
    PROVE  Spec => []TypeOK
<1>1. IInv => TypeOK
  BY ZenonT(60) DEF IInv
<1> QED  BY <1>1, InvariantHolds, PTL

\* A thread never runs guest code with a wait unsettled or a status still to
\* be written over its rax (switch_to_thread, setup_if_necessary).
THEOREM RunningSettled ==
    ASSUME "debug" \notin Ops, "create" \notin Ops
    PROVE  Spec => []RunningIsSettled
<1>1. IInv => RunningIsSettled
  BY DEF IInv
<1> QED  BY <1>1, InvariantHolds, PTL

\* A terminated thread owns no mutant (terminate_thread, try_lock, release).
THEOREM NoDeadOwner ==
    ASSUME "debug" \notin Ops, "create" \notin Ops
    PROVE  Spec => []MutantOwnerAlive
<1>1. IInv => MutantOwnerAlive
  BY SMTT(60) DEF IInv
<1> QED  BY <1>1, InvariantHolds, PTL

\* Every system call but NtWaitForAlertByThreadId keeps alerts, and every one
\* keeps the statuses of ended waits.
LEMMA CallsKeep ==
    ASSUME IInv, NEW t \in Threads, WaitCall(t) \/ ObjectCall(t) \/ ThreadCall(t)
    PROVE  /\ pendingStatus' = pendingStatus
           /\ \A u \in Threads : alerted[u] /\ ~alerted'[u] => rax'[u] = STATUS_ALERTED
<1>1. CASE WaitCall(t)
  <2>1. pendingStatus' = pendingStatus /\ alerted' = alerted
    BY <1>1, ZenonT(60) DEF WaitCall, NtWaitForSingleObject, NtWaitForMultipleObjects,
       NtSignalAndWaitForSingleObject, NtDelayExecution, StartWait, waitVars, statusVars
  <2> QED  BY <2>1
<1>2. CASE ObjectCall(t)
  <2>1. pendingStatus' = pendingStatus /\ alerted' = alerted
    BY <1>2, ZenonT(60) DEF ObjectCall, NtSetEvent, NtClearEvent, NtPulseEvent, NtReleaseMutant,
       NtReleaseSemaphore, NtCreateObject, NtClose, waitVars, statusVars
  <2> QED  BY <2>1
<1>3. CASE \E timeout \in Timeouts : NtWaitForAlertByThreadId(t, timeout)
  BY <1>3, ZenonT(60) DEF NtWaitForAlertByThreadId, IInv, TypeOK
<1>4. CASE \E u \in Threads : NtAlertThreadByThreadId(t, u)
  BY <1>4 DEF NtAlertThreadByThreadId, statusVars, IInv, TypeOK
<1>5. CASE \/ NtContinue(t) \/ NtTerminateProcess(t)
           \/ \E u \in Threads : \/ NtQueueApcThread(t, u) \/ NtSuspendThread(t, u)
                                 \/ NtResumeThread(t, u) \/ NtTerminateThread(t, u)
  <2>1. pendingStatus' = pendingStatus /\ alerted' = alerted
    BY <1>5, ZenonT(60) DEF NtContinue, NtTerminateProcess, NtQueueApcThread, NtSuspendThread,
       NtResumeThread, NtTerminateThread, waitVars, statusVars
  <2> QED  BY <2>1
<1> QED  BY <1>1, <1>2, <1>3, <1>4, <1>5, ZenonT(60) DEF ThreadCall

\* What one step does to alerts and to the statuses of ended waits.
LEMMA StepKeeps ==
    ASSUME IInv, "debug" \notin Ops, Next, NEW u \in Threads
    PROVE  /\ alerted[u] /\ ~alerted'[u] => rax'[u] = STATUS_ALERTED
           /\ pendingStatus[u] # None /\ pendingStatus'[u] # pendingStatus[u] =>
                 pendingStatus'[u] = None /\ rax'[u] = pendingStatus[u]
<1> DEFINE Alert   == alerted[u] /\ ~alerted'[u] => rax'[u] = STATUS_ALERTED
           Decided == pendingStatus[u] # None /\ pendingStatus'[u] # pendingStatus[u] =>
                         pendingStatus'[u] = None /\ rax'[u] = pendingStatus[u]
<1>a. /\ alerted \in [Threads -> BOOLEAN] /\ waitingForAlert \in [Threads -> BOOLEAN]
      /\ rax \in [Threads -> Int] /\ pendingStatus \in [Threads -> Int]
  BY SMTT(60) DEF IInv, TypeOK
<1>1. ASSUME NEW t \in Threads, WaitCall(t) \/ ObjectCall(t) \/ ThreadCall(t)
      PROVE  Alert /\ Decided
  BY <1>1, CallsKeep, SMTT(60)
<1>2. ASSUME NEW t \in Threads, Preempt(t) \/ Tick(t) \/ Detach(t) \/ SwitchThrows(t)
      PROVE  Alert /\ Decided
  BY <1>2, ZenonT(60) DEF Preempt, Tick, Detach, SwitchThrows, waitVars, statusVars
<1>3. ASSUME NEW t \in Threads, SwitchSatisfied(t) PROVE Alert /\ Decided
  <2>1. /\ alerted' = [alerted EXCEPT ![t] = @ /\ ~waitingForAlert[t]]
        /\ rax' = [rax EXCEPT ![t] = Outcome(t)]
        /\ pendingStatus' = [pendingStatus EXCEPT ![t] = None]
        /\ Blocked(t)
    BY <1>3, SMTT(60) DEF SwitchSatisfied, ClearWait, Completes
  <2>2. pendingStatus[t] = None
    BY <2>1, SMTT(60) DEF IInv, PendingMeansWoken
  <2>3. alerted[t] /\ waitingForAlert[t] => Outcome(t) = STATUS_ALERTED
    BY SMTT(60) DEF Outcome
  <2>4. CASE u = t
    <3>1. alerted'[t] = (alerted[t] /\ ~waitingForAlert[t]) /\ rax'[t] = Outcome(t)
      BY <1>a, <2>1, ZenonT(60)
    <3> QED  BY <2>2, <2>3, <2>4, <3>1, ZenonT(60)
  <2>5. CASE u # t
    BY <1>a, <2>1, <2>5, SMTT(60)
  <2> QED  BY <2>4, <2>5, ZenonT(60)
<1>4. ASSUME NEW t \in Threads, SwitchReady(t) \/ SwitchUnready(t) PROVE Alert /\ Decided
  BY <1>4, <1>a, SMTT(60) DEF SwitchReady, SwitchUnready, waitVars
<1>5. ASSUME NEW t \in Threads, SwitchApc(t) PROVE Alert /\ Decided
  <2>1. /\ alerted' = [alerted EXCEPT ![t] = @ /\ ~waitingForAlert[t]]
        /\ pendingStatus' = pendingStatus /\ apcAlertable[t]
    BY <1>5, SMTT(60) DEF SwitchApc, ClearWait, HasPendingAlertableApc
  <2>2. ~waitingForAlert[t]
    BY <2>1, SMTT(60) DEF IInv, AlertWaitIsPure
  <2>3. alerted'[u] = alerted[u]
    BY <1>a, <2>1, <2>2, SMTT(60)
  <2> QED  BY <2>1, <2>3, ZenonT(60)
<1>6. ASSUME PulseWake PROVE Alert /\ Decided
  <2>0. PICK t \in Threads : t = pulse[2]
    BY <1>6, SMTT(60) DEF PulseWake
  <2>1. CASE UNCHANGED <<waitVars, pendingStatus, objectVars>>
    BY <2>1, SMTT(60) DEF waitVars
  <2>2. ASSUME pulse[1] \in Awaited(t), Completes(t), ClearWait(t),
               pendingStatus' = [pendingStatus EXCEPT ![t] = Outcome(t)]
        PROVE  Alert /\ Decided
    <3>1. Blocked(t) /\ awaitObjects[t] # <<>>
      BY <2>2, SMTT(60) DEF Completes, Awaited
    <3>2. ~waitingForAlert[t] /\ pendingStatus[t] = None
      BY <3>1, SMTT(60) DEF IInv, AlertWaitIsPure, PendingMeansWoken
    <3>3. alerted' = [alerted EXCEPT ![t] = @ /\ ~waitingForAlert[t]]
      BY <2>2 DEF ClearWait
    <3>4. alerted'[u] = alerted[u]
      BY <1>a, <3>2, <3>3, SMTT(60)
    <3> QED  BY <1>a, <2>2, <3>2, <3>4, SMTT(60)
  <2> QED  BY <1>6, <2>0, <2>1, <2>2, SMTT(60) DEF PulseWake
<1>7. ASSUME PulseEnd PROVE Alert /\ Decided
  BY <1>7, SMTT(60) DEF PulseEnd, waitVars, statusVars
<1>8. ASSUME NEW t \in Threads, Activate(t) \/ Enter(t) PROVE FALSE
  BY <1>8, ZenonT(60) DEF Activate, Enter, IInv
<1> QED  BY <1>1, <1>2, <1>3, <1>4, <1>5, <1>6, <1>7, <1>8, ZenonT(60) DEF Next, Switch

\* An alert goes only with a wait that returns STATUS_ALERTED
\* (mark_as_ready, NtWaitForAlertByThreadId).
THEOREM NoAlertLost ==
    ASSUME "debug" \notin Ops, "create" \notin Ops
    PROVE  Spec => AlertNotLost
<1>1. IInv /\ [Next]_vars =>
        [\A t \in Threads : alerted[t] /\ ~alerted'[t] => rax'[t] = STATUS_ALERTED]_vars
  BY StepKeeps
<1> QED  BY <1>1, InvariantHolds, PTL DEF Spec, AlertNotLost

\* The status NtPulseEvent ended a wait with reaches the thread, whatever
\* happens to the thread before it runs (setup_if_necessary, dispatch_next_apc).
THEOREM StatusDelivered ==
    ASSUME "debug" \notin Ops, "create" \notin Ops
    PROVE  Spec => DecidedStatusDelivered
<1>1. IInv /\ [Next]_vars =>
        [\A t \in Threads : pendingStatus[t] # None /\ pendingStatus'[t] # pendingStatus[t] =>
             pendingStatus'[t] = None /\ rax'[t] = pendingStatus[t]]_vars
  BY StepKeeps
<1> QED  BY <1>1, InvariantHolds, PTL DEF Spec, DecidedStatusDelivered

----------------------------------------------------------------------------
(* A handle array that names one object twice.                             *)

\* An object can be consumed twice only by an array that names it twice.
LEMMA TwiceTaken ==
    ASSUME TypeOK, NEW t \in Threads, NEW o, Taken(t, o) > 1
    PROVE  Cardinality(Awaited(t)) < Len(awaitObjects[t])
<1> DEFINE list == awaitObjects[t]
           n    == Len(list)
           S    == {i \in ConsumedAt(t) : list[i] = o}
<1>0. list \in Seq(Waitables) /\ n \in Nat /\ DOMAIN list = 1 .. n
  BY DEF TypeOK
<1>1. S \subseteq 1 .. n
  BY ConsumedIsIndex
<1>2. IsFiniteSet(1 .. n) /\ Cardinality(1 .. n) = n /\ IsFiniteSet(S)
  <2> HIDE DEF n, S
  <2>1. n \in Int /\ 1 \in Int /\ (1 > n => n = 0) /\ n - 1 + 1 = n
    BY <1>0
  <2>2. IsFiniteSet(1 .. n) /\ Cardinality(1 .. n) = n
    BY <2>1, FS_Interval, SMTT(60)
  <2> QED  BY <1>1, <2>2, FS_Subset, ZenonT(60)
<1>3. Cardinality(S) > 1
  BY DEF Taken
<1>4. PICK i \in S : TRUE
  BY <1>2, <1>3, FS_EmptySet
<1>5. PICK j \in S : j # i
  <2>1. Cardinality(S \ {i}) = Cardinality(S) - 1 /\ IsFiniteSet(S \ {i})
    BY <1>2, <1>4, FS_RemoveElement
  <2>2. S \ {i} # {}
    BY <1>2, <1>3, <2>1, FS_EmptySet, FS_CardinalityType
  <2> QED  BY <2>2
<1>6. i \in 1 .. n /\ j \in 1 .. n /\ list[i] = list[j]
  BY <1>1, <1>4, <1>5
<1> DEFINE T == (1 .. n) \ {j}
           f == [k \in T |-> list[k]]
<1> HIDE DEF S
<1>7. Awaited(t) = {list[k] : k \in 1 .. n}
  BY <1>0 DEF Awaited
<1>8. IsFiniteSet(T) /\ Cardinality(T) = n - 1
  <2> DEFINE D == 1 .. n
  <2>1. IsFiniteSet(D) /\ j \in D /\ Cardinality(D) = n
    BY <1>2, <1>6
  <2> HIDE DEF D
  <2>2. IsFiniteSet(D \ {j}) /\ Cardinality(D \ {j}) = n - 1
    BY <2>1, FS_RemoveElement, ZenonT(60)
  <2> QED  BY <2>2 DEF D
<1>9. f \in Surjection(T, Awaited(t))
  <2>1. f \in [T -> Awaited(t)]
    BY <1>7
  <2>2. ASSUME NEW x \in Awaited(t) PROVE \E k \in T : f[k] = x
    <3>1. PICK k \in 1 .. n : x = list[k]
      BY <1>7, <2>2
    <3> QED  BY <1>5, <1>6, <3>1
  <2> QED  BY <2>1, <2>2 DEF Surjection
<1>10. Cardinality(Awaited(t)) <= Cardinality(T) /\ IsFiniteSet(Awaited(t))
  <2> HIDE DEF T, f
  <2> QED  BY <1>8, <1>9, FS_Surjection
<1> QED  BY <1>0, <1>8, <1>10, FS_CardinalityType

\* The count of a semaphore is a number.
LEMMA CountInNat == \A n \in 0 .. MaxCount : n \in Nat
  OBVIOUS

\* consume_object_signal fails only for such an array.
LEMMA FailsOnDuplicates ==
    ASSUME TypeOK, NEW t \in Threads, ConsumeFails(t)
    PROVE  Cardinality(Awaited(t)) < Len(awaitObjects[t])
<1>1. ASSUME NEW s \in Semaphores, Taken(t, s) > count[s]
      PROVE  Taken(t, s) > 1
  <2>1. Taken(t, s) \in Nat /\ count[s] \in Nat
    <3>1. count \in [Semaphores -> 0 .. MaxCount]
      BY ZenonT(60) DEF TypeOK
    <3>2. count[s] \in 0 .. MaxCount
      BY <3>1, ZenonT(60)
    <3> QED  BY <3>2, TakenFacts, CountInNat, ZenonT(60)
  <2>2. Signaled(t, s)
    BY <1>1, <2>1, TakenFacts, SMTT(60)
  <2>3. s \notin Threads /\ s \notin Events /\ s \notin Mutants
    BY ObjectsAssumption, ZenonT(60) DEF Objects
  <2>4. count[s] > 0
    BY <2>2, <2>3, ZenonT(60) DEF Signaled
  <2> QED  BY <1>1, <2>1, <2>4
<1> QED  BY <1>1, TwiceTaken, ZenonT(60) DEF ConsumeFails

\* Once the exception is thrown nothing happens any more.
LEMMA NextIsCalm ==
    ASSUME Next
    PROVE  ~failed
<1>1. ASSUME NEW t \in Threads, WaitCall(t) PROVE ~failed
  BY <1>1, ZenonT(60) DEF WaitCall, NtWaitForSingleObject, NtWaitForMultipleObjects,
     NtSignalAndWaitForSingleObject, NtDelayExecution, Guest, Calm
<1>2. ASSUME NEW t \in Threads, ObjectCall(t) PROVE ~failed
  BY <1>2, ZenonT(60) DEF ObjectCall, NtSetEvent, NtClearEvent, NtPulseEvent, NtReleaseMutant,
     NtReleaseSemaphore, NtCreateObject, NtClose, Guest, Calm
<1>3. ASSUME NEW t \in Threads, ThreadCall(t) PROVE ~failed
  BY <1>3, ZenonT(60) DEF ThreadCall, NtWaitForAlertByThreadId, NtContinue, NtTerminateProcess,
     NtAlertThreadByThreadId, NtQueueApcThread, NtSuspendThread, NtResumeThread,
     NtTerminateThread, Guest, Calm
<1>4. ASSUME NEW t \in Threads, Preempt(t) \/ Tick(t) \/ Detach(t) \/ Activate(t) \/ Enter(t)
      PROVE  ~failed
  BY <1>4, ZenonT(60) DEF Preempt, Tick, Detach, Activate, Enter, Calm
<1>5. ASSUME NEW t \in Threads, Switch(t) PROVE ~failed
  BY <1>5, ZenonT(60) DEF Switch, SwitchSatisfied, SwitchReady, SwitchApc, SwitchUnready,
     SwitchThrows, Calm
<1> QED  BY <1>1, <1>2, <1>3, <1>4, <1>5, ZenonT(60) DEF Next, PulseWake, PulseEnd

\* The exception is thrown by a switch or by NtPulseEvent.
LEMMA WhoThrows ==
    ASSUME Next, "debug" \notin Ops, failed'
    PROVE  (\E t \in Threads : SwitchThrows(t)) \/ PulseWake
<1>0. ~failed
  BY NextIsCalm
<1>1. ASSUME NEW t \in Threads, WaitCall(t) PROVE FALSE
  BY <1>0, <1>1, ZenonT(60) DEF WaitCall, NtWaitForSingleObject, NtWaitForMultipleObjects,
     NtSignalAndWaitForSingleObject, NtDelayExecution
<1>2. ASSUME NEW t \in Threads, ObjectCall(t) PROVE FALSE
  BY <1>0, <1>2, ZenonT(60) DEF ObjectCall, NtSetEvent, NtClearEvent, NtPulseEvent, NtReleaseMutant,
     NtReleaseSemaphore, NtCreateObject, NtClose
<1>3. ASSUME NEW t \in Threads, ThreadCall(t) PROVE FALSE
  BY <1>0, <1>3, ZenonT(60) DEF ThreadCall, NtWaitForAlertByThreadId, NtContinue, NtTerminateProcess,
     NtAlertThreadByThreadId, NtQueueApcThread, NtSuspendThread, NtResumeThread,
     NtTerminateThread
<1>4. ASSUME NEW t \in Threads, Preempt(t) \/ Tick(t) \/ Detach(t) \/ Activate(t) \/ Enter(t)
      PROVE  FALSE
  BY <1>0, <1>4, ZenonT(60) DEF Preempt, Tick, Detach, Activate, Enter
<1>5. ASSUME NEW t \in Threads, Switch(t) PROVE SwitchThrows(t)
  BY <1>0, <1>5, ZenonT(60) DEF Switch, SwitchSatisfied, SwitchReady, SwitchApc, SwitchUnready
<1>6. ~PulseEnd
  BY <1>0, ZenonT(60) DEF PulseEnd
<1> QED  BY <1>1, <1>2, <1>3, <1>4, <1>5, <1>6, ZenonT(60) DEF Next

\* "Failed to consume object signal!" is thrown only for a handle array that
\* names one object twice (is_thread_ready, consume_object_signal).
THEOREM OnlyDuplicatesThrow ==
    ASSUME "debug" \notin Ops, "create" \notin Ops
    PROVE  Spec => []ThrowsOnlyOnDuplicates
<1>1. Init => ThrowsOnlyOnDuplicates
  BY ZenonT(60) DEF Init, ThrowsOnlyOnDuplicates
<1>2. ASSUME IInv, [Next]_vars, ThrowsOnlyOnDuplicates PROVE ThrowsOnlyOnDuplicates'
  <2>0. TypeOK
    BY <1>2, ZenonT(60) DEF IInv
  <2>1. CASE UNCHANGED vars
    BY <1>2, <2>1, ZenonT(60) DEF ThrowsOnlyOnDuplicates, Awaited, vars, waitVars
  <2>2. ASSUME NEW t \in Threads, SwitchThrows(t) PROVE ThrowsOnlyOnDuplicates'
    <3>1. ConsumeFails(t) /\ UNCHANGED awaitObjects
      BY <2>2, ZenonT(60) DEF SwitchThrows, waitVars
    <3>2. Cardinality(Awaited(t)) < Len(awaitObjects[t])
      BY <2>0, <3>1, FailsOnDuplicates
    <3> QED  BY <3>1, <3>2, ZenonT(60) DEF ThrowsOnlyOnDuplicates, Awaited
  <2>3. ASSUME PulseWake, failed' PROVE ThrowsOnlyOnDuplicates'
    <3> DEFINE t == pulse[2]
    <3>1. t \in Threads /\ ConsumeFails(t) /\ UNCHANGED awaitObjects
      BY <2>3, ZenonT(60) DEF PulseWake, waitVars
    <3> HIDE DEF t
    <3>2. Cardinality(Awaited(t)) < Len(awaitObjects[t])
      BY <2>0, <3>1, FailsOnDuplicates
    <3> QED  BY <3>1, <3>2, ZenonT(60) DEF ThrowsOnlyOnDuplicates, Awaited
  <2>4. CASE ~failed'
    BY <2>4, ZenonT(60) DEF ThrowsOnlyOnDuplicates
  <2> QED  BY <1>2, <2>1, <2>2, <2>3, <2>4, WhoThrows, ZenonT(60)
<1> QED  BY <1>1, <1>2, InvariantHolds, PTL DEF Spec

----------------------------------------------------------------------------
(* What ends a wait, and what it takes.                                    *)

\* No thread waits for more objects than NtWaitForMultipleObjects accepts.
LEMMA ArraysFitHolds ==
    ASSUME "debug" \notin Ops, "create" \notin Ops
    PROVE  Spec => []ArraysFit
<1>1. Init => ArraysFit
  BY DEF Init, ArraysFit, MaximumWaitObjects
<1>2. ASSUME IInv, [Next]_vars, ArraysFit PROVE ArraysFit'
  <2> SUFFICES ASSUME NEW u \in Threads PROVE Len(awaitObjects'[u]) <= MaximumWaitObjects
    BY ZenonT(60) DEF ArraysFit
  <2>1. Len(<<>>) <= 64 /\ \A o \in Waitables : Len(<<o>>) <= 64
    OBVIOUS
  <2>2. \A list \in WaitLists : Len(list) <= MaximumWaitObjects
    BY InputsAssumption, ZenonT(60)
  <2> QED  BY <1>2, <2>1, <2>2, ArrayStep, ZenonT(60) DEF ArraysFit, MaximumWaitObjects
<1> QED  BY <1>1, <1>2, InvariantHolds, PTL DEF Spec

\* A wait that its time-out or an APC ends was not satisfied.
LEMMA UnsatisfiedStep ==
    ASSUME IInv, ArraysFit, "debug" \notin Ops, Next, NEW t \in Threads,
           WaitEnds(t), suspended[t] = 0, EndStatus(t) \in {STATUS_TIMEOUT, STATUS_USER_APC}
    PROVE  ~Satisfied(t)
<1>0. TypeOK
  BY ZenonT(60) DEF IInv
<1>1. Satisfied(t) => ~waitingForAlert[t]
  BY ZenonT(60) DEF Satisfied, IInv, AlertWaitIsPure
<1>2. Satisfied(t) => ConsumedAt(t) # {}
  <2>1. Satisfied(t) => SignaledAt(t) # {}
    BY <1>0, ConsumedIsIndex, ZenonT(60)
  <2> QED  BY <1>1, <2>1, ZenonT(60) DEF ConsumedAt
<1>3. CASE Completed(t)
  <2>1. ASSUME Satisfied(t) PROVE FALSE
    <3>1. EndStatus(t) = SatisfiedStatus(t)
      BY <1>1, <1>2, <1>3, <2>1, ZenonT(60) DEF Completed, Outcome
    <3>2. SatisfiedStatus(t) \in 0 .. STATUS_USER_APC - 1
      BY <1>0, <1>2, <2>1, StatusNamesObject
    <3> QED  BY <3>1, <3>2, SMTT(60) DEF STATUS_TIMEOUT, STATUS_USER_APC
  <2> QED  BY <2>1
<1>4. CASE SwitchApc(t)
  <2>1. ~Completes(t) /\ ~exited[t] /\ Blocked(t)
    BY <1>4, ZenonT(60) DEF SwitchApc, WaitEnds
  <2>2. Outcome(t) = None
    BY <2>1, ZenonT(60) DEF Completes, Runnable
  <2>3. ASSUME Satisfied(t) PROVE FALSE
    <3>1. Outcome(t) = SatisfiedStatus(t)
      BY <1>1, <1>2, <2>3, ZenonT(60) DEF Outcome
    <3>2. SatisfiedStatus(t) \in 0 .. STATUS_USER_APC - 1
      BY <1>0, <1>2, <2>3, StatusNamesObject
    <3> QED  BY <2>2, <3>1, <3>2, SMTT(60) DEF None, STATUS_USER_APC
  <2> QED  BY <2>3
<1> QED  BY <1>3, <1>4, HowWaitsEnd

\* A signal that is there ends the wait before a time-out or an APC does
\* (is_thread_ready looks at the objects first).
THEOREM TimeoutHadNothingToTake ==
    ASSUME "debug" \notin Ops, "create" \notin Ops
    PROVE  Spec => SignalBeatsTimeout
<1>1. IInv /\ ArraysFit /\ [Next]_vars =>
        [\A t \in Threads : WaitEnds(t) /\ suspended[t] = 0 /\ EndStatus(t) \in {STATUS_TIMEOUT, STATUS_USER_APC} =>
             ~Satisfied(t)]_vars
  BY UnsatisfiedStep
<1> QED  BY <1>1, InvariantHolds, ArraysFitHolds, PTL DEF Spec, SignalBeatsTimeout

----------------------------------------------------------------------------

\* A mutant that changes hands was free, and goes to a thread whose wait took it.
LEMMA HandoverStep ==
    ASSUME IInv, ArraysFit, "debug" \notin Ops, "create" \notin Ops, Next,
           NEW m \in Mutants, owner'[m] # owner[m]
    PROVE  /\ owner[m] # NoThread => owner'[m] = NoThread
           /\ owner'[m] # NoThread /\ abandoned[m] =>
                 EndStatus(owner'[m]) \in STATUS_ABANDONED_WAIT_0 .. STATUS_USER_APC - 1
<1> DEFINE Goal == /\ owner[m] # NoThread => owner'[m] = NoThread
                   /\ owner'[m] # NoThread /\ abandoned[m] =>
                         EndStatus(owner'[m]) \in STATUS_ABANDONED_WAIT_0 .. STATUS_USER_APC - 1
<1>0. TypeOK /\ MutantOwnerAlive
  BY ZenonT(60) DEF IInv
<1>a. pendingStatus \in [Threads -> Int] /\ rax \in [Threads -> Int]
  BY <1>0, ZenonT(60) DEF TypeOK
<1>1. ASSUME NEW t \in Threads, WaitCall(t) \/ ObjectCall(t) \/ ThreadCall(t) PROVE Goal
  BY <1>1, CallsFreeMutants, ZenonT(60)
<1>2. ASSUME NEW t \in Threads, Completed(t) PROVE Goal
  <2>1. /\ Completes(t) /\ Consume(t) /\ EndStatus(t) = Outcome(t)
    BY <1>2, ZenonT(60) DEF Completed
  <2>2. owner'[m] = IF Taken(t, m) > 0 THEN t ELSE owner[m]
    BY <2>1, ZenonT(60) DEF Consume
  <2>3. Taken(t, m) > 0 /\ owner'[m] = t
    BY <2>2, ZenonT(60)
  <2>4. m \notin Threads /\ m \notin Events /\ m \notin Semaphores
    BY ObjectsAssumption, ZenonT(60) DEF Objects, Events
  <2>5. abandoned[m] \/ locked[m] = 0 \/ owner[m] = t
    BY <1>0, <2>3, <2>4, TakenFacts, ZenonT(60) DEF Signaled
  <2>6. owner[m] = NoThread
    BY <1>0, <2>3, <2>5, ZenonT(60) DEF MutantOwnerAlive
  <2>7. ASSUME abandoned[m]
        PROVE  EndStatus(t) \in STATUS_ABANDONED_WAIT_0 .. STATUS_USER_APC - 1
    <3>1. PICK i \in ConsumedAt(t) : awaitObjects[t][i] = m
      <4> DEFINE S == {i \in ConsumedAt(t) : awaitObjects[t][i] = m}
      <4>1. S # {}
        <5>1. Cardinality(S) > 0
          BY <2>3, ZenonT(60) DEF Taken
        <5> HIDE DEF S
        <5> QED  BY <5>1, FS_EmptySet
      <4> QED  BY <4>1
    <3>2. i \in SignaledAt(t)
      BY <1>0, <3>1, ConsumedIsIndex, ZenonT(60)
    <3>3. AbandonedAt(t) \cap ConsumedAt(t) # {} /\ ConsumedAt(t) # {}
      BY <2>7, <3>1, <3>2, ZenonT(60) DEF AbandonedAt
    <3>4. /\ SatisfiedStatus(t) \in 0 .. STATUS_USER_APC - 1
          /\ SatisfiedStatus(t) >= STATUS_ABANDONED_WAIT_0
      BY <1>0, <3>3, StatusNamesObject
    <3>5. EndStatus(t) = SatisfiedStatus(t)
      <4>1. ~waitingForAlert[t]
        BY <3>3, ZenonT(60) DEF ConsumedAt
      <4> QED  BY <2>1, <3>3, <4>1, ZenonT(60) DEF Outcome
    <3> QED  BY <3>4, <3>5, SMTT(60) DEF STATUS_ABANDONED_WAIT_0, STATUS_USER_APC
  <2> QED  BY <2>3, <2>6, <2>7, ZenonT(60)
<1>3. ASSUME NEW t \in Threads, SwitchSatisfied(t) PROVE Goal
  <2>1. EndStatus(t) = Outcome(t)
    BY <1>a, <1>3, ZenonT(60) DEF EndStatus, SwitchSatisfied
  <2> QED  BY <1>2, <1>3, <2>1, ZenonT(60) DEF SwitchSatisfied, Completed
<1>4. ASSUME PulseWake PROVE Goal
  <2> DEFINE t == pulse[2]
  <2>1. /\ t \in Threads /\ Completes(t) /\ ~ConsumeFails(t) /\ Consume(t) /\ ClearWait(t)
        /\ pendingStatus' = [pendingStatus EXCEPT ![t] = Outcome(t)]
    BY <1>4, ZenonT(60) DEF PulseWake, objectVars, mutantVars
  <2> HIDE DEF t
  <2>2. EndStatus(t) = Outcome(t)
    BY <1>a, <2>1, ZenonT(60) DEF EndStatus, Completes
  <2> QED  BY <1>2, <2>1, <2>2, ZenonT(60) DEF Completed
<1>5. ASSUME \/ PulseEnd
             \/ \E t \in Threads : \/ Preempt(t) \/ Tick(t) \/ Detach(t) \/ SwitchThrows(t)
                                   \/ SwitchReady(t) \/ SwitchUnready(t) \/ SwitchApc(t)
      PROVE  FALSE
  <2>1. owner' = owner
    BY <1>5, ZenonT(60) DEF PulseEnd, Preempt, Tick, Detach, SwitchThrows, SwitchReady, SwitchUnready,
       SwitchApc, objectVars, mutantVars
  <2> QED  BY <2>1
<1>6. ASSUME NEW t \in Threads, Activate(t) \/ Enter(t) PROVE FALSE
  BY <1>6, ZenonT(60) DEF Activate, Enter, IInv
<1> QED  BY <1>1, <1>3, <1>4, <1>5, <1>6, ZenonT(60) DEF Next, Switch

\* A mutant goes from one owner to the next only through being free, and the
\* thread that gets an abandoned one is told (try_lock, mutant::release,
\* terminate_thread, is_thread_ready).
THEOREM MutantHandedOver ==
    ASSUME "debug" \notin Ops, "create" \notin Ops
    PROVE  Spec => MutantHandover
<1>1. IInv /\ ArraysFit /\ [Next]_vars =>
        [\A m \in Mutants : owner'[m] # owner[m] =>
           /\ owner[m] # NoThread => owner'[m] = NoThread
           /\ owner'[m] # NoThread /\ abandoned[m] =>
                 EndStatus(owner'[m]) \in STATUS_ABANDONED_WAIT_0 .. STATUS_USER_APC - 1]_vars
  BY HandoverStep
<1> QED  BY <1>1, InvariantHolds, ArraysFitHolds, PTL DEF Spec, MutantHandover

----------------------------------------------------------------------------

\* No wait names a semaphore twice.
SemaphoresOnce ==
    \A t \in Threads : \A i, j \in DOMAIN awaitObjects[t] :
        awaitObjects[t][i] = awaitObjects[t][j] /\ awaitObjects[t][i] \in Semaphores => i = j

\* Apart from the calls, only a wait that ends takes from a semaphore.
LEMMA WhoTakes ==
    ASSUME IInv, "debug" \notin Ops, Next, NEW s \in Semaphores, count'[s] # count[s]
    PROVE  \/ \E t \in Threads : WaitCall(t) \/ ObjectCall(t) \/ ThreadCall(t)
           \/ \E t \in Threads : Completed(t) /\ WaitEnds(t)
<1>0. TypeOK
  BY ZenonT(60) DEF IInv
<1>a. pendingStatus \in [Threads -> Int] /\ rax \in [Threads -> Int]
  BY <1>0, ZenonT(60) DEF TypeOK
<1>1. ASSUME NEW t \in Threads, SwitchSatisfied(t) PROVE Completed(t) /\ WaitEnds(t)
  <2>1. EndStatus(t) = Outcome(t)
    BY <1>a, <1>1, ZenonT(60) DEF EndStatus, SwitchSatisfied
  <2>2. Blocked(t) /\ ClearWait(t)
    BY <1>1, ZenonT(60) DEF SwitchSatisfied, Completes
  <2>3. WaitEnds(t)
    BY <1>0, <2>2, ClearWaitFacts, ZenonT(60) DEF WaitEnds
  <2> QED  BY <1>1, <2>1, <2>3, ZenonT(60) DEF SwitchSatisfied, Completed
<1>2. ASSUME PulseWake PROVE \E t \in Threads : Completed(t) /\ WaitEnds(t)
  <2>0. PICK t \in Threads : t = pulse[2]
    BY <1>2, ZenonT(60) DEF PulseWake
  <2>1. /\ Completes(t) /\ ~ConsumeFails(t) /\ Consume(t) /\ ClearWait(t)
        /\ pendingStatus' = [pendingStatus EXCEPT ![t] = Outcome(t)]
    BY <1>2, <2>0, ZenonT(60) DEF PulseWake, objectVars
  <2>2. EndStatus(t) = Outcome(t)
    BY <1>a, <2>1, ZenonT(60) DEF EndStatus, Completes
  <2>3. Blocked(t)
    BY <2>1, ZenonT(60) DEF Completes
  <2>4. WaitEnds(t)
    BY <1>0, <2>1, <2>3, ClearWaitFacts, ZenonT(60) DEF WaitEnds
  <2> QED  BY <2>1, <2>2, <2>4, ZenonT(60) DEF Completed
<1>3. ASSUME \/ PulseEnd
             \/ \E t \in Threads : \/ Preempt(t) \/ Tick(t) \/ Detach(t) \/ SwitchThrows(t)
                                   \/ SwitchReady(t) \/ SwitchUnready(t) \/ SwitchApc(t)
      PROVE  FALSE
  <2>1. count' = count
    BY <1>3, ZenonT(60) DEF PulseEnd, Preempt, Tick, Detach, SwitchThrows, SwitchReady, SwitchUnready,
       SwitchApc, objectVars
  <2> QED  BY <2>1
<1>4. ASSUME NEW t \in Threads, Activate(t) \/ Enter(t) PROVE FALSE
  BY <1>4, ZenonT(60) DEF Activate, Enter, IInv
<1> QED  BY <1>1, <1>2, <1>3, <1>4, ZenonT(60) DEF Next, Switch

\* One step ends the wait of one thread.
LEMMA OneWaitEnds ==
    ASSUME IInv, NEW t \in Threads, Completed(t), NEW u \in Threads, WaitEnds(u)
    PROVE  u = t
BY ClearWaitFacts, ZenonT(60) DEF IInv, Completed, WaitEnds

\* Nobody takes a semaphore twice.
LEMMA TakenOnce ==
    ASSUME TypeOK, SemaphoresOnce, NEW t \in Threads, NEW s \in Semaphores
    PROVE  Taken(t, s) \in {0, 1}
<1> DEFINE S == {i \in ConsumedAt(t) : awaitObjects[t][i] = s}
<1>1. ConsumedAt(t) \subseteq DOMAIN awaitObjects[t]
  BY ConsumedIsIndex, ZenonT(60) DEF SignaledAt
<1>2. \A i, j \in S : i = j
  BY <1>1, ZenonT(60) DEF SemaphoresOnce
<1>3. S = {} \/ \E i : S = {i}
  <2> HIDE DEF S
  <2>1. ASSUME NEW i \in S PROVE S = {i}
    BY <1>2, <2>1
  <2> QED  BY <2>1, ZenonT(60)
<1>4. Cardinality(S) \in {0, 1}
  <2> HIDE DEF S
  <2> QED  BY <1>3, FS_EmptySet, FS_Singleton
<1> QED  BY <1>4 DEF Taken

\* The property WakeTakesOneSignal states of one step.
LEMMA OneSignalStep ==
    ASSUME IInv, ArraysFit, SemaphoresOnce, "debug" \notin Ops, "create" \notin Ops,
           MaxCount + 1 < CountRange, Next
    PROVE  /\ \A e \in AutoEvents : \A t \in Threads : WokenBy(t, e) =>
                 /\ signaled[e] /\ ~signaled'[e]
                 /\ \A u \in Threads : WokenBy(u, e) => u = t
           /\ \A s \in Semaphores :
                 /\ count'[s] < count[s] /\ open'[s]
                 /\ ~ \E t \in Threads, n \in ReleaseCounts : NtReleaseSemaphore(t, s, n)
                 => Cardinality({t \in Threads : WokenBy(t, s)}) = count[s] - count'[s]
<1>0. TypeOK
  BY ZenonT(60) DEF IInv
<1>1. ASSUME NEW e \in AutoEvents, NEW t \in Threads, WokenBy(t, e)
      PROVE  /\ signaled[e] /\ ~signaled'[e]
             /\ \A u \in Threads : WokenBy(u, e) => u = t
  <2>1. WaitEnds(t) /\ EndStatus(t) < STATUS_USER_APC
    BY <1>1, ZenonT(60) DEF WokenBy
  <2>2. Completed(t)
    <3>1. ASSUME SwitchApc(t) PROVE FALSE
      <4>1. rax \in [Threads -> Int] /\ pendingStatus \in [Threads -> Int]
        BY <1>0, ZenonT(60) DEF TypeOK
      <4>2. EndStatus(t) = STATUS_USER_APC
        BY <3>1, <4>1, ZenonT(60) DEF SwitchApc, EndStatus
      <4> QED  BY <2>1, <4>2, SMTT(60) DEF STATUS_USER_APC
    <3> QED  BY <2>1, <3>1, HowWaitsEnd, ZenonT(60)
  <2>3. Taken(t, e) > 0
    BY <1>1, <2>1, <2>2, WokenMeansTaken, ZenonT(60)
  <2>4. e \in Events /\ e \notin Threads /\ e \notin Mutants /\ e \notin Semaphores
    BY ObjectsAssumption, ZenonT(60) DEF Events, Objects
  <2>5. signaled[e]
    BY <1>0, <2>3, <2>4, TakenFacts, ZenonT(60) DEF Signaled
  <2>6. Taken(t, e) # 0
    BY <2>3
  <2>7. ~signaled'[e]
    BY <2>2, <2>4, <2>6, ZenonT(60) DEF Completed, Consume
  <2> QED  BY <2>2, <2>5, <2>7, OneWaitEnds, ZenonT(60) DEF WokenBy
<1>2. ASSUME NEW s \in Semaphores, count'[s] < count[s], open'[s],
             ~ \E t \in Threads, n \in ReleaseCounts : NtReleaseSemaphore(t, s, n)
      PROVE  Cardinality({t \in Threads : WokenBy(t, s)}) = count[s] - count'[s]
  <2>a. count[s] \in Nat
    BY <1>0, CountsAssumption DEF TypeOK
  <2>b. count'[s] # count[s]
    BY <1>2, <2>a
  <2>1. PICK t \in Threads : Completed(t) /\ WaitEnds(t)
    BY <1>2, <2>b, WhoTakes, CallsAddCounts, ZenonT(60)
  <2>2. count'[s] = count[s] - Taken(t, s)
    BY <2>1, ZenonT(60) DEF Completed, Consume
  <2>3. Taken(t, s) = 1
    BY <1>0, <1>2, <2>a, <2>2, TakenOnce
  <2>4. WokenBy(t, s)
    <3>1. Taken(t, s) > 0
      BY <2>3
    <3> QED  BY <2>1, <3>1, WokenMeansTaken, ZenonT(60)
  <2>5. \A u \in Threads : WokenBy(u, s) <=> u = t
    BY <2>1, <2>4, OneWaitEnds, ZenonT(60) DEF WokenBy
  <2> DEFINE W == {u \in Threads : WokenBy(u, s)}
  <2>6. W = {t}
    BY <2>5
  <2>7. Cardinality(W) = 1
    <3> HIDE DEF W
    <3> QED  BY <2>6, FS_Singleton
  <2>8. count[s] - count'[s] = 1
    BY <2>a, <2>2, <2>3
  <2> QED  BY <2>7, <2>8, ZenonT(60)
<1> QED  BY <1>1, <1>2, ZenonT(60)

\* A synchronization event that ends a wait is consumed by it and ends one wait
\* only, and a semaphore gives away one unit for every wait it ends, when no
\* array names a semaphore twice and a count stays below its type's range
\* (consume_object_signal under is_thread_ready).
THEOREM OneSignalPerWake ==
    ASSUME "debug" \notin Ops, "create" \notin Ops, MaxCount + 1 < CountRange,
           \A list \in WaitLists : \A i, j \in DOMAIN list :
               list[i] = list[j] /\ list[i] \in Semaphores => i = j
    PROVE  Spec => WakeTakesOneSignal
<1>1. Init => SemaphoresOnce
  BY DEF Init, SemaphoresOnce
<1>2. ASSUME IInv, [Next]_vars, SemaphoresOnce PROVE SemaphoresOnce'
  <2> DEFINE Once(list) == \A i, j \in DOMAIN list : list[i] = list[j] /\ list[i] \in Semaphores => i = j
  <2> SUFFICES ASSUME NEW u \in Threads PROVE Once(awaitObjects'[u])
    BY ZenonT(60) DEF SemaphoresOnce
  <2>1. Once(<<>>) /\ \A o \in Waitables : Once(<<o>>)
    OBVIOUS
  <2>2. Once(awaitObjects[u])
    BY <1>2, ZenonT(60) DEF SemaphoresOnce
  <2>3. \A list \in WaitLists : Once(list)
    BY ZenonT(60)
  <2> HIDE DEF Once
  <2> QED  BY <1>2, <2>1, <2>2, <2>3, ArrayStep, ZenonT(60)
<1>3. IInv /\ ArraysFit /\ SemaphoresOnce /\ [Next]_vars =>
        [ /\ \A e \in AutoEvents : \A t \in Threads : WokenBy(t, e) =>
                /\ signaled[e] /\ ~signaled'[e]
                /\ \A u \in Threads : WokenBy(u, e) => u = t
          /\ \A s \in Semaphores :
                /\ count'[s] < count[s] /\ open'[s]
                /\ ~ \E t \in Threads, n \in ReleaseCounts : NtReleaseSemaphore(t, s, n)
                => Cardinality({t \in Threads : WokenBy(t, s)}) = count[s] - count'[s] ]_vars
  BY OneSignalStep
<1> QED  BY <1>1, <1>2, <1>3, InvariantHolds, ArraysFitHolds, PTL DEF Spec, WakeTakesOneSignal
=============================================================================
