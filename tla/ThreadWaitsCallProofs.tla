----------------------- MODULE ThreadWaitsCallProofs ------------------------
(***************************************************************************)
(* The invariant IInv of ThreadWaits is kept by NtPulseEvent, by the calls *)
(* that wait and by the calls on threads.                                  *)
(***************************************************************************)
EXTENDS ThreadWaitsSwitchProofs

----------------------------------------------------------------------------
(* The handler of NtPulseEvent.                                            *)

\* The event is reset once the waiters of a pulse are woken.
LEMMA PulseEndInv ==
    ASSUME IInv, PulseEnd
    PROVE  IInv'
<1> USE DEF lifeVars
<1>1. signaled' \in [Events -> BOOLEAN]
  BY ZenonT(60) DEF PulseEnd, IInv, TypeOK
<1>2. MutantOwnerAlive'
  BY SameMutants, SMTT(60) DEF PulseEnd, IInv
<1>3. ObjectsTypedNext
  BY <1>1, <1>2, SMTT(60) DEF PulseEnd, IInv, TypeOK, ObjectsTypedNext, mutantVars
<1> QED  BY <1>3, ObjectsOnly DEF PulseEnd

\* is_thread_ready, called for a waiter of the pulsed event, ends its wait and
\* keeps the status for the switch to it.
LEMMA PulseWakeInv ==
    ASSUME IInv, PulseWake
    PROVE  IInv'
<1> USE DEF lifeVars, apcVars
<1>0. PICK u \in Threads : u = pulse[2]
  BY SMTT(60) DEF PulseWake
<1>1. /\ u \in Threads /\ pulse \in Events \X (1 .. NumThreads + 1)
      /\ pulse' = <<pulse[1], u + 1>>
      /\ UNCHANGED <<place, exited, suspended, apcAlertable, pendingApcs, rax>>
  BY <1>0, SMTT(60) DEF PulseWake, IInv, TypeOK
<1>2. pulse' \in Events \X (1 .. NumThreads + 1)
  BY <1>1, CountsAssumption DEF Threads
<1>3. failed' \in BOOLEAN
  BY ZenonT(60) DEF PulseWake
<1>4. CASE UNCHANGED <<waitVars, pendingStatus, objectVars>>
  <2> USE DEF waitVars, objectVars, mutantVars
  <2>1. TypeOK'
    BY <1>1, <1>2, <1>3, <1>4, ZenonT(60) DEF TypeOK, IInv
  <2> QED  BY <1>1, <1>4, <2>1, SameThreads, SameMutants, SMTT(60) DEF IInv
<1>5. ASSUME Completes(u), ~ConsumeFails(u), Consume(u), ClearWait(u),
             pendingStatus' = [pendingStatus EXCEPT ![u] = Outcome(u)]
      PROVE  IInv'
  <2>1. /\ awaitObjects' \in [Threads -> Seq(Waitables)]
        /\ awaitAny' \in [Threads -> BOOLEAN]
        /\ awaitTime' \in [Threads -> {"none", "infinite", "future", "past"}]
        /\ waitingForAlert' \in [Threads -> BOOLEAN]
        /\ alerted' \in [Threads -> BOOLEAN]
        /\ ~Blocked(u)' /\ ~waitingForAlert'[u]
        /\ \A w \in Threads \ {u} : /\ Blocked(w)' <=> Blocked(w)
                                    /\ waitingForAlert'[w] = waitingForAlert[w]
                                    /\ awaitObjects'[w] = awaitObjects[w]
    BY <1>1, <1>5, ClearWaitFacts, SMTT(60) DEF IInv
  <2>2. /\ open' \in [Objects -> BOOLEAN]
        /\ signaled' \in [Events -> BOOLEAN]
        /\ locked' \in [Mutants -> Nat]
        /\ owner' \in [Mutants -> Threads \cup {NoThread}]
        /\ abandoned' \in [Mutants -> BOOLEAN]
        /\ count' \in [Semaphores -> 0 .. MaxCount]
        /\ MutantOwnerAlive'
    BY <1>1, <1>5, ConsumeInv, SMTT(60)
  <2>3. Outcome(u) \in Int
    BY <1>1, OutcomeInt, SMTT(60) DEF IInv
  <2>4. /\ pendingStatus' \in [Threads -> Int]
        /\ \A w \in Threads \ {u} : pendingStatus'[w] = pendingStatus[w]
    BY <1>1, <1>5, <2>3, SMTT(60) DEF IInv, TypeOK
  <2>5. TypeOK'
    BY <1>1, <1>2, <1>3, <2>1, <2>2, <2>4, ZenonT(60) DEF TypeOK, IInv
  <2>6. place[u] # "running"
    BY <1>1, <1>5, SMTT(60) DEF IInv, RunningIsSettled, Completes
  <2>7. RunningIsSettled' /\ PendingMeansWoken' /\ AlertWaitIsPure'
    BY <1>1, <2>1, <2>4, <2>6, ZenonT(60) DEF IInv, RunningIsSettled, PendingMeansWoken, AlertWaitIsPure
  <2> QED  BY <1>1, <2>2, <2>5, <2>7, SMTT(60) DEF IInv
<1> QED  BY <1>0, <1>4, <1>5, SMTT(60) DEF PulseWake

----------------------------------------------------------------------------
(* System calls that make their caller wait.                               *)

\* The caller gives way with what it waits for stored; the others keep theirs.
LEMMA CallerWaits ==
    ASSUME IInv, NEW t \in Threads, NEW alertable \in BOOLEAN,
           place[t] = "running", YieldThread(t, alertable),
           awaitObjects' \in [Threads -> Seq(Waitables)],
           awaitAny' \in [Threads -> BOOLEAN],
           awaitTime' \in [Threads -> {"none", "infinite", "future", "past"}],
           waitingForAlert' \in [Threads -> BOOLEAN],
           \A u \in Threads \ {t} : /\ awaitObjects'[u] = awaitObjects[u]
                                    /\ awaitTime'[u] = awaitTime[u]
                                    /\ waitingForAlert'[u] = waitingForAlert[u],
           waitingForAlert'[t] => awaitObjects'[t] = <<>> /\ ~alertable,
           suspended' \in [Threads -> 0 .. MaxSuspend],
           exited' \in [Threads -> BOOLEAN],
           ObjectsTypedNext,
           UNCHANGED <<alerted, pendingApcs, pendingStatus, pulse, failed>>
    PROVE  IInv'
<1>1. /\ place' = [place EXCEPT ![t] = "switching"]
      /\ apcAlertable' = [apcAlertable EXCEPT ![t] = alertable]
      /\ rax' = [rax EXCEPT ![t] = None]
  BY SMTT(60) DEF YieldThread
<1>2. /\ place' \in [Threads -> {"running", "switching", "entered", "out"}]
      /\ rax' \in [Threads -> Int]
      /\ place'[t] = "switching"
      /\ \A u \in Threads \ {t} : place'[u] = place[u] /\ apcAlertable'[u] = apcAlertable[u]
      /\ apcAlertable'[t] = alertable
  BY <1>1 DEF IInv, TypeOK, None
<1>3. apcAlertable' \in [Threads -> BOOLEAN]
  BY <1>1, ZenonT(60) DEF IInv, TypeOK
<1>4. TypeOK'
  BY <1>2, <1>3, ZenonT(60) DEF IInv, TypeOK, ObjectsTypedNext
<1>5. \A u \in Threads \ {t} : Blocked(u)' <=> Blocked(u)
  BY ZenonT(60) DEF Blocked
<1>6. RunningIsSettled'
  <2> SUFFICES ASSUME NEW u \in Threads, place'[u] = "running"
               PROVE  ~Blocked(u)' /\ pendingStatus'[u] = None /\ ~apcAlertable'[u]
    BY DEF RunningIsSettled
  <2>1. u # t /\ place[u] = "running"
    BY <1>2, SMTT(60)
  <2> QED  BY <1>2, <1>5, <2>1, ZenonT(60) DEF IInv, RunningIsSettled
<1>7. PendingMeansWoken'
  BY <1>5, SMTT(60) DEF IInv, RunningIsSettled, PendingMeansWoken
<1>8. AlertWaitIsPure'
  <2> SUFFICES ASSUME NEW u \in Threads, waitingForAlert'[u]
               PROVE  awaitObjects'[u] = <<>> /\ ~apcAlertable'[u]
    BY SMTT(60) DEF AlertWaitIsPure
  <2>1. CASE u = t
    BY <1>2, <2>1, SMTT(60)
  <2>2. CASE u # t
    BY <1>2, <2>2, ZenonT(60) DEF IInv, AlertWaitIsPure
  <2> QED  BY <2>1, <2>2, SMTT(60)
<1>9. \A u \in Threads : place'[u] # "entered"
  BY <1>2, ZenonT(60) DEF IInv
<1> QED  BY <1>4, <1>6, <1>7, <1>8, <1>9, SMTT(60) DEF IInv, ObjectsTypedNext

\* Objects that do not change keep their types and their owners.
LEMMA SameObjects ==
    ASSUME IInv, UNCHANGED <<exited, objectVars>>
    PROVE  ObjectsTypedNext
BY SameMutants DEF IInv, TypeOK, ObjectsTypedNext, objectVars, mutantVars

\* A wait that starts keeps the invariant.
LEMMA StartWaitInv ==
    ASSUME IInv, NEW t \in Threads, NEW list \in Seq(Waitables), NEW any \in BOOLEAN,
           NEW timeout \in Timeouts, NEW alertable \in BOOLEAN,
           place[t] = "running", StartWait(t, list, any, timeout, alertable),
           ObjectsTypedNext, UNCHANGED <<lifeVars, pulse, failed>>
    PROVE  IInv'
<1>1. /\ awaitObjects' = [awaitObjects EXCEPT ![t] = list]
      /\ awaitAny' = [awaitAny EXCEPT ![t] = any]
      /\ awaitTime' = [awaitTime EXCEPT ![t] = IF @ = "none" THEN timeout ELSE @]
      /\ YieldThread(t, alertable)
      /\ UNCHANGED <<waitingForAlert, alerted, pendingApcs, pendingStatus>>
  BY DEF StartWait
<1>2. timeout \in {"none", "infinite", "future", "past"}
  BY InputsAssumption
<1>3. awaitAny' \in [Threads -> BOOLEAN]
  BY <1>1, ZenonT(60) DEF IInv, TypeOK
<1>4. /\ awaitObjects' \in [Threads -> Seq(Waitables)]
      /\ \A u \in Threads \ {t} : awaitObjects'[u] = awaitObjects[u]
  BY <1>1, SMTT(60) DEF IInv, TypeOK
<1>5. /\ awaitTime' \in [Threads -> {"none", "infinite", "future", "past"}]
      /\ \A u \in Threads \ {t} : awaitTime'[u] = awaitTime[u]
  BY <1>1, <1>2, SMTT(60) DEF IInv, TypeOK
<1>6. ~waitingForAlert'[t] /\ waitingForAlert' \in [Threads -> BOOLEAN]
  BY <1>1, SMTT(60) DEF IInv, TypeOK, RunningIsSettled, Blocked
<1>7. suspended' \in [Threads -> 0 .. MaxSuspend] /\ exited' \in [Threads -> BOOLEAN]
  BY DEF IInv, TypeOK, lifeVars
<1> QED  BY <1>1, <1>3, <1>4, <1>5, <1>6, <1>7, CallerWaits, ZenonT(60)

\* The syscalls that wait keep the invariant.
LEMMA WaitCallInv ==
    ASSUME IInv, NEW t \in Threads, WaitCall(t)
    PROVE  IInv'
<1>0. PICK timeout \in Timeouts, alertable \in Alertables :
         \/ \E o \in Waitables : NtWaitForSingleObject(t, o, timeout, alertable)
         \/ \E list \in WaitLists, any \in BOOLEAN :
               NtWaitForMultipleObjects(t, list, any, timeout, alertable)
         \/ \E o \in Objects, w \in Waitables :
               NtSignalAndWaitForSingleObject(t, o, w, timeout, alertable)
         \/ NtDelayExecution(t, timeout, alertable)
  BY DEF WaitCall
<1>a. alertable \in BOOLEAN
  BY InputsAssumption
<1>1. ASSUME NEW o \in Waitables, NtWaitForSingleObject(t, o, timeout, alertable)
      PROVE  IInv'
  <2>1. ObjectsTypedNext
    BY <1>1, SameObjects DEF NtWaitForSingleObject, lifeVars
  <2>2. <<o>> \in Seq(Waitables)
    OBVIOUS
  <2> QED  BY <1>1, <1>a, <2>1, <2>2, StartWaitInv, ZenonT(60) DEF NtWaitForSingleObject, Guest
<1>2. ASSUME NEW list \in WaitLists, NEW any \in BOOLEAN,
             NtWaitForMultipleObjects(t, list, any, timeout, alertable)
      PROVE  IInv'
  <2>1. ObjectsTypedNext
    BY <1>2, SameObjects DEF NtWaitForMultipleObjects, lifeVars
  <2>2. list \in Seq(Waitables)
    BY InputsAssumption, SMTT(60)
  <2> QED  BY <1>2, <1>a, <2>1, <2>2, StartWaitInv, SMTT(60) DEF NtWaitForMultipleObjects, Guest
<1>3. ASSUME NEW o \in Objects, NEW w \in Waitables,
             NtSignalAndWaitForSingleObject(t, o, w, timeout, alertable)
      PROVE  IInv'
  <2>1. UNCHANGED <<lifeVars, pulse, failed>> /\ UNCHANGED exited /\ place[t] = "running"
    BY <1>3 DEF NtSignalAndWaitForSingleObject, lifeVars, Guest
  <2>2. ObjectsTypedNext
    <3>1. 1 \in 0 .. CountRange - 1
      BY CountsAssumption
    <3> QED  BY <1>3, <2>1, <3>1, SetEventTyped, ReleaseMutantTyped, ReleaseSemaphoreTyped, SMTT(60)
             DEF NtSignalAndWaitForSingleObject
  <2>3. CASE StartWait(t, <<w>>, FALSE, timeout, alertable)
    <3>1. <<w>> \in Seq(Waitables)
      OBVIOUS
    <3> QED  BY <1>a, <2>1, <2>2, <2>3, <3>1, StartWaitInv, ZenonT(60)
  <2>4. CASE UNCHANGED <<place, waitVars, apcVars, statusVars>>
    BY <2>1, <2>2, <2>4, ObjectsOnly, ZenonT(60) DEF IInv, TypeOK
  <2> QED  BY <1>3, <2>3, <2>4, ZenonT(60) DEF NtSignalAndWaitForSingleObject
<1>4. ASSUME NtDelayExecution(t, timeout, alertable) PROVE IInv'
  <2>1. /\ place[t] = "running" /\ YieldThread(t, alertable)
        /\ awaitTime' = [awaitTime EXCEPT ![t] = timeout]
        /\ UNCHANGED <<exited, suspended, awaitObjects, awaitAny, waitingForAlert, alerted,
                       pendingApcs, pendingStatus, objectVars, pulse, failed>>
    BY <1>4 DEF NtDelayExecution, Guest, lifeVars
  <2>2. ObjectsTypedNext
    BY <2>1, SameObjects
  <2>3. timeout \in {"none", "infinite", "future", "past"}
    BY InputsAssumption
  <2>4. /\ awaitTime' \in [Threads -> {"none", "infinite", "future", "past"}]
        /\ \A u \in Threads \ {t} : awaitTime'[u] = awaitTime[u]
    BY <2>1, <2>3 DEF IInv, TypeOK
  <2>5. ~waitingForAlert'[t]
    BY <2>1, ZenonT(60) DEF IInv, RunningIsSettled, Blocked
  <2>6. /\ awaitObjects' \in [Threads -> Seq(Waitables)] /\ awaitAny' \in [Threads -> BOOLEAN]
        /\ waitingForAlert' \in [Threads -> BOOLEAN]
        /\ suspended' \in [Threads -> 0 .. MaxSuspend] /\ exited' \in [Threads -> BOOLEAN]
    BY <2>1, SMTT(60) DEF IInv, TypeOK
  <2> QED  BY <1>a, <2>1, <2>2, <2>4, <2>5, <2>6, CallerWaits, ZenonT(60)
<1> QED  BY <1>0, <1>1, <1>2, <1>3, <1>4, SMTT(60)

\* The caller yields without waiting for anything: NtContinue, a thread that
\* suspends or terminates itself.
LEMMA CallerYields ==
    ASSUME IInv, NEW t \in Threads, NEW alertable \in BOOLEAN,
           place[t] = "running", YieldThread(t, alertable),
           suspended' \in [Threads -> 0 .. MaxSuspend],
           exited' \in [Threads -> BOOLEAN], ObjectsTypedNext,
           UNCHANGED <<waitVars, pendingApcs, pendingStatus, pulse, failed>>
    PROVE  IInv'
<1>1. /\ UNCHANGED <<awaitObjects, awaitAny, awaitTime, waitingForAlert, alerted>>
      /\ UNCHANGED <<pendingApcs, pendingStatus, pulse, failed>>
  BY DEF waitVars
<1>2. /\ awaitObjects' \in [Threads -> Seq(Waitables)] /\ awaitAny' \in [Threads -> BOOLEAN]
      /\ awaitTime' \in [Threads -> {"none", "infinite", "future", "past"}]
      /\ waitingForAlert' \in [Threads -> BOOLEAN]
      /\ ~waitingForAlert'[t]
  BY <1>1, SMTT(60) DEF IInv, TypeOK, RunningIsSettled, Blocked
<1> QED  BY <1>1, <1>2, CallerWaits, ZenonT(60)

\* terminate_thread leaves no mutant with a terminated owner.
LEMMA TerminateTyped ==
    ASSUME IInv, NEW S \in SUBSET Threads, Terminate(S), UNCHANGED <<open, signaled, count>>
    PROVE  ObjectsTypedNext /\ exited' \in [Threads -> BOOLEAN]
<1>0. \A u \in Threads : exited[u] \in BOOLEAN
  BY DEF IInv, TypeOK
<1>1. exited' \in [Threads -> BOOLEAN]
  BY <1>0, ZenonT(60) DEF Terminate
<1>2. \A m \in Mutants : abandoned[m] \in BOOLEAN
  BY DEF IInv, TypeOK
<1>3. abandoned' \in [Mutants -> BOOLEAN]
  BY <1>2, ZenonT(60) DEF Terminate
<1>4. locked' \in [Mutants -> Nat] /\ owner' \in [Mutants -> Threads \cup {NoThread}]
  BY SMTT(60) DEF IInv, TypeOK, Terminate
<1>5. MutantOwnerAlive'
  <2> SUFFICES ASSUME NEW m \in Mutants
               PROVE  /\ locked'[m] = 0 <=> owner'[m] = NoThread
                      /\ abandoned'[m] => locked'[m] = 0
                      /\ owner'[m] # NoThread => ~exited'[owner'[m]]
    BY SMTT(60) DEF MutantOwnerAlive
  <2>1. /\ locked[m] = 0 <=> owner[m] = NoThread
        /\ abandoned[m] => locked[m] = 0
        /\ owner[m] # NoThread => ~exited[owner[m]]
        /\ owner[m] \in Threads \cup {NoThread} /\ abandoned[m] \in BOOLEAN
    BY SMTT(60) DEF IInv, TypeOK, MutantOwnerAlive
  <2>2. /\ locked'[m] = IF owner[m] \in S THEN 0 ELSE locked[m]
        /\ owner'[m] = IF owner[m] \in S THEN NoThread ELSE owner[m]
        /\ abandoned'[m] = (abandoned[m] \/ owner[m] \in S)
        /\ \A u \in Threads : exited'[u] = (exited[u] \/ u \in S)
    BY ZenonT(60) DEF Terminate
  <2>3. CASE owner[m] \in S
    BY <2>1, <2>2, <2>3
  <2>4. CASE owner[m] \notin S
    BY <2>1, <2>2, <2>4, ZenonT(60)
  <2> QED  BY <2>3, <2>4, SMTT(60)
<1> QED  BY <1>1, <1>3, <1>4, <1>5, SMTT(60) DEF IInv, TypeOK, ObjectsTypedNext

----------------------------------------------------------------------------
(* System calls on threads.                                                *)

\* A call that changes, of the threads, only alerts, queued APCs, suspend
\* counts, exit statuses and returned statuses.
LEMMA CallerGoesOn ==
    ASSUME IInv, ObjectsTypedNext,
           alerted' \in [Threads -> BOOLEAN], pendingApcs' \in [Threads -> 0 .. MaxApcs],
           suspended' \in [Threads -> 0 .. MaxSuspend], exited' \in [Threads -> BOOLEAN],
           rax' \in [Threads -> Int],
           UNCHANGED <<place, awaitObjects, awaitAny, awaitTime, waitingForAlert,
                       apcAlertable, pendingStatus, pulse, failed>>
    PROVE  IInv'
<1>1. TypeOK'
  BY ZenonT(60) DEF IInv, TypeOK, ObjectsTypedNext
<1> QED  BY <1>1, SameThreads DEF IInv, ObjectsTypedNext

\* NtAlertThreadByThreadId and NtWaitForAlertByThreadId keep the invariant.
LEMMA AlertCallInv ==
    ASSUME IInv, NEW t \in Threads,
           \/ \E timeout \in Timeouts : NtWaitForAlertByThreadId(t, timeout)
           \/ \E u \in Threads : NtAlertThreadByThreadId(t, u)
    PROVE  IInv'
<1> USE DEF lifeVars
<1>1. ASSUME NEW u \in Threads, NtAlertThreadByThreadId(t, u) PROVE IInv'
  <2>1. ObjectsTypedNext
    BY <1>1, SameObjects DEF NtAlertThreadByThreadId
  <2>2. alerted' \in [Threads -> BOOLEAN]
    BY <1>1, ZenonT(60) DEF IInv, TypeOK, NtAlertThreadByThreadId
  <2> QED  BY <1>1, <2>1, <2>2, CallerGoesOn, ZenonT(60)
           DEF NtAlertThreadByThreadId, apcVars, statusVars, IInv, TypeOK
<1>2. ASSUME NEW timeout \in Timeouts, NtWaitForAlertByThreadId(t, timeout) PROVE IInv'
  <2>1. /\ place[t] = "running"
        /\ UNCHANGED <<exited, suspended, awaitObjects, awaitAny, pendingApcs,
                       pendingStatus, objectVars, pulse, failed>>
    BY <1>2 DEF NtWaitForAlertByThreadId, Guest
  <2>2. ObjectsTypedNext
    BY <2>1, SameObjects, SMTT(60)
  <2>3. /\ awaitObjects' \in [Threads -> Seq(Waitables)] /\ awaitAny' \in [Threads -> BOOLEAN]
        /\ suspended' \in [Threads -> 0 .. MaxSuspend] /\ exited' \in [Threads -> BOOLEAN]
        /\ pendingApcs' \in [Threads -> 0 .. MaxApcs]
    BY <2>1, SMTT(60) DEF IInv, TypeOK
  <2>4. CASE alerted[t]
    <3>1. /\ alerted' = [alerted EXCEPT ![t] = FALSE]
          /\ rax' = [rax EXCEPT ![t] = STATUS_ALERTED]
          /\ UNCHANGED <<place, waitingForAlert, awaitTime, apcAlertable>>
      BY <1>2, <2>4 DEF NtWaitForAlertByThreadId
    <3>2. alerted' \in [Threads -> BOOLEAN]
      BY <3>1, ZenonT(60) DEF IInv, TypeOK
    <3>3. rax' \in [Threads -> Int]
      BY <3>1, SMTT(60) DEF IInv, TypeOK, STATUS_ALERTED
    <3> QED  BY <2>1, <2>2, <2>3, <3>1, <3>2, <3>3, CallerGoesOn, SMTT(60)
  <2>5. CASE ~alerted[t]
    <3>1. /\ waitingForAlert' = [waitingForAlert EXCEPT ![t] = TRUE]
          /\ awaitTime' = [awaitTime EXCEPT ![t] = IF @ = "none" THEN timeout ELSE @]
          /\ YieldThread(t, FALSE)
          /\ UNCHANGED alerted
      BY <1>2, <2>5, ZenonT(60) DEF NtWaitForAlertByThreadId
    <3>2. waitingForAlert' \in [Threads -> BOOLEAN]
      BY <3>1, ZenonT(60) DEF IInv, TypeOK
    <3>3. timeout \in {"none", "infinite", "future", "past"}
      BY InputsAssumption
    <3>4. /\ awaitTime' \in [Threads -> {"none", "infinite", "future", "past"}]
          /\ \A u \in Threads \ {t} : /\ awaitTime'[u] = awaitTime[u]
                                      /\ waitingForAlert'[u] = waitingForAlert[u]
      BY <3>1, <3>3, SMTT(60) DEF IInv, TypeOK
    <3>5. awaitObjects'[t] = <<>>
      BY <2>1, SMTT(60) DEF IInv, RunningIsSettled, Blocked
    <3> QED  BY <2>1, <2>2, <2>3, <3>1, <3>2, <3>4, <3>5, CallerWaits, ZenonT(60)
  <2> QED  BY <2>4, <2>5, SMTT(60)
<1> QED  BY <1>1, <1>2, SMTT(60)

\* Suspending and resuming threads keeps the invariant.
LEMMA SuspendCallInv ==
    ASSUME IInv, NEW t \in Threads, NEW u \in Threads,
           NtSuspendThread(t, u) \/ NtResumeThread(t, u)
    PROVE  IInv'
<1>1. /\ place[t] = "running" /\ pulse' = pulse /\ failed' = failed
      /\ UNCHANGED <<exited, waitVars, pendingApcs, pendingStatus, objectVars>>
      /\ YieldThread(t, FALSE) \/ UNCHANGED <<place, apcAlertable, rax>>
  BY ZenonT(60) DEF NtSuspendThread, NtResumeThread, Guest, apcVars, statusVars
<1>2. suspended' \in [Threads -> 0 .. MaxSuspend]
  <2>1. suspended \in [Threads -> 0 .. MaxSuspend] /\ MaxSuspend \in Nat
    BY CountsAssumption DEF IInv, TypeOK
  <2>2. \/ suspended[u] < MaxSuspend /\ suspended' = [suspended EXCEPT ![u] = @ + 1]
        \/ suspended[u] > 0 /\ suspended' = [suspended EXCEPT ![u] = @ - 1]
    BY ZenonT(60) DEF NtSuspendThread, NtResumeThread
  <2> QED  BY <2>1, <2>2
<1>3. ObjectsTypedNext
  BY <1>1, SameObjects
<1>4. exited' \in [Threads -> BOOLEAN]
  BY <1>1 DEF IInv, TypeOK
<1>5. CASE YieldThread(t, FALSE)
  BY <1>1, <1>2, <1>3, <1>4, <1>5, CallerYields, ZenonT(60)
<1>6. CASE UNCHANGED <<place, apcAlertable, rax>>
  BY <1>1, <1>2, <1>3, <1>4, <1>6, CallerGoesOn, ZenonT(60) DEF IInv, TypeOK, waitVars
<1> QED  BY <1>1, <1>5, <1>6, ZenonT(60)

\* Termination of a thread or of the process keeps the invariant.
LEMMA TerminateCallInv ==
    ASSUME IInv, NEW t \in Threads,
           NtTerminateProcess(t) \/ \E u \in Threads : NtTerminateThread(t, u)
    PROVE  IInv'
<1>1. PICK S \in SUBSET Threads : Terminate(S)
  BY ZenonT(60) DEF NtTerminateProcess, NtTerminateThread
<1>2. /\ place[t] = "running"
      /\ UNCHANGED <<suspended, waitVars, pendingApcs, pendingStatus, open, signaled,
                     count, pulse, failed>>
      /\ YieldThread(t, FALSE) \/ UNCHANGED <<place, apcAlertable, rax>>
  BY ZenonT(60) DEF NtTerminateProcess, NtTerminateThread, Guest, apcVars, statusVars
<1>3. ObjectsTypedNext /\ exited' \in [Threads -> BOOLEAN]
  BY <1>1, <1>2, TerminateTyped
<1>4. suspended' \in [Threads -> 0 .. MaxSuspend]
  BY <1>2 DEF IInv, TypeOK
<1>5. CASE YieldThread(t, FALSE)
  BY <1>2, <1>3, <1>4, <1>5, CallerYields, ZenonT(60)
<1>6. CASE UNCHANGED <<place, apcAlertable, rax>>
  BY <1>2, <1>3, <1>4, <1>6, CallerGoesOn, ZenonT(60) DEF IInv, TypeOK, waitVars
<1> QED  BY <1>2, <1>5, <1>6, ZenonT(60)

\* Every syscall on threads keeps the invariant.
LEMMA ThreadCallInv ==
    ASSUME IInv, NEW t \in Threads, ThreadCall(t)
    PROVE  IInv'
<1>1. CASE \/ \E timeout \in Timeouts : NtWaitForAlertByThreadId(t, timeout)
           \/ \E u \in Threads : NtAlertThreadByThreadId(t, u)
  BY <1>1, AlertCallInv, SMTT(60)
<1>2. CASE NtContinue(t)
  <2>1. /\ place[t] = "running" /\ YieldThread(t, TRUE)
        /\ UNCHANGED <<exited, suspended, waitVars, pendingApcs, pendingStatus,
                       objectVars, pulse, failed>>
    BY <1>2, ZenonT(60) DEF NtContinue, Guest, lifeVars
  <2>2. ObjectsTypedNext
    BY <2>1, SameObjects
  <2>3. suspended' \in [Threads -> 0 .. MaxSuspend] /\ exited' \in [Threads -> BOOLEAN]
    BY <2>1, SMTT(60) DEF IInv, TypeOK
  <2> QED  BY <2>1, <2>2, <2>3, CallerYields, ZenonT(60)
<1>3. ASSUME NEW u \in Threads, NtQueueApcThread(t, u) PROVE IInv'
  <2>1. /\ pendingApcs[u] < MaxApcs /\ pendingApcs' = [pendingApcs EXCEPT ![u] = @ + 1]
        /\ UNCHANGED <<place, exited, suspended, awaitObjects, awaitAny, awaitTime,
                       waitingForAlert, alerted, apcAlertable, pendingStatus, rax,
                       objectVars, pulse, failed>>
    BY <1>3 DEF NtQueueApcThread, lifeVars, waitVars, statusVars
  <2>2. ObjectsTypedNext
    BY <2>1, SameObjects, SMTT(60)
  <2>3. pendingApcs' \in [Threads -> 0 .. MaxApcs]
    BY <2>1, CountsAssumption, SMTT(60) DEF IInv, TypeOK
  <2>4. /\ alerted' \in [Threads -> BOOLEAN] /\ rax' \in [Threads -> Int]
        /\ suspended' \in [Threads -> 0 .. MaxSuspend] /\ exited' \in [Threads -> BOOLEAN]
    BY <2>1, SMTT(60) DEF IInv, TypeOK
  <2> QED  BY <2>1, <2>2, <2>3, <2>4, CallerGoesOn, SMTT(60)
<1>4. ASSUME NEW u \in Threads, NtSuspendThread(t, u) \/ NtResumeThread(t, u) PROVE IInv'
  BY <1>4, SuspendCallInv
<1>5. CASE NtTerminateProcess(t) \/ \E u \in Threads : NtTerminateThread(t, u)
  BY <1>5, TerminateCallInv, SMTT(60)
<1> QED  BY <1>1, <1>2, <1>3, <1>4, <1>5, SMTT(60) DEF ThreadCall

----------------------------------------------------------------------------
(* What the calls do to handle arrays, mutants and semaphores.             *)

\* The array a thread waits for is its old one, none, one object, or one that
\* NtWaitForMultipleObjects was given.
LEMMA ArrayStep ==
    ASSUME IInv, "debug" \notin Ops, [Next]_vars, NEW u \in Threads
    PROVE  \/ awaitObjects'[u] = awaitObjects[u]
           \/ awaitObjects'[u] = <<>>
           \/ \E o \in Waitables : awaitObjects'[u] = <<o>>
           \/ awaitObjects'[u] \in WaitLists
<1> DEFINE Goal == \/ awaitObjects'[u] = awaitObjects[u]
                   \/ awaitObjects'[u] = <<>>
                   \/ \E o \in Waitables : awaitObjects'[u] = <<o>>
                   \/ awaitObjects'[u] \in WaitLists
<1>0. awaitObjects \in [Threads -> Seq(Waitables)]
  BY ZenonT(60) DEF IInv, TypeOK
<1>1. ASSUME NEW t \in Threads, WaitCall(t) PROVE Goal
  <2>1. \/ awaitObjects' = awaitObjects
        \/ \E o \in Waitables : awaitObjects' = [awaitObjects EXCEPT ![t] = <<o>>]
        \/ \E list \in WaitLists : awaitObjects' = [awaitObjects EXCEPT ![t] = list]
    BY <1>1, ZenonT(60) DEF WaitCall, NtWaitForSingleObject, NtWaitForMultipleObjects,
       NtSignalAndWaitForSingleObject, NtDelayExecution, StartWait, waitVars
  <2> QED  BY <1>0, <2>1, ZenonT(60)
<1>2. ASSUME NEW t \in Threads, ObjectCall(t) PROVE Goal
  <2>1. awaitObjects' = awaitObjects
    BY <1>2, ZenonT(60) DEF ObjectCall, NtSetEvent, NtClearEvent, NtPulseEvent, NtReleaseMutant,
       NtReleaseSemaphore, NtCreateObject, NtClose, waitVars
  <2> QED  BY <2>1
<1>3. ASSUME NEW t \in Threads, ThreadCall(t) PROVE Goal
  <2>1. awaitObjects' = awaitObjects
    BY <1>3, ZenonT(60) DEF ThreadCall, NtWaitForAlertByThreadId, NtContinue, NtTerminateProcess,
       NtAlertThreadByThreadId, NtQueueApcThread, NtSuspendThread, NtResumeThread,
       NtTerminateThread, waitVars
  <2> QED  BY <2>1
<1>4. ASSUME NEW t \in Threads, Preempt(t) \/ Tick(t) \/ Detach(t) \/ SwitchThrows(t)
                                \/ SwitchReady(t) \/ SwitchUnready(t)
      PROVE  Goal
  BY <1>4, ZenonT(60) DEF Preempt, Tick, Detach, SwitchThrows, SwitchReady, SwitchUnready, waitVars
<1>5. ASSUME NEW t \in Threads, ClearWait(t) PROVE Goal
  BY <1>0, <1>5, ZenonT(60) DEF ClearWait
<1>6. ASSUME NEW t \in Threads, SwitchSatisfied(t) \/ SwitchApc(t) PROVE Goal
  BY <1>5, <1>6, ZenonT(60) DEF SwitchSatisfied, SwitchApc
<1>7. ASSUME PulseWake PROVE Goal
  BY <1>5, <1>7, ZenonT(60) DEF PulseWake, waitVars
<1>8. ASSUME PulseEnd \/ UNCHANGED vars PROVE Goal
  BY <1>8, ZenonT(60) DEF PulseEnd, vars, waitVars
<1>9. ASSUME NEW t \in Threads, Activate(t) \/ Enter(t) PROVE FALSE
  BY <1>9, ZenonT(60) DEF Activate, Enter, IInv
<1> QED  BY <1>1, <1>2, <1>3, <1>4, <1>6, <1>7, <1>8, <1>9, ZenonT(60) DEF Next, Switch

\* The system calls take a mutant away from a thread and give it to nobody.
LEMMA CallsFreeMutants ==
    ASSUME IInv, "create" \notin Ops, NEW t \in Threads,
           WaitCall(t) \/ ObjectCall(t) \/ ThreadCall(t), NEW m \in Mutants
    PROVE  owner'[m] \in {owner[m], NoThread}
<1>0. owner \in [Mutants -> Threads \cup {NoThread}] /\ locked \in [Mutants -> Nat]
  BY ZenonT(60) DEF IInv, TypeOK
<1>1. ASSUME NEW o \in Mutants, ReleaseMutant(t, o) PROVE owner'[m] \in {owner[m], NoThread}
  BY <1>0, <1>1, ZenonT(60) DEF ReleaseMutant
<1>2. ASSUME NEW S, Terminate(S) PROVE owner'[m] \in {owner[m], NoThread}
  BY <1>0, <1>2, ZenonT(60) DEF Terminate
<1>3. CASE WaitCall(t)
  BY <1>1, <1>3, ZenonT(60) DEF WaitCall, NtWaitForSingleObject, NtWaitForMultipleObjects,
     NtSignalAndWaitForSingleObject, NtDelayExecution, SetEvent, ReleaseSemaphore, objectVars, mutantVars
<1>4. ASSUME NEW o \in Objects, NtClose(t, o) PROVE owner'[m] \in {owner[m], NoThread}
  BY <1>4, ZenonT(60) DEF NtClose
<1>5. CASE ObjectCall(t)
  BY <1>1, <1>4, <1>5, ZenonT(60) DEF ObjectCall, NtSetEvent, NtClearEvent, NtPulseEvent, NtReleaseMutant,
     NtReleaseSemaphore, NtCreateObject, Guest, SetEvent, ReleaseSemaphore, objectVars, mutantVars
<1>6. CASE ThreadCall(t)
  BY <1>2, <1>6, ZenonT(60) DEF ThreadCall, NtWaitForAlertByThreadId, NtContinue, NtTerminateProcess,
     NtAlertThreadByThreadId, NtQueueApcThread, NtSuspendThread, NtResumeThread,
     NtTerminateThread, objectVars, mutantVars
<1> QED  BY <1>3, <1>5, <1>6

\* What the system calls do to a semaphore's count: NtReleaseSemaphore and
\* NtSignalAndWaitForSingleObject add to it, NtClose takes the object away.
LEMMA CallsAddCounts ==
    ASSUME IInv, "create" \notin Ops, MaxCount + 1 < CountRange, NEW t \in Threads,
           WaitCall(t) \/ ObjectCall(t) \/ ThreadCall(t), NEW s \in Semaphores,
           count'[s] < count[s]
    PROVE  \/ ~open'[s]
           \/ \E n \in ReleaseCounts : NtReleaseSemaphore(t, s, n)
<1>0. count \in [Semaphores -> 0 .. MaxCount] /\ open \in [Objects -> BOOLEAN] /\ Semaphores \subseteq Objects
  BY ZenonT(60) DEF IInv, TypeOK, Objects
<1>a. MaxCount \in Nat /\ CountRange \in Nat
  BY CountsAssumption
<1>b. count[s] \in Nat /\ ~(count[s] < count[s])
  BY <1>0, <1>a
<1>1. ASSUME NEW o \in Semaphores, ReleaseSemaphore(o, 1) PROVE FALSE
  <2>1. count'[s] = IF s = o THEN (count[o] + 1) % CountRange ELSE count[s]
    BY <1>0, <1>1, ZenonT(60) DEF ReleaseSemaphore
  <2>2. count[o] \in 0 .. MaxCount
    BY <1>0
  <2>3. (count[o] + 1) % CountRange = count[o] + 1
    BY <1>a, <2>2, SMTT(60)
  <2> QED  BY <1>b, <2>1, <2>2, <2>3, SMTT(60)
<1>2. CASE WaitCall(t)
  <2>1. count' = count \/ \E o \in Semaphores : ReleaseSemaphore(o, 1)
    BY <1>2, ZenonT(60) DEF WaitCall, NtWaitForSingleObject, NtWaitForMultipleObjects,
       NtSignalAndWaitForSingleObject, NtDelayExecution, SetEvent, ReleaseMutant, objectVars
  <2> QED  BY <1>b, <1>1, <2>1, ZenonT(60)
<1>3. ASSUME NEW o \in Objects, NtClose(t, o) PROVE ~open'[s]
  <2>1. count'[s] = IF s = o THEN 0 ELSE count[s]
    BY <1>3, ZenonT(60) DEF NtClose
  <2>2. s = o
    BY <1>b, <2>1, ZenonT(60)
  <2> QED  BY <1>0, <1>3, <2>2, ZenonT(60) DEF NtClose
<1>4. ASSUME NEW o \in Semaphores, NEW n \in ReleaseCounts, NtReleaseSemaphore(t, o, n) PROVE o = s
  <2>1. count' = [count EXCEPT ![o] = (@ + n) % CountRange]
    BY <1>4, ZenonT(60) DEF NtReleaseSemaphore, ReleaseSemaphore
  <2> QED  BY <1>0, <1>b, <2>1, ZenonT(60)
<1>5. CASE ObjectCall(t)
  <2>1. \/ count' = count
        \/ \E o \in Objects : NtClose(t, o)
        \/ \E o \in Semaphores, n \in ReleaseCounts : NtReleaseSemaphore(t, o, n)
    BY <1>5, ZenonT(60) DEF ObjectCall, NtSetEvent, NtClearEvent, NtPulseEvent, NtReleaseMutant,
       NtCreateObject, Guest, SetEvent, ReleaseMutant, objectVars
  <2> QED  BY <1>b, <1>3, <1>4, <2>1, ZenonT(60)
<1>6. CASE ThreadCall(t)
  <2>1. count' = count
    BY <1>6, ZenonT(60) DEF ThreadCall, NtWaitForAlertByThreadId, NtContinue, NtTerminateProcess,
       NtAlertThreadByThreadId, NtQueueApcThread, NtSuspendThread, NtResumeThread,
       NtTerminateThread, Terminate, objectVars
  <2> QED  BY <1>b, <2>1, ZenonT(60)
<1> QED  BY <1>2, <1>5, <1>6
=============================================================================
