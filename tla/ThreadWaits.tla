---------------------------- MODULE ThreadWaits ----------------------------
(***************************************************************************)
(* How guest threads wait and are woken: dispatcher objects (events,       *)
(* mutants, semaphores, threads), alerts, user APCs, time-outs and         *)
(* suspension, and the scheduler's decision whether a thread may run.      *)
(*                                                                         *)
(* Every step holds the kernel lock, so a handler is one action.  A thread *)
(* is loaded on a vCPU ("running" in guest code, "switching" once its vCPU *)
(* has to look for a thread, "entered" before the check of the run loop)   *)
(* or it is "out".  Which vCPU it is does not matter here, only that there *)
(* are NumVcpus of them; VcpuScheduler has the vCPUs themselves.           *)
(***************************************************************************)
EXTENDS Integers, Sequences, FiniteSets, FiniteSetsExt

CONSTANTS
    NumVcpus,       \* vcpu_count_
    NumThreads,     \* bound: threads of the process
    AutoEvents,     \* slots for events of type SynchronizationEvent
    ManualEvents,   \* slots for events of type NotificationEvent
    Mutants,
    Semaphores,
    MaxCount,       \* max_count of every semaphore
    CountRange,     \* 2^32 in the code: counts are uint32_t
    MaxSuspend,     \* MAXIMUM_SUSPEND_COUNT, 0x7F in the code
    ReleaseCounts,  \* bound: release counts guest code passes
    WaitLists,      \* bound: handle arrays guest code passes
    Timeouts,       \* bound: time-outs guest code passes
    Alertables,     \* bound: whether guest code waits alertably
    MaxApcs,        \* bound: user APCs queued to one thread
    MaxRecursion,   \* bound: recursive acquisitions of a mutant
    Ops             \* what guest code and the debugger do in this instance

Threads == 1 .. NumThreads
Events  == AutoEvents \cup ManualEvents
Objects == Events \cup Mutants \cup Semaphores      \* what NtClose can erase
Waitables == Objects \cup Threads
NoThread  == 0

AllOps == {"wait", "wait_multiple", "signal_wait", "set", "clear", "pulse",
           "release", "alert", "delay", "apc", "continue", "suspend",
           "terminate", "create", "close", "debug"}

ASSUME CountsAssumption ==
    /\ NumVcpus \in Nat \ {0} /\ NumThreads \in Nat \ {0}
    /\ MaxCount \in Nat \ {0} /\ CountRange \in Nat /\ MaxCount < CountRange
    /\ MaxSuspend \in Nat \ {0} /\ MaxApcs \in Nat /\ MaxRecursion \in Nat
    /\ ReleaseCounts \subseteq 0 .. CountRange - 1

ASSUME ObjectsAssumption ==
    /\ AutoEvents \cap ManualEvents = {}
    /\ Mutants \cap (Events \cup Semaphores) = {}
    /\ Semaphores \cap Events = {}
    /\ Threads \cap Objects = {}

MaximumWaitObjects == 64

\* NtWaitForMultipleObjects rejects an empty and a longer array.
ASSUME InputsAssumption ==
    /\ WaitLists \subseteq Seq(Waitables) \ {<<>>}
    /\ \A list \in WaitLists : Len(list) <= MaximumWaitObjects
    /\ Timeouts \subseteq {"none", "infinite", "future"}
    /\ Alertables \subseteq BOOLEAN
    /\ Ops \subseteq AllOps

\* NTSTATUS values a wait can end with; None is an empty std::optional.
None                    == -1
STATUS_WAIT_0           == 0      \* also STATUS_SUCCESS
STATUS_ABANDONED_WAIT_0 == 128
STATUS_USER_APC         == 192
STATUS_ALERTED          == 257
STATUS_TIMEOUT          == 258

VARIABLES
    place,            \* where the thread is: see above
    exited,           \* exit_status.has_value()
    suspended,        \* the suspend count
    awaitObjects,     \* await_objects
    awaitAny,         \* await_any
    awaitTime,        \* await_time: none, infinite, future or past
    waitingForAlert,  \* waiting_for_alert
    alerted,          \* alerted
    apcAlertable,     \* apc_alertable
    pendingApcs,      \* length of pending_apcs
    pendingStatus,    \* pending_status
    rax,              \* status the thread's last wait returned to the guest
    open,             \* the handle slots in use
    signaled,         \* event::signaled
    locked,           \* mutant::locked_count
    owner,            \* mutant::owning_thread_id
    abandoned,        \* mutant::abandoned
    count,            \* semaphore::current_count
    pulse,            \* NtPulseEvent in progress: <<event, next thread>>
    failed            \* "Failed to consume object signal!" was thrown

waitVars   == <<awaitObjects, awaitAny, awaitTime, waitingForAlert, alerted>>
statusVars == <<pendingStatus, rax>>
apcVars    == <<apcAlertable, pendingApcs>>
lifeVars   == <<exited, suspended>>
mutantVars == <<locked, owner, abandoned>>
objectVars == <<open, signaled, mutantVars, count>>
vars == <<place, lifeVars, waitVars, apcVars, statusVars, objectVars, pulse,
          failed>>

Init ==
    /\ place = [t \in Threads |-> IF t = 1 THEN "running" ELSE "out"]
    /\ exited = [t \in Threads |-> FALSE]
    /\ suspended = [t \in Threads |-> 0]
    /\ awaitObjects = [t \in Threads |-> <<>>]
    /\ awaitAny = [t \in Threads |-> FALSE]
    /\ awaitTime = [t \in Threads |-> "none"]
    /\ waitingForAlert = [t \in Threads |-> FALSE]
    /\ alerted = [t \in Threads |-> FALSE]
    /\ apcAlertable = [t \in Threads |-> FALSE]
    /\ pendingApcs = [t \in Threads |-> 0]
    /\ pendingStatus = [t \in Threads |-> None]
    /\ rax = [t \in Threads |-> None]
    /\ open = [o \in Objects |-> TRUE]
    /\ signaled = [e \in Events |-> FALSE]
    /\ locked = [m \in Mutants |-> 0]
    /\ owner = [m \in Mutants |-> NoThread]
    /\ abandoned = [m \in Mutants |-> FALSE]
    /\ count \in [Semaphores -> {0, MaxCount}]
    /\ pulse = <<>>
    /\ failed = FALSE

----------------------------------------------------------------------------
(* emulator_thread::is_thread_ready                                        *)

Awaited(t) == {awaitObjects[t][i] : i \in DOMAIN awaitObjects[t]}

Blocked(t) == waitingForAlert[t] \/ awaitObjects[t] # <<>> \/ awaitTime[t] # "none"

HasPendingAlertableApc(t) == apcAlertable[t] /\ pendingApcs[t] > 0

\* Mutant: any queued APC holds the time-out back, delivered or not.
TimedOutNoApc(t) == awaitTime[t] = "past" /\ pendingApcs[t] = 0

\* complete_if_timed_out: a pending APC takes precedence over the time-out.
TimedOut(t) == awaitTime[t] = "past" /\ ~HasPendingAlertableApc(t)

\* Mutant: a semaphore without a count left is signaled.
SignaledAtZero(t, o) ==
    \/ o \in Threads /\ exited[o]
    \/ /\ o \in Objects
       /\ open[o]
       /\ o \in Mutants => abandoned[o] \/ locked[o] = 0 \/ owner[o] = t
       /\ o \in Events => signaled[o]

\* Mutant: a mutant is signaled whoever owns it.
SignaledToAll(t, o) ==
    \/ o \in Threads /\ exited[o]
    \/ /\ o \in Objects
       /\ open[o]
       /\ o \in Semaphores => count[o] > 0
       /\ o \in Events => signaled[o]

\* observe_object_signal: a closed object is never signaled.
Signaled(t, o) ==
    \/ o \in Threads /\ exited[o]
    \/ /\ o \in Objects
       /\ open[o]
       /\ \/ o \in Events /\ signaled[o]
          \/ o \in Semaphores /\ count[o] > 0
          \/ /\ o \in Mutants
             /\ abandoned[o] \/ locked[o] = 0 \/ owner[o] = t

\* Indices of the awaited objects that are signaled, and the abandoned ones.
SignaledAt(t)  == {i \in DOMAIN awaitObjects[t] : Signaled(t, awaitObjects[t][i])}
AbandonedAt(t) == {i \in SignaledAt(t) : /\ awaitObjects[t][i] \in Mutants
                                         /\ abandoned[awaitObjects[t][i]]}

\* The wait on objects is satisfied.
Satisfied(t) ==
    /\ awaitObjects[t] # <<>>
    /\ IF awaitAny[t] THEN SignaledAt(t) # {}
                      ELSE SignaledAt(t) = DOMAIN awaitObjects[t]

\* The indices whose objects consume_object_signal is applied to.
ConsumedAt(t) ==
    IF ~Satisfied(t) \/ waitingForAlert[t] THEN {}
    ELSE IF awaitAny[t] THEN {Min(SignaledAt(t))}
    ELSE SignaledAt(t)

\* How often an object is consumed: an array may name it twice.
Taken(t, o) == Cardinality({i \in ConsumedAt(t) : awaitObjects[t][i] = o})

\* The status of a satisfied wait: the index is counted from 0.
SatisfiedStatus(t) ==
    LET a == AbandonedAt(t) \cap ConsumedAt(t)
    IN  IF a # {} THEN STATUS_ABANDONED_WAIT_0 + Min(a) - 1
        ELSE IF awaitAny[t] THEN STATUS_WAIT_0 + Min(SignaledAt(t)) - 1
        ELSE STATUS_WAIT_0

\* Mutant: the time-out is looked at before the objects.
OutcomeTimeFirst(t) ==
    IF waitingForAlert[t] /\ alerted[t] THEN STATUS_ALERTED
    ELSE IF TimedOut(t) /\ Awaited(t) # {} THEN STATUS_TIMEOUT
    ELSE IF ConsumedAt(t) # {} THEN SatisfiedStatus(t)
    ELSE IF TimedOut(t) THEN STATUS_WAIT_0 ELSE None

\* Mutant: a wait for an alert only looks at the time-out.
OutcomeNoAlert(t) ==
    IF ConsumedAt(t) # {} THEN SatisfiedStatus(t)
    ELSE IF ~TimedOut(t) THEN None ELSE STATUS_TIMEOUT

\* The status mark_as_ready is called with, or None while the wait goes on.
Outcome(t) ==
    IF waitingForAlert[t] /\ alerted[t] THEN STATUS_ALERTED
    ELSE IF ConsumedAt(t) # {} THEN SatisfiedStatus(t)
    ELSE IF ~TimedOut(t) THEN None
    ELSE IF waitingForAlert[t] \/ awaitObjects[t] # <<>> THEN STATUS_TIMEOUT
    ELSE STATUS_WAIT_0

Runnable(t) == ~exited[t] /\ suspended[t] = 0

\* is_thread_ready ends the wait of t.
Completes(t) == Runnable(t) /\ Blocked(t) /\ Outcome(t) # None

IsThreadReady(t) == Runnable(t) /\ (Blocked(t) => Outcome(t) # None)

\* consume_object_signal finds nothing left to consume and an exception is
\* thrown; a mutant never runs out, because its owner acquires it again.
ConsumeFails(t) ==
    \/ \E e \in AutoEvents : Taken(t, e) > 1
    \/ \E s \in Semaphores : Taken(t, s) > count[s]

\* Mutant: a synchronization event stays signaled.
ConsumeKeeping(t) ==
    /\ count' = [s \in Semaphores |-> count[s] - Taken(t, s)]
    /\ locked' = [m \in Mutants |-> locked[m] + Taken(t, m)]
    /\ owner' = [m \in Mutants |-> IF Taken(t, m) > 0 THEN t ELSE owner[m]]
    /\ abandoned' = [m \in Mutants |-> abandoned[m] /\ Taken(t, m) = 0]
    /\ UNCHANGED <<open, signaled>>

\* consume_object_signal for every consumed object.
Consume(t) ==
    /\ signaled' = [e \in Events |-> signaled[e] /\ (e \in AutoEvents => Taken(t, e) = 0)]
    /\ count' = [s \in Semaphores |-> count[s] - Taken(t, s)]
    /\ locked' = [m \in Mutants |-> locked[m] + Taken(t, m)]
    /\ owner' = [m \in Mutants |-> IF Taken(t, m) > 0 THEN t ELSE owner[m]]
    /\ abandoned' = [m \in Mutants |-> abandoned[m] /\ Taken(t, m) = 0]
    /\ open' = open

\* Mutant: the deadline of the ended wait is kept.
ClearWaitKeepingTime(t) ==
    /\ awaitObjects' = [awaitObjects EXCEPT ![t] = <<>>]
    /\ awaitAny' = [awaitAny EXCEPT ![t] = FALSE]
    /\ alerted' = [alerted EXCEPT ![t] = @ /\ ~waitingForAlert[t]]
    /\ waitingForAlert' = [waitingForAlert EXCEPT ![t] = FALSE]
    /\ UNCHANGED awaitTime

\* Mutant: the alert goes with whatever wait ends.
ClearWaitAndAlert(t) ==
    /\ awaitTime' = [awaitTime EXCEPT ![t] = "none"]
    /\ awaitObjects' = [awaitObjects EXCEPT ![t] = <<>>]
    /\ awaitAny' = [awaitAny EXCEPT ![t] = FALSE]
    /\ alerted' = [alerted EXCEPT ![t] = FALSE]
    /\ waitingForAlert' = [waitingForAlert EXCEPT ![t] = FALSE]

\* mark_as_ready, but for pending_status.  await_any keeps its old value in
\* the code; it is read only with await_objects.
ClearWait(t) ==
    /\ awaitTime' = [awaitTime EXCEPT ![t] = "none"]
    /\ awaitObjects' = [awaitObjects EXCEPT ![t] = <<>>]
    /\ awaitAny' = [awaitAny EXCEPT ![t] = FALSE]
    /\ alerted' = [alerted EXCEPT ![t] = @ /\ ~waitingForAlert[t]]
    /\ waitingForAlert' = [waitingForAlert EXCEPT ![t] = FALSE]

----------------------------------------------------------------------------
(* The scheduler.                                                          *)

\* No handler is in progress and no exception has ended the run.
Calm == pulse = <<>> /\ ~failed

\* windows_emulator::yield_thread, called by the handler of a waiting call.
YieldThread(t, alertable) ==
    /\ place' = [place EXCEPT ![t] = "switching"]
    /\ apcAlertable' = [apcAlertable EXCEPT ![t] = alertable]
    /\ rax' = [rax EXCEPT ![t] = None]

\* The timer, NtYieldExecution or a UI event asks the vCPU of t to switch.
Preempt(t) ==
    /\ Calm
    /\ place[t] = "running"
    /\ place' = [place EXCEPT ![t] = "switching"]
    /\ UNCHANGED <<lifeVars, waitVars, apcVars, statusVars, objectVars, pulse, failed>>

\* The clock passes the deadline of t.
Tick(t) ==
    /\ Calm
    /\ awaitTime[t] = "future"
    /\ awaitTime' = [awaitTime EXCEPT ![t] = "past"]
    /\ UNCHANGED <<place, lifeVars, awaitObjects, awaitAny, waitingForAlert, alerted,
                   apcVars, statusVars, objectVars, pulse, failed>>

\* A vCPU that has no thread: it detached its last one.
IdleVcpu == Cardinality({t \in Threads : place[t] # "out"}) < NumVcpus

\* switch_to_next_thread reaches t from a vCPU whose thread gives way, which
\* may be t itself, or from an idle vCPU; t is not loaded elsewhere.  The
\* round-robin order is left open.
Load(t) ==
    \/ place[t] = "switching" /\ place' = [place EXCEPT ![t] = "running"]
    \/ /\ place[t] = "out"
       /\ \E s \in Threads : /\ place[s] = "switching"
                             /\ place' = [place EXCEPT ![s] = "out", ![t] = "running"]
    \/ place[t] = "out" /\ IdleVcpu /\ place' = [place EXCEPT ![t] = "running"]

\* switch_to_thread, when is_thread_ready ends the wait: setup_if_necessary
\* writes the status to rax at once, and no APC is dispatched.
SwitchSatisfied(t) ==
    /\ Calm
    /\ Completes(t) /\ ~ConsumeFails(t)
    /\ Load(t)
    /\ Consume(t)
    /\ ClearWait(t)
    /\ rax' = [rax EXCEPT ![t] = Outcome(t)]
    /\ pendingStatus' = [pendingStatus EXCEPT ![t] = None]
    /\ apcAlertable' = [apcAlertable EXCEPT ![t] = FALSE]
    /\ UNCHANGED <<lifeVars, pendingApcs, pulse, failed>>

\* switch_to_thread, when the wait has ended earlier or there was none.
SwitchReady(t) ==
    /\ Calm
    /\ Runnable(t) /\ ~Blocked(t)
    /\ pendingStatus[t] # None \/ ~HasPendingAlertableApc(t)
    /\ Load(t)
    /\ rax' = [rax EXCEPT ![t] = IF pendingStatus[t] # None THEN pendingStatus[t] ELSE @]
    /\ pendingStatus' = [pendingStatus EXCEPT ![t] = None]
    /\ apcAlertable' = [apcAlertable EXCEPT ![t] = FALSE]
    /\ UNCHANGED <<lifeVars, waitVars, pendingApcs, objectVars, pulse, failed>>

\* Mutant: the APC is dispatched although a status is pending.
SwitchApcAnyway(t) ==
    /\ Calm
    /\ ~exited[t]
    /\ HasPendingAlertableApc(t)
    /\ ~Completes(t)
    /\ Load(t)
    /\ ClearWait(t)
    /\ pendingApcs' = [pendingApcs EXCEPT ![t] = @ - 1]
    /\ rax' = [rax EXCEPT ![t] = STATUS_USER_APC]
    /\ pendingStatus' = [pendingStatus EXCEPT ![t] = None]
    /\ apcAlertable' = [apcAlertable EXCEPT ![t] = FALSE]
    /\ UNCHANGED <<lifeVars, objectVars, pulse, failed>>

\* switch_to_thread, when an APC ends an alertable wait: dispatch_next_apc.
\* can_dispatch_apcs is evaluated whatever the suspend count is.
SwitchApc(t) ==
    /\ Calm
    /\ ~exited[t]
    /\ HasPendingAlertableApc(t)
    /\ pendingStatus[t] = None
    /\ ~Completes(t)
    /\ Load(t)
    /\ ClearWait(t)
    /\ pendingApcs' = [pendingApcs EXCEPT ![t] = @ - 1]
    /\ rax' = [rax EXCEPT ![t] = STATUS_USER_APC]
    /\ apcAlertable' = [apcAlertable EXCEPT ![t] = FALSE]
    /\ UNCHANGED <<lifeVars, pendingStatus, objectVars, pulse, failed>>

\* switch_to_thread for a thread that is not ready, a suspended one for
\* instance, but whose pulsed wait has ended: can_dispatch_apcs lets it run,
\* has_pending_status keeps the APC queued.
SwitchUnready(t) ==
    /\ Calm
    /\ ~exited[t]
    /\ ~IsThreadReady(t)
    /\ HasPendingAlertableApc(t)
    /\ pendingStatus[t] # None
    /\ Load(t)
    /\ rax' = [rax EXCEPT ![t] = pendingStatus[t]]
    /\ pendingStatus' = [pendingStatus EXCEPT ![t] = None]
    /\ apcAlertable' = [apcAlertable EXCEPT ![t] = FALSE]
    /\ UNCHANGED <<lifeVars, waitVars, pendingApcs, objectVars, pulse, failed>>

\* consume_object_signal fails while the scheduler looks at t, some objects
\* of the array consumed and the others not; nothing runs after that.
SwitchThrows(t) ==
    /\ Calm
    /\ Completes(t) /\ ConsumeFails(t)
    /\ \/ place[t] \in {"switching", "entered"}
       \/ place[t] = "out" /\ (IdleVcpu \/ \E s \in Threads : place[s] = "switching")
    /\ failed' = TRUE
    /\ UNCHANGED <<place, lifeVars, waitVars, apcVars, statusVars, objectVars, pulse>>

\* perform_thread_switch finds no thread and detaches the stale one.
Detach(t) ==
    /\ Calm
    /\ NumVcpus > 1
    /\ place[t] = "switching"
    /\ \A u \in Threads : (u = t \/ place[u] = "out") =>
           ~IsThreadReady(u) /\ (exited[u] \/ ~HasPendingAlertableApc(u))
    /\ place' = [place EXCEPT ![t] = "out"]
    /\ UNCHANGED <<lifeVars, waitVars, apcVars, statusVars, objectVars, pulse, failed>>

\* The debugger loads a thread that neither completes a wait nor has an APC
\* to run (activate_thread forces the switch, for the single vCPU): only its
\* alertability goes.  The other cases are those of the switches above.
Activate(t) ==
    /\ Calm
    /\ "debug" \in Ops /\ NumVcpus = 1
    /\ ~exited[t] /\ place[t] = "out"
    /\ ~IsThreadReady(t) /\ ~HasPendingAlertableApc(t)
    /\ \E s \in Threads :
          /\ place[s] # "out"
          /\ place' = [place EXCEPT ![s] = "out",
                           ![t] = IF place[s] = "switching" THEN "switching" ELSE "entered"]
    /\ rax' = [rax EXCEPT ![t] = IF pendingStatus[t] # None THEN pendingStatus[t] ELSE @]
    /\ pendingStatus' = [pendingStatus EXCEPT ![t] = None]
    /\ apcAlertable' = [apcAlertable EXCEPT ![t] = FALSE]
    /\ UNCHANGED <<lifeVars, waitVars, pendingApcs, objectVars, pulse, failed>>

\* The run loop of start checks the loaded thread without switching to it: a
\* wait that ends here leaves its status pending while the thread runs on.
Enter(t) ==
    /\ Calm
    /\ place[t] = "entered"
    /\ \/ /\ Completes(t) /\ ~ConsumeFails(t)
          /\ Consume(t) /\ ClearWait(t)
          /\ pendingStatus' = [pendingStatus EXCEPT ![t] = Outcome(t)]
          /\ place' = [place EXCEPT ![t] = "running"]
       \/ /\ ~Completes(t)
          /\ place' = [place EXCEPT ![t] = IF IsThreadReady(t) THEN "running" ELSE "switching"]
          /\ UNCHANGED <<waitVars, objectVars, pendingStatus>>
    /\ UNCHANGED <<lifeVars, apcVars, rax, pulse, failed>>

----------------------------------------------------------------------------
(* System calls of the running thread t.  A call that only returns an      *)
(* error changes nothing and is no step.                                   *)

Guest(t, op) == Calm /\ op \in Ops /\ place[t] = "running"

Valid(o) == o \in Objects => open[o]

\* What every waiting call stores in the thread before it yields.
StartWait(t, list, any, timeout, alertable) ==
    /\ \A i \in DOMAIN list :
          list[i] \in Mutants => (owner[list[i]] = t => locked[list[i]] < MaxRecursion)
    /\ awaitObjects' = [awaitObjects EXCEPT ![t] = list]
    /\ awaitAny' = [awaitAny EXCEPT ![t] = any]
    /\ awaitTime' = [awaitTime EXCEPT ![t] = IF @ = "none" THEN timeout ELSE @]
    /\ YieldThread(t, alertable)
    /\ UNCHANGED <<waitingForAlert, alerted, pendingApcs, pendingStatus>>

NtWaitForSingleObject(t, o, timeout, alertable) ==
    /\ Guest(t, "wait")
    /\ Valid(o)
    /\ StartWait(t, <<o>>, FALSE, timeout, alertable)
    /\ UNCHANGED <<lifeVars, objectVars, pulse, failed>>

NtWaitForMultipleObjects(t, list, any, timeout, alertable) ==
    /\ Guest(t, "wait_multiple")
    /\ \A i \in DOMAIN list : Valid(list[i])
    /\ StartWait(t, list, any, timeout, alertable)
    /\ UNCHANGED <<lifeVars, objectVars, pulse, failed>>

SetEvent(e) ==
    /\ open[e]
    /\ signaled' = [signaled EXCEPT ![e] = TRUE]
    /\ UNCHANGED <<open, mutantVars, count>>

\* mutant::release
ReleaseMutant(t, m) ==
    /\ open[m]
    /\ locked[m] > 0 /\ owner[m] = t
    /\ locked' = [locked EXCEPT ![m] = @ - 1]
    /\ owner' = [owner EXCEPT ![m] = IF locked[m] = 1 THEN NoThread ELSE @]
    /\ UNCHANGED <<open, signaled, abandoned, count>>

\* Mutant: the maximum count is not looked at.
ReleaseSemaphoreUnbounded(s, n) ==
    /\ open[s]
    /\ count' = [count EXCEPT ![s] = (@ + n) % CountRange]
    /\ UNCHANGED <<open, signaled, mutantVars>>

\* semaphore::release: the sum is a uint32_t and may wrap around.
ReleaseSemaphore(s, n) ==
    /\ open[s]
    /\ (count[s] + n) % CountRange <= MaxCount
    /\ count' = [count EXCEPT ![s] = (@ + n) % CountRange]
    /\ UNCHANGED <<open, signaled, mutantVars>>

NtSetEvent(t, e) ==
    /\ Guest(t, "set")
    /\ SetEvent(e)
    /\ UNCHANGED <<place, lifeVars, waitVars, apcVars, statusVars, pulse, failed>>

NtReleaseMutant(t, m) ==
    /\ Guest(t, "release")
    /\ ReleaseMutant(t, m)
    /\ UNCHANGED <<place, lifeVars, waitVars, apcVars, statusVars, pulse, failed>>

NtReleaseSemaphore(t, s, n) ==
    /\ Guest(t, "release")
    /\ ReleaseSemaphore(s, n)
    /\ UNCHANGED <<place, lifeVars, waitVars, apcVars, statusVars, pulse, failed>>

NtClearEvent(t, e) ==
    /\ Guest(t, "clear")
    /\ open[e]
    /\ signaled' = [signaled EXCEPT ![e] = FALSE]
    /\ UNCHANGED <<place, lifeVars, waitVars, apcVars, statusVars, open,
                   mutantVars, count, pulse, failed>>

\* The signal is not undone when the handle to wait for is invalid.
NtSignalAndWaitForSingleObject(t, o, w, timeout, alertable) ==
    /\ Guest(t, "signal_wait")
    /\ \/ o \in Events /\ SetEvent(o)
       \/ o \in Mutants /\ ReleaseMutant(t, o)
       \/ o \in Semaphores /\ ReleaseSemaphore(o, 1)
    /\ IF Valid(w)
       THEN StartWait(t, <<w>>, FALSE, timeout, alertable)
       ELSE UNCHANGED <<place, waitVars, apcVars, statusVars>>
    /\ UNCHANGED <<lifeVars, pulse, failed>>

\* NtPulseEvent sets the event, lets is_thread_ready end the waits of the
\* threads on it one after the other, and resets it; the kernel lock keeps
\* everybody else out until it is done.
NtPulseEvent(t, e) ==
    /\ Guest(t, "pulse")
    /\ SetEvent(e)
    /\ pulse' = <<e, 1>>
    /\ UNCHANGED <<place, lifeVars, waitVars, apcVars, statusVars, failed>>

PulseWake ==
    /\ pulse # <<>> /\ ~failed
    /\ LET u == pulse[2] IN
       /\ u \in Threads
       /\ pulse' = <<pulse[1], u + 1>>
       /\ failed' = (pulse[1] \in Awaited(u) /\ Completes(u) /\ ConsumeFails(u))
       /\ IF pulse[1] \in Awaited(u) /\ Completes(u) /\ ~ConsumeFails(u)
          THEN /\ Consume(u) /\ ClearWait(u)
               /\ pendingStatus' = [pendingStatus EXCEPT ![u] = Outcome(u)]
          ELSE UNCHANGED <<waitVars, pendingStatus, objectVars>>
    /\ UNCHANGED <<place, lifeVars, apcVars, rax>>

PulseEnd ==
    /\ pulse # <<>> /\ ~failed
    /\ pulse[2] \notin Threads
    /\ signaled' = [signaled EXCEPT ![pulse[1]] = FALSE]
    /\ pulse' = <<>>
    /\ UNCHANGED <<place, lifeVars, waitVars, apcVars, statusVars, open,
                   mutantVars, count, failed>>

\* The alert is sticky: it is kept for a thread that does not wait yet.
NtAlertThreadByThreadId(t, u) ==
    /\ Guest(t, "alert")
    /\ alerted' = [alerted EXCEPT ![u] = TRUE]
    /\ UNCHANGED <<place, lifeVars, awaitObjects, awaitAny, awaitTime,
                   waitingForAlert, apcVars, statusVars, objectVars, pulse, failed>>

NtWaitForAlertByThreadId(t, timeout) ==
    /\ Guest(t, "alert")
    /\ IF alerted[t]
       THEN /\ alerted' = [alerted EXCEPT ![t] = FALSE]
            /\ rax' = [rax EXCEPT ![t] = STATUS_ALERTED]
            /\ UNCHANGED <<place, waitingForAlert, awaitTime, apcAlertable>>
       ELSE /\ waitingForAlert' = [waitingForAlert EXCEPT ![t] = TRUE]
            /\ awaitTime' = [awaitTime EXCEPT ![t] = IF @ = "none" THEN timeout ELSE @]
            /\ YieldThread(t, FALSE)
            /\ UNCHANGED alerted
    /\ UNCHANGED <<lifeVars, awaitObjects, awaitAny, pendingApcs, pendingStatus,
                   objectVars, pulse, failed>>

NtDelayExecution(t, timeout, alertable) ==
    /\ Guest(t, "delay")
    /\ awaitTime' = [awaitTime EXCEPT ![t] = timeout]
    /\ YieldThread(t, alertable)
    /\ UNCHANGED <<lifeVars, awaitObjects, awaitAny, waitingForAlert, alerted,
                   pendingApcs, pendingStatus, objectVars, pulse, failed>>

NtQueueApcThread(t, u) ==
    /\ Guest(t, "apc")
    /\ pendingApcs[u] < MaxApcs
    /\ pendingApcs' = [pendingApcs EXCEPT ![u] = @ + 1]
    /\ UNCHANGED <<place, lifeVars, waitVars, apcAlertable, statusVars, objectVars,
                   pulse, failed>>

\* NtContinue ends an APC routine, or resumes any context: it tests for more
\* APCs by yielding alertably.
NtContinue(t) ==
    /\ Guest(t, "continue")
    /\ YieldThread(t, TRUE)
    /\ UNCHANGED <<lifeVars, waitVars, pendingApcs, pendingStatus, objectVars, pulse, failed>>

NtSuspendThread(t, u) ==
    /\ Guest(t, "suspend")
    /\ suspended[u] < MaxSuspend
    /\ suspended' = [suspended EXCEPT ![u] = @ + 1]
    /\ IF u = t THEN YieldThread(t, FALSE)
                ELSE UNCHANGED <<place, apcAlertable, rax>>
    /\ UNCHANGED <<exited, waitVars, pendingApcs, pendingStatus, objectVars, pulse, failed>>

NtResumeThread(t, u) ==
    /\ Guest(t, "suspend")
    /\ suspended[u] > 0
    /\ suspended' = [suspended EXCEPT ![u] = @ - 1]
    /\ UNCHANGED <<place, exited, waitVars, apcVars, statusVars, objectVars, pulse, failed>>

\* Mutant: a terminated thread keeps its mutants.
TerminateKeepingMutants(S) ==
    /\ exited' = [u \in Threads |-> exited[u] \/ u \in S]
    /\ UNCHANGED mutantVars

\* process_context::terminate_thread for the threads in S: the mutants they
\* own are abandoned.
Terminate(S) ==
    /\ exited' = [u \in Threads |-> exited[u] \/ u \in S]
    /\ locked' = [m \in Mutants |-> IF owner[m] \in S THEN 0 ELSE locked[m]]
    /\ owner' = [m \in Mutants |-> IF owner[m] \in S THEN NoThread ELSE owner[m]]
    /\ abandoned' = [m \in Mutants |-> abandoned[m] \/ owner[m] \in S]

\* A thread that runs on another vCPU keeps running until it is preempted.
NtTerminateThread(t, u) ==
    /\ Guest(t, "terminate")
    /\ Terminate({u})
    /\ IF u = t THEN YieldThread(t, FALSE)
                ELSE UNCHANGED <<place, apcAlertable, rax>>
    /\ UNCHANGED <<suspended, waitVars, pendingApcs, pendingStatus, open, signaled,
                   count, pulse, failed>>

\* NtTerminateProcess with a null handle ends every other thread.
NtTerminateProcess(t) ==
    /\ Guest(t, "terminate")
    /\ Terminate(Threads \ {t})
    /\ UNCHANGED <<place, suspended, waitVars, apcVars, statusVars, open, signaled,
                   count, pulse, failed>>

\* NtCreateEvent, NtCreateMutant, NtCreateSemaphore: the object takes a free
\* handle slot, the one a closed object had included.
NtCreateObject(t, o) ==
    /\ Guest(t, "create")
    /\ ~open[o]
    /\ open' = [open EXCEPT ![o] = TRUE]
    /\ \/ /\ o \in Events
          /\ \E initial \in BOOLEAN : signaled' = [signaled EXCEPT ![o] = initial]
          /\ UNCHANGED <<mutantVars, count>>
       \/ /\ o \in Semaphores
          /\ \E initial \in 0 .. MaxCount : count' = [count EXCEPT ![o] = initial]
          /\ UNCHANGED <<mutantVars, signaled>>
       \/ /\ o \in Mutants
          /\ \E initialOwner \in {t, NoThread} :
                /\ owner' = [owner EXCEPT ![o] = initialOwner]
                /\ locked' = [locked EXCEPT ![o] = IF initialOwner = t THEN 1 ELSE 0]
          /\ UNCHANGED <<signaled, abandoned, count>>
    /\ UNCHANGED <<place, lifeVars, waitVars, apcVars, statusVars, pulse, failed>>

\* NtClose of the last handle: the object is gone, its waiters are not told.
\* The slot's contents are reset here, not in NtCreateObject.
NtClose(t, o) ==
    /\ Guest(t, "close")
    /\ open[o]
    /\ open' = [open EXCEPT ![o] = FALSE]
    /\ signaled' = [e \in Events |-> signaled[e] /\ e # o]
    /\ count' = [s \in Semaphores |-> IF s = o THEN 0 ELSE count[s]]
    /\ locked' = [m \in Mutants |-> IF m = o THEN 0 ELSE locked[m]]
    /\ owner' = [m \in Mutants |-> IF m = o THEN NoThread ELSE owner[m]]
    /\ abandoned' = [m \in Mutants |-> abandoned[m] /\ m # o]
    /\ UNCHANGED <<place, lifeVars, waitVars, apcVars, statusVars, pulse, failed>>

----------------------------------------------------------------------------
(* The specification.                                                      *)

Switch(t) ==
    \/ SwitchSatisfied(t)
    \/ SwitchReady(t)
    \/ SwitchApc(t)
    \/ SwitchUnready(t)
    \/ SwitchThrows(t)

WaitCall(t) ==
    \E timeout \in Timeouts, alertable \in Alertables :
       \/ \E o \in Waitables : NtWaitForSingleObject(t, o, timeout, alertable)
       \/ \E list \in WaitLists, any \in BOOLEAN :
             NtWaitForMultipleObjects(t, list, any, timeout, alertable)
       \/ \E o \in Objects, w \in Waitables :
             NtSignalAndWaitForSingleObject(t, o, w, timeout, alertable)
       \/ NtDelayExecution(t, timeout, alertable)

ObjectCall(t) ==
    \/ \E e \in Events : NtSetEvent(t, e) \/ NtClearEvent(t, e) \/ NtPulseEvent(t, e)
    \/ \E m \in Mutants : NtReleaseMutant(t, m)
    \/ \E s \in Semaphores, n \in ReleaseCounts : NtReleaseSemaphore(t, s, n)
    \/ \E o \in Objects : NtCreateObject(t, o) \/ NtClose(t, o)

ThreadCall(t) ==
    \/ \E timeout \in Timeouts : NtWaitForAlertByThreadId(t, timeout)
    \/ NtContinue(t)
    \/ NtTerminateProcess(t)
    \/ \E u \in Threads :
          \/ NtAlertThreadByThreadId(t, u)
          \/ NtQueueApcThread(t, u)
          \/ NtSuspendThread(t, u)
          \/ NtResumeThread(t, u)
          \/ NtTerminateThread(t, u)

Next ==
    \/ \E t \in Threads :
          \/ WaitCall(t) \/ ObjectCall(t) \/ ThreadCall(t)
          \/ Preempt(t) \/ Tick(t) \/ Detach(t) \/ Switch(t)
          \/ Activate(t) \/ Enter(t)
    \/ PulseWake
    \/ PulseEnd

Spec == Init /\ [][Next]_vars

\* Preemption, the clock and a handler in progress go on; the round robin of
\* switch_to_next_thread does not pass over a thread for ever (VcpuScheduler,
\* ReadyThreadRuns).
Fairness ==
    /\ \A t \in Threads : WF_vars(Preempt(t)) /\ WF_vars(Tick(t)) /\ SF_vars(Switch(t))
    /\ WF_vars(PulseWake \/ PulseEnd)

FairSpec == Spec /\ Fairness

----------------------------------------------------------------------------
(* Properties.                                                             *)

\* A wait of t ends in this step, and what it ends with.
WaitEnds(t)  == Blocked(t) /\ ~Blocked(t)'
EndStatus(t) == IF pendingStatus'[t] # None THEN pendingStatus'[t] ELSE rax'[t]

\* The wait of t ends because of object o.
WokenBy(t, o) ==
    LET i == EndStatus(t) - (IF EndStatus(t) < STATUS_ABANDONED_WAIT_0 THEN STATUS_WAIT_0
                                                         ELSE STATUS_ABANDONED_WAIT_0) + 1
    IN  /\ WaitEnds(t)
        /\ EndStatus(t) < STATUS_USER_APC
        /\ o \in Awaited(t)
        /\ awaitAny[t] => o = awaitObjects[t][i]

\* Type invariant: what the fields of a thread and of the kernel objects hold.
TypeOK ==
    /\ place \in [Threads -> {"running", "switching", "entered", "out"}]
    /\ exited \in [Threads -> BOOLEAN]
    /\ suspended \in [Threads -> 0 .. MaxSuspend]
    /\ awaitObjects \in [Threads -> Seq(Waitables)]
    /\ awaitAny \in [Threads -> BOOLEAN]
    /\ awaitTime \in [Threads -> {"none", "infinite", "future", "past"}]
    /\ waitingForAlert \in [Threads -> BOOLEAN]
    /\ alerted \in [Threads -> BOOLEAN]
    /\ apcAlertable \in [Threads -> BOOLEAN]
    /\ pendingApcs \in [Threads -> 0 .. MaxApcs]
    /\ pendingStatus \in [Threads -> Int]
    /\ rax \in [Threads -> Int]
    /\ open \in [Objects -> BOOLEAN]
    /\ signaled \in [Events -> BOOLEAN]
    /\ locked \in [Mutants -> Nat]
    /\ owner \in [Mutants -> Threads \cup {NoThread}]
    /\ abandoned \in [Mutants -> BOOLEAN]
    /\ count \in [Semaphores -> 0 .. MaxCount]
    /\ pulse \in {<<>>} \cup (Events \X (1 .. NumThreads + 1))
    /\ failed \in BOOLEAN

\* A thread that executes guest code has no wait left to end and no status
\* left to be written over its rax: switch_to_thread settled both before it
\* let the thread run, however the wait was ended.
RunningIsSettled ==
    \A t \in Threads : place[t] = "running" =>
        ~Blocked(t) /\ pendingStatus[t] = None /\ ~apcAlertable[t]

\* A mutant is owned exactly while its count is positive, an abandoned one is
\* free, and a thread that was terminated owns none: terminate_thread left no
\* waiter behind a dead owner.
MutantOwnerAlive ==
    \A m \in Mutants :
        /\ locked[m] = 0 <=> owner[m] = NoThread
        /\ abandoned[m] => locked[m] = 0
        /\ owner[m] # NoThread => ~exited[owner[m]]

\* is_thread_ready throws "Failed to consume object signal!" only for a handle
\* array that names one object twice: what was observed as signaled is still
\* signaled when it is consumed.
ThrowsOnlyOnDuplicates ==
    failed => \E t \in Threads : Cardinality(Awaited(t)) < Len(awaitObjects[t])

\* A wait that was ended by NtPulseEvent is over although its thread has not
\* run yet: is_thread_ready cannot end it a second time.
PendingMeansWoken ==
    \A t \in Threads : pendingStatus[t] # None => ~Blocked(t)

\* A wait for an alert waits for nothing else: no pulse and no APC ends it.
AlertWaitIsPure ==
    \A t \in Threads : waitingForAlert[t] => awaitObjects[t] = <<>> /\ ~apcAlertable[t]

\* The inductive invariant: without a debugger, a thread is never loaded with
\* its wait unsettled, and each part of it is what the others need.
IInv ==
    /\ TypeOK
    /\ RunningIsSettled
    /\ PendingMeansWoken
    /\ AlertWaitIsPure
    /\ MutantOwnerAlive
    /\ \A t \in Threads : place[t] # "entered"

\* What a wait reports it has taken: a synchronization event that ends a wait
\* was signaled, is reset, and ends no other wait in the same step; a
\* semaphore that ends one wait loses one count; and no count is lost to a
\* wait that goes on.  (A release count that makes the sum wrap around lowers
\* the count, too.)
WakeTakesOneSignal ==
    [][ /\ \A e \in AutoEvents : \A t \in Threads : WokenBy(t, e) =>
              /\ signaled[e] /\ ~signaled'[e]
              /\ \A u \in Threads : WokenBy(u, e) => u = t
        /\ \A s \in Semaphores :
              /\ count'[s] < count[s] /\ open'[s]
              /\ ~ \E t \in Threads, n \in ReleaseCounts : NtReleaseSemaphore(t, s, n)
              => Cardinality({t \in Threads : WokenBy(t, s)}) = count[s] - count'[s] ]_vars

\* The status a wait was ended with is the one the thread gets: an APC queued,
\* a suspension or a time-out that comes between the end of the wait and the
\* switch to the thread does not replace it.
DecidedStatusDelivered ==
    [][\A t \in Threads : pendingStatus[t] # None /\ pendingStatus'[t] # pendingStatus[t] =>
           pendingStatus'[t] = None /\ rax'[t] = pendingStatus[t]]_vars

\* An alert is never lost: it goes only with a wait that returns
\* STATUS_ALERTED to the thread.  Critical sections and SRW locks of the guest
\* rely on it.
AlertNotLost ==
    [][\A t \in Threads : alerted[t] /\ ~alerted'[t] => rax'[t] = STATUS_ALERTED]_vars

\* A mutant changes hands only when its owner releases it, is terminated or
\* the mutant is closed; and a thread that takes an abandoned one is told so.
MutantHandover ==
    [][\A m \in Mutants : owner'[m] # owner[m] =>
           /\ owner[m] # NoThread => owner'[m] = NoThread
           /\ owner'[m] # NoThread /\ abandoned[m] =>
                 EndStatus(owner'[m]) \in STATUS_ABANDONED_WAIT_0 .. STATUS_USER_APC - 1]_vars

\* A wait that times out or is broken off by an APC had nothing to take: the
\* signal, had it been there, would have ended the wait.
SignalBeatsTimeout ==
    [][\A t \in Threads : WaitEnds(t) /\ suspended[t] = 0 /\ EndStatus(t) \in {STATUS_TIMEOUT, STATUS_USER_APC} =>
           ~Satisfied(t)]_vars

\* A wait with a finite time-out ends.
TimedWaitEnds ==
    \A t \in Threads :
        awaitTime[t] \in {"future", "past"} ~> (~Blocked(t) \/ exited[t] \/ suspended[t] > 0 \/ failed)

\* A thread that waits for an alert it has been sent runs, and so does one whose
\* alertable wait an APC was queued for.
WakeUpArrives ==
    \A t \in Threads :
        /\ waitingForAlert[t] /\ alerted[t] ~> (place[t] = "running" \/ exited[t] \/ suspended[t] > 0)
        /\ HasPendingAlertableApc(t) ~> (place[t] = "running" \/ exited[t])
============================================================================
