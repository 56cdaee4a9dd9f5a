--------------------------- MODULE VcpuScheduler ---------------------------
(***************************************************************************)
(* The vCPU scheduler of the Windows emulator: one host worker per vCPU    *)
(* multiplexes guest threads onto it, the kernel lock serialises all       *)
(* emulator code, a 20 ms interrupt thread preempts, UI and host threads   *)
(* make threads ready, and the hypervisor backend runs guest code with the *)
(* lock released.  A vCPU's program counter pc[v] is the point its worker  *)
(* has reached; a step between two acquisitions of the lock is one action. *)
(*                                                                         *)
(* What a thread waits for is abstracted to "blocked" or "ready" (the      *)
(* module ThreadWaits has the waits themselves).                           *)
(***************************************************************************)
EXTENDS Integers, FiniteSets, FiniteSetsExt

CONSTANTS
    NumVcpus,     \* vcpu_count_
    NumThreads,   \* bound: slots of the thread handle store
    Ops           \* what guest code and the host do in this instance

AllOps == {"wait", "yield", "signal", "create", "terminate", "detach",
           "close", "remap", "fatal", "fault", "exit", "host_wake",
           "host_stop", "ui"}

ASSUME NumVcpusAssumption   == NumVcpus \in Nat \ {0}
ASSUME NumThreadsAssumption == NumThreads \in Nat \ {0}
ASSUME OpsAssumption        == Ops \subseteq AllOps

Vcpus   == 0 .. NumVcpus - 1
Threads == 0 .. NumThreads - 1

None            == -1          \* a null active_thread, a free kernel lock
InterruptThread == NumVcpus    \* the interrupt thread as owner of the lock

VARIABLES
    lock,            \* kernel_lock_: its owner, or None
    pc,              \* where the worker of each vCPU is
    active,          \* vcpu_context::active_thread
    cpuRegs,         \* the thread whose registers the virtual CPU holds
    switchThread,    \* vcpu_context::switch_thread
    neededSwitch,    \* the local of perform_thread_switch
    stopRequested,   \* whp_vcpu::stop_requested_
    runActive,       \* whp_vcpu::run_active_
    cancelPending,   \* hypervisor: a cancel the next or current run returns on
    tlbFlush,        \* whp_vcpu::pending_tlb_flush_
    shouldStop,      \* windows_emulator::should_stop
    ipc,             \* where the interrupt thread is
    state,           \* each thread slot: absent, ready, blocked, terminated
    refCount,        \* emulator_thread::ref_count
    saved,           \* last_registers holds what the thread last computed
    fatal            \* history: a fatal error stopped this vCPU in this run

threadVars == <<state, refCount, saved>>
loadVars   == <<active, cpuRegs>>
switchVars == <<switchThread, neededSwitch>>
whpVars    == <<stopRequested, runActive, cancelPending, tlbFlush>>
vars == <<lock, pc, loadVars, switchVars, whpVars, shouldStop, ipc,
          threadVars, fatal>>

----------------------------------------------------------------------------
(* State shared by the definitions below.                                  *)

Present(t)    == state[t] # "absent"
Terminated(t) == state[t] = "terminated"
Ready(t)      == state[t] = "ready"

LoadedOn(t)    == {v \in Vcpus : active[v] = t}
LoadedElsewhere(v, t) == LoadedOn(t) \ {v} # {}

\* The worker is between clearing stop_requested_ and taking the lock again:
\* its cpu_interface::start call is in progress.
InQuantum(v) == pc[v] \in {"run", "enter", "guest", "hook", "returned"}

TypeOK ==
    /\ lock \in Vcpus \cup {None, InterruptThread}
    /\ pc \in [Vcpus -> {"begin", "loop", "pump", "switch", "idle",
                         "start", "run", "enter", "guest", "hook", "returned",
                         "winddown", "done"}]
    /\ active \in [Vcpus -> Threads \cup {None}]
    /\ cpuRegs \in [Vcpus -> Threads \cup {None}]
    /\ switchThread \in [Vcpus -> BOOLEAN]
    /\ neededSwitch \in [Vcpus -> BOOLEAN]
    /\ stopRequested \in [Vcpus -> BOOLEAN]
    /\ runActive \in [Vcpus -> BOOLEAN]
    /\ cancelPending \in [Vcpus -> BOOLEAN]
    /\ tlbFlush \in [Vcpus -> BOOLEAN]
    /\ shouldStop \in BOOLEAN
    /\ ipc \in {"sleep", "lock", "stop", "done"}
    /\ state \in [Threads -> {"absent", "ready", "blocked", "terminated"}]
    /\ refCount \in [Threads -> {0, 1}]
    /\ saved \in [Threads -> BOOLEAN]
    /\ fatal \in [Vcpus -> BOOLEAN]

\* setup_process: the main thread exists and is loaded on vCPU 0.
Init ==
    /\ lock = None
    /\ pc = [v \in Vcpus |-> "begin"]
    /\ active = [v \in Vcpus |-> IF v = 0 THEN 0 ELSE None]
    /\ cpuRegs = [v \in Vcpus |-> IF v = 0 THEN 0 ELSE None]
    /\ switchThread = [v \in Vcpus |-> FALSE]
    /\ neededSwitch = [v \in Vcpus |-> FALSE]
    /\ stopRequested = [v \in Vcpus |-> FALSE]
    /\ runActive = [v \in Vcpus |-> FALSE]
    /\ cancelPending = [v \in Vcpus |-> FALSE]
    /\ tlbFlush = [v \in Vcpus |-> FALSE]
    /\ shouldStop = FALSE
    /\ ipc = "sleep"
    /\ state = [t \in Threads |-> IF t = 0 THEN "ready" ELSE "absent"]
    /\ refCount = [t \in Threads |-> IF t = 0 THEN 1 ELSE 0]
    /\ saved = [t \in Threads |-> FALSE]
    /\ fatal = [v \in Vcpus |-> FALSE]

----------------------------------------------------------------------------
(* The hypervisor backend: stop, and the run loop of one vCPU.             *)

\* cpu_interface::stop on each vCPU of S: the request is recorded, and the
\* hypervisor is told only when the vCPU is inside its run call.
CpuStop(S) ==
    /\ stopRequested' = [v \in Vcpus |-> v \in S \/ stopRequested[v]]
    /\ cancelPending' = [v \in Vcpus |->
                            cancelPending[v] \/ (v \in S /\ runActive[v])]

\* run: the request left over from an earlier stop is dropped.
RunBegin(v) ==
    /\ pc[v] = "start"
    /\ stopRequested' = [stopRequested EXCEPT ![v] = FALSE]
    /\ pc' = [pc EXCEPT ![v] = "run"]
    /\ UNCHANGED <<lock, loadVars, switchVars, runActive, cancelPending,
                   tlbFlush, shouldStop, ipc, threadVars, fatal>>

\* The head of the run loop: leave on a stop request, else apply a pending
\* TLB flush before the guest is entered.
RunLoop(v) ==
    /\ pc[v] = "run"
    /\ IF stopRequested[v]
       THEN /\ pc' = [pc EXCEPT ![v] = "returned"]
            /\ UNCHANGED tlbFlush
       ELSE /\ pc' = [pc EXCEPT ![v] = "enter"]
            /\ tlbFlush' = [tlbFlush EXCEPT ![v] = FALSE]
    /\ UNCHANGED <<lock, loadVars, switchVars, stopRequested, runActive,
                   cancelPending, shouldStop, ipc, threadVars, fatal>>

\* run_active_ is set and the guest runs: from here the saved registers of
\* the loaded thread are out of date.
RunEnter(v) ==
    /\ pc[v] = "enter"
    /\ runActive' = [runActive EXCEPT ![v] = TRUE]
    /\ saved' = [t \in Threads |-> saved[t] /\ t # active[v]]
    /\ pc' = [pc EXCEPT ![v] = "guest"]
    /\ UNCHANGED <<lock, loadVars, switchVars, stopRequested, cancelPending,
                   tlbFlush, shouldStop, ipc, state, refCount, fatal>>

\* Mutant: every cancel is taken for a stop.
RunCanceledAlwaysStops(v) ==
    /\ pc[v] = "guest"
    /\ cancelPending[v]
    /\ cancelPending' = [cancelPending EXCEPT ![v] = FALSE]
    /\ runActive' = [runActive EXCEPT ![v] = FALSE]
    /\ pc' = [pc EXCEPT ![v] = "returned"]
    /\ UNCHANGED <<lock, loadVars, switchVars, stopRequested, tlbFlush,
                   shouldStop, ipc, threadVars, fatal>>

\* The hypervisor returns WHvRunVpExitReasonCanceled.  Without a stop request
\* the cancel came from a TLB flush and the loop goes round.
RunCanceled(v) ==
    /\ pc[v] = "guest"
    /\ cancelPending[v]
    /\ cancelPending' = [cancelPending EXCEPT ![v] = FALSE]
    /\ runActive' = [runActive EXCEPT ![v] = FALSE]
    /\ pc' = [pc EXCEPT ![v] = IF stopRequested[v] THEN "returned" ELSE "run"]
    /\ UNCHANGED <<lock, loadVars, switchVars, stopRequested, tlbFlush,
                   shouldStop, ipc, threadVars, fatal>>

\* A syscall leaves the guest; its hook has yet to take the kernel lock.
RunSyscallExit(v) ==
    /\ pc[v] = "guest"
    /\ runActive' = [runActive EXCEPT ![v] = FALSE]
    /\ pc' = [pc EXCEPT ![v] = "hook"]
    /\ UNCHANGED <<lock, loadVars, switchVars, stopRequested, cancelPending,
                   tlbFlush, shouldStop, ipc, threadVars, fatal>>

\* An exit the backend cannot handle: run returns with no stop request, or
\* throws, which ends the worker without another look at switch_thread.
RunFault(v) ==
    /\ "fault" \in Ops
    /\ pc[v] = "guest"
    /\ runActive' = [runActive EXCEPT ![v] = FALSE]
    /\ \E next \in {"returned", "winddown"} : pc' = [pc EXCEPT ![v] = next]
    /\ fatal' = [fatal EXCEPT ![v] = TRUE]
    /\ UNCHANGED <<lock, loadVars, switchVars, stopRequested, cancelPending,
                   tlbFlush, shouldStop, ipc, threadVars>>

----------------------------------------------------------------------------
(* Scheduling, under the kernel lock.                                      *)

\* Mutant: the reaper does not ask which vCPU has the thread loaded.
ReapableAnywhere(v) == {t \in Threads : Terminated(t) /\ refCount[t] = 0}

\* Threads perform_context_switch_work erases: terminated, no handle left,
\* and not loaded on another vCPU.
Reapable(v) == {t \in Threads : Terminated(t) /\ refCount[t] = 0
                                /\ ~LoadedElsewhere(v, t)}

\* Mutant: a thread loaded on another vCPU is accepted too.
EligibleAnywhere(v) == {t \in Threads : Ready(t)}

\* Threads switch_to_thread accepts on vCPU v.
Eligible(v) == {t \in Threads : Ready(t) /\ ~LoadedElsewhere(v, t)}

\* Mutant: every search starts at the first thread of the store.
FirstEligible(cur, eligible) == Min(eligible)

\* switch_to_next_thread: the eligible thread after the current one in the
\* order of the store, else the first of all.
RoundRobin(cur, eligible) ==
    LET after == {t \in eligible : cur # None /\ t > cur}
    IN  Min(IF after # {} THEN after ELSE eligible)

\* Mutant: the outgoing thread's registers are not saved.
SaveNothing(v, S) == saved

\* emulator_thread::save on vCPU v for each thread of S (none or one).
SaveRegisters(v, S) ==
    [t \in Threads |-> IF t \in S THEN cpuRegs[v] = t ELSE saved[t]]

\* The worker takes the kernel lock and enters its loop.
WorkerBegin(v) ==
    /\ pc[v] = "begin"
    /\ lock = None
    /\ lock' = v
    /\ pc' = [pc EXCEPT ![v] = "loop"]
    /\ UNCHANGED <<loadVars, switchVars, whpVars, shouldStop, ipc,
                   threadVars, fatal>>

\* Is a switch needed?  If so perform_thread_switch consumes the request; if
\* not the lock is released and the loaded thread runs on.
CheckSwitch(v) ==
    IF switchThread[v] \/ active[v] = None \/ ~Ready(active[v])
    THEN /\ neededSwitch' = [neededSwitch EXCEPT ![v] = switchThread[v]]
         /\ switchThread' = [switchThread EXCEPT ![v] = FALSE]
         /\ pc' = [pc EXCEPT ![v] = "switch"]
         /\ lock' = v
    ELSE /\ lock' = None
         /\ pc' = [pc EXCEPT ![v] = "start"]
         /\ UNCHANGED switchVars

\* The head of vcpu_worker's loop.
WorkerLoop(v) ==
    /\ NumVcpus > 1
    /\ pc[v] = "loop"
    /\ IF shouldStop
       THEN /\ lock' = None
            /\ pc' = [pc EXCEPT ![v] = "winddown"]
            /\ UNCHANGED switchVars
       ELSE CheckSwitch(v)
    /\ UNCHANGED <<loadVars, whpVars, shouldStop, ipc, threadVars, fatal>>

\* The head of the loop start runs itself when there is one vCPU: the lock is
\* released while UI events are pumped, and taken again for the check.
InlineLoop(v) ==
    /\ NumVcpus = 1
    /\ pc[v] = "loop"
    /\ lock' = None
    /\ pc' = [pc EXCEPT ![v] = IF shouldStop THEN "winddown" ELSE "pump"]
    /\ UNCHANGED <<loadVars, switchVars, whpVars, shouldStop, ipc, threadVars,
                   fatal>>

InlinePumped(v) ==
    /\ pc[v] = "pump"
    /\ lock = None
    /\ CheckSwitch(v)
    /\ UNCHANGED <<loadVars, whpVars, shouldStop, ipc, threadVars, fatal>>

\* switch_to_next_thread: reap, then load the next thread; when there is none
\* a multi-vCPU worker detaches the thread it has and goes idle.
SwitchToNextThread(v) ==
    LET reaped   == Reapable(v)
        cur      == IF active[v] \in reaped THEN None ELSE active[v]
        eligible == Eligible(v)
        next     == RoundRobin(cur, eligible)
    IN
    /\ pc[v] = "switch"
    /\ lock' = None
    /\ state' = [t \in Threads |-> IF t \in reaped THEN "absent" ELSE state[t]]
    /\ IF eligible # {}
       THEN /\ active' = [active EXCEPT ![v] = next]
            /\ saved' = SaveRegisters(v, {cur} \ {next})
            /\ cpuRegs' = [cpuRegs EXCEPT ![v] = next]
            /\ pc' = [pc EXCEPT ![v] = "start"]
            /\ neededSwitch' = [neededSwitch EXCEPT ![v] = FALSE]
       ELSE /\ active' = [active EXCEPT ![v] = IF NumVcpus > 1 THEN None ELSE cur]
            /\ saved' = SaveRegisters(v, IF NumVcpus > 1 THEN {cur} ELSE {})
            /\ cpuRegs' = [cpuRegs EXCEPT ![v] = active'[v]]
            /\ pc' = [pc EXCEPT ![v] = "idle"]
            /\ UNCHANGED neededSwitch
    /\ UNCHANGED <<switchThread, whpVars, shouldStop, ipc, refCount, fatal>>

\* Mutant: the consumed switch request is not handed back on a stop.
IdleRetryForgets(v) ==
    /\ pc[v] = "idle"
    /\ lock = None
    /\ IF shouldStop
       THEN /\ pc' = [pc EXCEPT ![v] = "winddown"]
            /\ UNCHANGED lock
       ELSE /\ lock' = v
            /\ pc' = [pc EXCEPT ![v] = "switch"]
    /\ UNCHANGED <<loadVars, switchVars, whpVars, shouldStop, ipc, threadVars,
                   fatal>>

\* The idle wait ends: stop, handing the consumed request back, or try again.
IdleRetry(v) ==
    /\ pc[v] = "idle"
    /\ lock = None
    /\ IF shouldStop
       THEN /\ switchThread' = [switchThread EXCEPT ![v] = neededSwitch[v]]
            /\ neededSwitch' = [neededSwitch EXCEPT ![v] = FALSE]
            /\ pc' = [pc EXCEPT ![v] = "winddown"]
            /\ UNCHANGED lock
       ELSE /\ lock' = v
            /\ pc' = [pc EXCEPT ![v] = "switch"]
            /\ UNCHANGED switchVars
    /\ UNCHANGED <<loadVars, whpVars, shouldStop, ipc,
                   threadVars, fatal>>

\* cpu.start has returned: without a pending switch the worker leaves its loop.
QuantumReturn(v) ==
    /\ pc[v] = "returned"
    /\ lock = None
    /\ IF switchThread[v]
       THEN /\ lock' = v
            /\ pc' = [pc EXCEPT ![v] = "loop"]
       ELSE /\ pc' = [pc EXCEPT ![v] = "winddown"]
            /\ UNCHANGED lock
    /\ UNCHANGED <<loadVars, switchVars, whpVars, shouldStop, ipc,
                   threadVars, fatal>>

\* windows_emulator::stop: no lock; every vCPU is told to stop.
Stop == shouldStop' = TRUE /\ CpuStop(Vcpus)

\* The worker (or, with one vCPU, start's finally) winds the whole run down.
WindDown(v) ==
    /\ pc[v] = "winddown"
    /\ Stop
    /\ pc' = [pc EXCEPT ![v] = "done"]
    /\ UNCHANGED <<lock, loadVars, switchVars, runActive, tlbFlush, ipc,
                   threadVars, fatal>>

\* Every worker has ended and the interrupt thread is joined; the owner of the
\* emulator calls start again.
StartAgain ==
    /\ \A v \in Vcpus : pc[v] = "done"
    /\ ipc = "done"
    /\ shouldStop' = FALSE
    /\ pc' = [v \in Vcpus |-> "begin"]
    /\ ipc' = "sleep"
    /\ fatal' = [v \in Vcpus |-> FALSE]
    /\ UNCHANGED <<lock, loadVars, switchVars, whpVars, threadVars>>

----------------------------------------------------------------------------
(* The interrupt thread.                                                   *)

\* 20 ms have passed, or should_stop ended the wait.
InterruptWake ==
    /\ ipc = "sleep"
    /\ ipc' = IF shouldStop THEN "done" ELSE "lock"
    /\ UNCHANGED <<lock, pc, loadVars, switchVars, whpVars, shouldStop,
                   threadVars, fatal>>

\* The switch request of every vCPU, then the stop of every vCPU, all under the
\* kernel lock.  The code goes vCPU by vCPU; switch_thread is only read under
\* the lock, so setting them all first differs in nothing a worker can see.
InterruptSwitch ==
    /\ ipc = "lock"
    /\ lock = None
    /\ lock' = InterruptThread
    /\ switchThread' = [v \in Vcpus |-> TRUE]
    /\ ipc' = "stop"
    /\ UNCHANGED <<pc, loadVars, neededSwitch, whpVars, shouldStop, threadVars,
                   fatal>>

\* Mutant: the vCPUs are asked to switch but not stopped.
InterruptNoStop ==
    /\ ipc = "stop"
    /\ lock' = None
    /\ ipc' = "sleep"
    /\ UNCHANGED <<pc, loadVars, switchVars, whpVars, shouldStop, threadVars,
                   fatal>>

InterruptStop ==
    /\ ipc = "stop"
    /\ CpuStop(Vcpus)
    /\ lock' = None
    /\ ipc' = "sleep"
    /\ UNCHANGED <<pc, loadVars, switchVars, runActive, tlbFlush, shouldStop,
                   threadVars, fatal>>

----------------------------------------------------------------------------
(* Syscalls: the hook holds the kernel lock for the whole handler, then the *)
(* backend's run loop goes round.                                          *)

Hook(v) ==
    /\ pc[v] = "hook"
    /\ lock = None
    /\ pc' = [pc EXCEPT ![v] = "run"]

Syscall(v, op) == op \in Ops /\ Hook(v)

\* A syscall that touches none of this state.
SysOther(v) ==
    /\ Hook(v)
    /\ UNCHANGED <<lock, loadVars, switchVars, whpVars, shouldStop, ipc,
                   threadVars, fatal>>

\* Mutant: the switch is requested but the vCPU is not stopped.
YieldNoStop(v) ==
    /\ switchThread' = [switchThread EXCEPT ![v] = TRUE]
    /\ UNCHANGED <<stopRequested, cancelPending>>

\* yield_thread on the acting vCPU.
YieldThread(v) ==
    /\ switchThread' = [switchThread EXCEPT ![v] = TRUE]
    /\ CpuStop({v})

\* A wait that is not satisfied: the await state is set and the thread yields.
SysWait(v) ==
    /\ Syscall(v, "wait")
    /\ state' = [state EXCEPT ![active[v]] =
                    IF Terminated(active[v]) THEN @ ELSE "blocked"]
    /\ YieldThread(v)
    /\ UNCHANGED <<lock, loadVars, neededSwitch, runActive, tlbFlush,
                   shouldStop, ipc, refCount, saved, fatal>>

\* NtYieldExecution.
SysYield(v) ==
    /\ Syscall(v, "yield")
    /\ YieldThread(v)
    /\ UNCHANGED <<lock, loadVars, neededSwitch, runActive, tlbFlush,
                   shouldStop, ipc, threadVars, fatal>>

\* A syscall that satisfies another thread's wait (event, mutant, alert, ...).
SysSignal(v, t) ==
    /\ Syscall(v, "signal")
    /\ state[t] = "blocked"
    /\ state' = [state EXCEPT ![t] = "ready"]
    /\ UNCHANGED <<lock, loadVars, switchVars, whpVars, shouldStop, ipc,
                   refCount, saved, fatal>>

\* NtCreateThreadEx: the lowest free slot of the handle store, one reference.
SysCreateThread(v) ==
    LET free == {t \in Threads : ~Present(t)}
        t    == Min(free)
    IN
    /\ Syscall(v, "create")
    /\ free # {}
    /\ state' = [state EXCEPT ![t] = "ready"]
    /\ refCount' = [refCount EXCEPT ![t] = 1]
    /\ saved' = [saved EXCEPT ![t] = TRUE]
    /\ UNCHANGED <<lock, loadVars, switchVars, whpVars, shouldStop, ipc,
                   fatal>>

\* NtTerminateThread: only a thread that ends itself yields.
SysTerminateThread(v, t) ==
    /\ Syscall(v, "terminate")
    /\ Present(t)
    /\ state' = [state EXCEPT ![t] = "terminated"]
    /\ IF t = active[v]
       THEN YieldThread(v)
       ELSE UNCHANGED <<switchThread, stopRequested, cancelPending>>
    /\ UNCHANGED <<lock, loadVars, neededSwitch, runActive, tlbFlush,
                   shouldStop, ipc, refCount, saved, fatal>>

\* NtTerminateProcess with a null handle: every thread but the caller ends.
SysTerminateOthers(v) ==
    /\ Syscall(v, "terminate")
    /\ state' = [t \in Threads |-> IF Present(t) /\ t # active[v] THEN "terminated"
                                                                  ELSE state[t]]
    /\ UNCHANGED <<lock, loadVars, switchVars, whpVars, shouldStop, ipc,
                   refCount, saved, fatal>>

\* NtClose of a thread handle: the store erases the thread when the last
\* reference goes and it has terminated, whoever has it loaded.  A guest that
\* only does "detach" closes the handles of threads that still run.
SysCloseThread(v, t) ==
    /\ Hook(v)
    /\ Present(t)
    /\ "close" \in Ops \/ ("detach" \in Ops /\ ~Terminated(t))
    /\ refCount[t] = 1
    /\ refCount' = [refCount EXCEPT ![t] = 0]
    /\ state' = [state EXCEPT ![t] = IF Terminated(t) THEN "absent" ELSE @]
    /\ UNCHANGED <<lock, loadVars, switchVars, whpVars, shouldStop, ipc,
                   saved, fatal>>

\* Mutant: only vCPUs inside their run call are cancelled.
RemapCancelsRunning(v) ==
    /\ Syscall(v, "remap")
    /\ tlbFlush' = [w \in Vcpus |-> TRUE]
    /\ cancelPending' = [w \in Vcpus |-> cancelPending[w] \/ runActive[w]]
    /\ UNCHANGED <<lock, loadVars, switchVars, stopRequested, runActive,
                   shouldStop, ipc, threadVars, fatal>>

\* A syscall that changes the shared page tables: every vCPU is to flush its
\* translations, and is cancelled whether or not it is in its run call.
SysRemap(v) ==
    /\ Syscall(v, "remap")
    /\ tlbFlush' = [w \in Vcpus |-> TRUE]
    /\ cancelPending' = [w \in Vcpus |-> TRUE]
    /\ UNCHANGED <<lock, loadVars, switchVars, stopRequested, runActive,
                   shouldStop, ipc, threadVars, fatal>>

\* A handler that gives up on the guest: it stops its own vCPU and nothing else.
SysFatal(v) ==
    /\ Syscall(v, "fatal")
    /\ CpuStop({v})
    /\ fatal' = [fatal EXCEPT ![v] = TRUE]
    /\ UNCHANGED <<lock, loadVars, switchVars, runActive, tlbFlush, shouldStop,
                   ipc, threadVars>>

\* NtTerminateProcess on the current process, or a dispatcher error.
SysExitProcess(v) ==
    /\ Syscall(v, "exit")
    /\ Stop
    /\ UNCHANGED <<lock, loadVars, switchVars, runActive, tlbFlush, ipc,
                   threadVars, fatal>>

----------------------------------------------------------------------------
(* Host threads.                                                           *)

\* A host thread signals a guest event under try_lock, or a timed wait expires.
HostWake(t) ==
    /\ "host_wake" \in Ops
    /\ lock = None
    /\ state[t] = "blocked"
    /\ state' = [state EXCEPT ![t] = "ready"]
    /\ UNCHANGED <<lock, pc, loadVars, switchVars, whpVars, shouldStop,
                   ipc, refCount, saved, fatal>>

\* The host's interrupt handler (Ctrl+C) calls stop during a run.
HostStop ==
    /\ "host_stop" \in Ops
    /\ \E v \in Vcpus : pc[v] # "done"
    /\ Stop
    /\ UNCHANGED <<lock, pc, loadVars, switchVars, runActive, tlbFlush, ipc,
                   threadVars, fatal>>

\* handle_ui_event posts a message to thread t, which may end its wait, and
\* kicks the vCPU that has it loaded, or vCPU 0.
HandleUiEvent(t) ==
    /\ "ui" \in Ops
    /\ lock = None
    /\ Present(t)
    /\ ~Terminated(t)
    /\ LET v == IF LoadedOn(t) # {} THEN Min(LoadedOn(t)) ELSE 0
       IN  /\ switchThread' = [switchThread EXCEPT ![v] = TRUE]
           /\ CpuStop({v})
    /\ state' \in {state, [state EXCEPT ![t] = "ready"]}
    /\ UNCHANGED <<lock, pc, loadVars, neededSwitch, runActive, tlbFlush,
                   shouldStop, ipc, refCount, saved, fatal>>

----------------------------------------------------------------------------

Backend(v) == RunBegin(v) \/ RunLoop(v) \/ RunEnter(v) \/ RunCanceled(v)

Worker(v) == WorkerBegin(v) \/ WorkerLoop(v) \/ InlineLoop(v) \/ InlinePumped(v)
             \/ SwitchToNextThread(v) \/ IdleRetry(v)
             \/ QuantumReturn(v) \/ WindDown(v)

Interrupt == InterruptWake \/ InterruptSwitch \/ InterruptStop

Handler(v) == SysOther(v) \/ SysWait(v) \/ SysYield(v) \/ SysCreateThread(v)
              \/ SysRemap(v) \/ SysFatal(v) \/ SysExitProcess(v) \/ SysTerminateOthers(v)
              \/ \E t \in Threads : SysSignal(v, t) \/ SysTerminateThread(v, t)
                                    \/ SysCloseThread(v, t)

Next == \/ \E v \in Vcpus : Backend(v) \/ Worker(v) \/ Handler(v)
                            \/ RunSyscallExit(v) \/ RunFault(v)
        \/ \E t \in Threads : HostWake(t) \/ HandleUiEvent(t)
        \/ Interrupt
        \/ HostStop
        \/ StartAgain

Spec == Init /\ [][Next]_vars

\* Host threads keep running, and the kernel lock is handed to every waiter
\* sooner or later; guest code owes nothing, it may compute for ever.
Fairness ==
    /\ \A v \in Vcpus : WF_vars(Backend(v)) /\ SF_vars(Worker(v))
                        /\ SF_vars(Handler(v))
    /\ WF_vars(InterruptWake) /\ SF_vars(InterruptSwitch) /\ WF_vars(InterruptStop)

FairSpec == Spec /\ Fairness

----------------------------------------------------------------------------
(* Properties.                                                             *)

\* A guest thread is loaded on at most one vCPU, whatever the interleaving of
\* the workers' switches (switch_to_thread, "A thread that is loaded on another
\* vCPU can only run there").
ThreadOnOneVcpu ==
    \A v, w \in Vcpus : v # w /\ active[v] # None => active[v] # active[w]

\* The thread a vCPU points to is in the thread store: no erase, by the reaper
\* of perform_context_switch_work or by NtClose, takes it away.
ActiveThreadExists ==
    \A v \in Vcpus : active[v] # None => Present(active[v])

\* No register state is lost: a live thread that no vCPU has loaded has its
\* latest registers in last_registers, and a loaded one has them in its CPU
\* (save and restore in switch_to_thread, the detach of an idle worker).
RegistersNotLost ==
    /\ \A v \in Vcpus : active[v] # None => cpuRegs[v] = active[v]
    /\ \A t \in Threads : Present(t) /\ ~Terminated(t) /\ LoadedOn(t) = {}
                            => saved[t]

\* A worker leaves its loop only because the run is being stopped or because
\* of a fatal error on its own vCPU: no preemption, UI kick, yield or TLB-flush
\* cancel is ever taken for a wind-down (the hazard the comment on the
\* interrupt thread describes).
WindDownJustified ==
    \A v \in Vcpus : pc[v] \in {"winddown", "done"} => shouldStop \/ fatal[v]

\* A vCPU that executes guest code runs a thread that is not blocked (its wait
\* syscall stops the vCPU before the hook returns, yield_thread), and has a
\* cancel on the way while a TLB flush is pending for it: a page-table change is
\* not missed by a vCPU that was about to enter (flush_virtual_address_mappings).
GuestEntryJustified ==
    \A v \in Vcpus : pc[v] = "guest" =>
        /\ active[v] # None => state[active[v]] # "blocked"
        /\ tlbFlush[v] => cancelPending[v]

\* The single-vCPU loop of start calls vcpu.thread(), which throws without an
\* active thread: when it does, also in a run started after an earlier one
\* stopped, there is one.
InlineLoopHasThread ==
    \A v \in Vcpus : NumVcpus = 1 /\ pc[v] = "pump" /\ ~switchThread[v]
                        => active[v] # None

\* The lock is held by the party whose program counter says so.
LockInv ==
    /\ \A v \in Vcpus : lock = v <=> pc[v] \in {"loop", "switch"}
    /\ lock = InterruptThread <=> ipc = "stop"

\* What makes WindDownJustified and GuestEntryJustified inductive: in a quantum
\* every stop request comes with a pending switch, a stop of the run or a fatal
\* error, and a thread that has blocked is still in its hook's quantum with the
\* stop request yield_thread made.
QuantumInv ==
    /\ ipc = "stop" => \A v \in Vcpus : switchThread[v]
    /\ \A v \in Vcpus :
        /\ pc[v] = "guest" <=> runActive[v]
        /\ pc[v] = "start" \/ InQuantum(v) => active[v] # None
        /\ InQuantum(v) /\ (stopRequested[v] \/ pc[v] = "returned")
             => switchThread[v] \/ shouldStop \/ fatal[v]
        /\ pc[v] \in {"start", "enter", "guest", "hook"}
             => state[active[v]] # "blocked"
        /\ pc[v] = "run" /\ state[active[v]] = "blocked" => stopRequested[v]
        /\ pc[v] \in {"enter", "guest"} /\ tlbFlush[v] => cancelPending[v]

\* The inductive invariant: with it, the safety properties above follow from
\* one step of any worker, hook, host thread or the interrupt thread.
IInv == /\ TypeOK
        /\ LockInv
        /\ QuantumInv
        /\ ThreadOnOneVcpu
        /\ ActiveThreadExists
        /\ RegistersNotLost
        /\ WindDownJustified

\* What makes InlineLoopHasThread inductive: with one vCPU, a thread is blocked
\* or ended only by itself, with the stop request of its yield; and while the
\* thread it has loaded is gone the vCPU has a switch request, or the one that
\* perform_thread_switch consumed and hands back when the run stops.
SingleInv ==
    NumVcpus = 1 => \A v \in Vcpus :
        /\ active[v] = None \/ ~Present(active[v]) \/ Terminated(active[v])
             => IF pc[v] \in {"switch", "idle"} THEN neededSwitch[v] ELSE switchThread[v]
        /\ pc[v] \in {"start", "enter", "guest", "hook"} => Ready(active[v])
        /\ pc[v] = "run" => Ready(active[v]) \/ stopRequested[v]

SchedulerInv == IInv /\ SingleInv

\* Every ready thread is loaded on some vCPU eventually, unless the run stops
\* (round robin of switch_to_next_thread under the interrupt thread).
ReadyThreadRuns ==
    \A t \in Threads :
        Ready(t) ~> (~Ready(t) \/ LoadedOn(t) # {} \/ shouldStop)

\* A thread another thread terminated leaves its vCPU: "currently take effect
\* at the next ~20ms timer preemption" (docs/multi-vcpu-design.md).
TerminationTakesEffect ==
    \A v \in Vcpus, t \in Threads :
        (Terminated(t) /\ active[v] = t) ~> (active[v] # t \/ shouldStop)

\* stop ends the run: every worker leaves its loop ("`stop()` cancels all
\* vCPUs", docs/multi-vcpu-design.md).
StopEndsRun == shouldStop ~> (\A v \in Vcpus : pc[v] = "done")
============================================================================
