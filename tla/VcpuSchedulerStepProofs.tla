----------------------- MODULE VcpuSchedulerStepProofs -----------------------
(***************************************************************************)
(* The invariant IInv of VcpuScheduler is kept by the run quantum and the  *)
(* loops around it and by the system calls, for any number of vCPUs and    *)
(* thread slots: one lemma per action, one step per conjunct.              *)
(***************************************************************************)
EXTENDS VcpuScheduler, TLAPS

\* The values that stand for "no thread", "lock free" and the interrupt thread
\* are none of the vCPUs or threads.
LEMMA ConstFacts ==
    /\ None \notin Vcpus /\ InterruptThread \notin Vcpus /\ None # InterruptThread
    /\ None \notin Threads /\ 0 \in Vcpus /\ 0 \in Threads
BY NumVcpusAssumption, NumThreadsAssumption
   DEF None, InterruptThread, Vcpus, Threads

\* A step that loads no thread and changes none leaves the invariants on the
\* loaded threads alone.
LEMMA SameThreads ==
    ASSUME ThreadOnOneVcpu, ActiveThreadExists, RegistersNotLost,
           UNCHANGED <<active, cpuRegs, state, saved>>
    PROVE  ThreadOnOneVcpu' /\ ActiveThreadExists' /\ RegistersNotLost'
BY ZenonT(60) DEF ThreadOnOneVcpu, ActiveThreadExists, RegistersNotLost, Present, Terminated, LoadedOn

\* The run call drops the stop request left over from an earlier quantum.
LEMMA RunBeginInv ==
    ASSUME IInv, NEW v \in Vcpus, RunBegin(v)
    PROVE  IInv'
<1> USE ConstFacts DEF IInv, RunBegin,
            loadVars, switchVars, whpVars, threadVars
<1>1. TypeOK'
  BY DEF TypeOK
<1>2. LockInv'
  BY DEF TypeOK, LockInv
<1>3. QuantumInv'
  BY DEF TypeOK, QuantumInv, InQuantum, ActiveThreadExists, Present
<1>4. ThreadOnOneVcpu' /\ ActiveThreadExists' /\ RegistersNotLost'
  BY SameThreads, ZenonT(60)
<1>5. WindDownJustified'
  BY DEF TypeOK, WindDownJustified, QuantumInv, InQuantum
<1> QED  BY <1>1, <1>2, <1>3, <1>4, <1>5 DEF IInv

\* The head of the backend's run loop.
LEMMA RunLoopInv ==
    ASSUME IInv, NEW v \in Vcpus, RunLoop(v)
    PROVE  IInv'
<1> USE ConstFacts DEF IInv, RunLoop,
            loadVars, switchVars, whpVars, threadVars
<1>1. TypeOK'
  BY ZenonT(60) DEF TypeOK
<1>2. LockInv'
  BY DEF TypeOK, LockInv
<1>3. QuantumInv'
  BY DEF TypeOK, QuantumInv, InQuantum, ActiveThreadExists, Present
<1>4. ThreadOnOneVcpu' /\ ActiveThreadExists' /\ RegistersNotLost'
  BY SameThreads, ZenonT(60)
<1>5. WindDownJustified'
  BY DEF TypeOK, WindDownJustified, QuantumInv, InQuantum
<1> QED  BY <1>1, <1>2, <1>3, <1>4, <1>5 DEF IInv

\* The guest is entered; the saved registers of the loaded thread go stale.
LEMMA RunEnterInv ==
    ASSUME IInv, NEW v \in Vcpus, RunEnter(v)
    PROVE  IInv'
<1> USE ConstFacts DEF IInv, RunEnter,
            loadVars, switchVars, whpVars, threadVars
<1>1. TypeOK'
  BY DEF TypeOK
<1>2. LockInv'
  BY DEF TypeOK, LockInv
<1>3. QuantumInv'
  BY DEF TypeOK, QuantumInv, InQuantum, ActiveThreadExists, Present
<1>4. ThreadOnOneVcpu'
  BY DEF TypeOK, ThreadOnOneVcpu
<1>5. ActiveThreadExists'
  BY DEF TypeOK, ActiveThreadExists, QuantumInv, InQuantum, Present, Terminated
<1>6. RegistersNotLost'
  BY DEF TypeOK, RegistersNotLost, Present, Terminated, LoadedOn
<1>7. WindDownJustified'
  BY DEF TypeOK, WindDownJustified, QuantumInv, InQuantum
<1> QED  BY <1>1, <1>2, <1>3, <1>4, <1>5, <1>6, <1>7 DEF IInv

\* A cancelled run either returns on a stop request or goes round.
LEMMA RunCanceledInv ==
    ASSUME IInv, NEW v \in Vcpus, RunCanceled(v)
    PROVE  IInv'
<1> USE ConstFacts DEF IInv, RunCanceled,
            loadVars, switchVars, whpVars, threadVars
<1>1. TypeOK'
  BY DEF TypeOK
<1>2. LockInv'
  BY DEF TypeOK, LockInv
<1>3. QuantumInv'
  BY DEF TypeOK, QuantumInv, InQuantum, ActiveThreadExists, Present
<1>4. ThreadOnOneVcpu' /\ ActiveThreadExists' /\ RegistersNotLost'
  BY SameThreads, ZenonT(60)
<1>5. WindDownJustified'
  BY DEF TypeOK, WindDownJustified, QuantumInv, InQuantum
<1> QED  BY <1>1, <1>2, <1>3, <1>4, <1>5 DEF IInv

\* A syscall leaves the guest.
LEMMA RunSyscallExitInv ==
    ASSUME IInv, NEW v \in Vcpus, RunSyscallExit(v)
    PROVE  IInv'
<1> USE ConstFacts DEF IInv, RunSyscallExit,
            loadVars, switchVars, whpVars, threadVars
<1>1. TypeOK'
  BY DEF TypeOK
<1>2. LockInv'
  BY DEF TypeOK, LockInv
<1>3. QuantumInv'
  BY DEF TypeOK, QuantumInv, InQuantum, ActiveThreadExists, Present
<1>4. ThreadOnOneVcpu' /\ ActiveThreadExists' /\ RegistersNotLost'
  BY SameThreads, ZenonT(60)
<1>5. WindDownJustified'
  BY DEF TypeOK, WindDownJustified, QuantumInv, InQuantum
<1> QED  BY <1>1, <1>2, <1>3, <1>4, <1>5 DEF IInv

\* An exit the backend cannot handle is recorded as fatal.
LEMMA RunFaultInv ==
    ASSUME IInv, NEW v \in Vcpus, RunFault(v)
    PROVE  IInv'
<1> USE ConstFacts DEF IInv, RunFault,
            loadVars, switchVars, whpVars, threadVars
<1>1. TypeOK'
  BY DEF TypeOK
<1>2. LockInv'
  BY DEF TypeOK, LockInv
<1>3. QuantumInv'
  BY DEF TypeOK, QuantumInv, InQuantum, ActiveThreadExists, Present
<1>4. ThreadOnOneVcpu' /\ ActiveThreadExists' /\ RegistersNotLost'
  BY SameThreads, ZenonT(60)
<1>5. WindDownJustified'
  BY DEF TypeOK, WindDownJustified, QuantumInv, InQuantum
<1> QED  BY <1>1, <1>2, <1>3, <1>4, <1>5 DEF IInv

\* A worker takes the kernel lock for the first time.
LEMMA WorkerBeginInv ==
    ASSUME IInv, NEW v \in Vcpus, WorkerBegin(v)
    PROVE  IInv'
<1> USE ConstFacts DEF IInv, WorkerBegin,
            loadVars, switchVars, whpVars, threadVars
<1>1. TypeOK'
  BY DEF TypeOK
<1>2. LockInv'
  BY DEF TypeOK, LockInv
<1>3. QuantumInv'
  BY DEF TypeOK, QuantumInv, InQuantum, ActiveThreadExists, Present
<1>4. ThreadOnOneVcpu' /\ ActiveThreadExists' /\ RegistersNotLost'
  BY SameThreads, ZenonT(60)
<1>5. WindDownJustified'
  BY DEF TypeOK, WindDownJustified, QuantumInv, InQuantum
<1> QED  BY <1>1, <1>2, <1>3, <1>4, <1>5 DEF IInv

\* The head of vcpu_worker's loop, with the check whether to switch.
LEMMA WorkerLoopInv ==
    ASSUME IInv, NEW v \in Vcpus, WorkerLoop(v)
    PROVE  IInv'
<1> USE ConstFacts DEF IInv, WorkerLoop, CheckSwitch,
            loadVars, switchVars, whpVars, threadVars
<1>1. TypeOK'
  <2>1. switchThread[v] \in BOOLEAN /\ neededSwitch[v] \in BOOLEAN
    BY DEF TypeOK
  <2>2. switchThread' \in [Vcpus -> BOOLEAN] /\ neededSwitch' \in [Vcpus -> BOOLEAN]
    BY <2>1, ZenonT(60) DEF TypeOK
  <2> QED  BY <2>2 DEF TypeOK
<1>2. LockInv'
  BY DEF TypeOK, LockInv
<1>3. QuantumInv'
  BY DEF TypeOK, QuantumInv, InQuantum, ActiveThreadExists, Present, LockInv, Ready
<1>4. ThreadOnOneVcpu' /\ ActiveThreadExists' /\ RegistersNotLost'
  BY SameThreads, ZenonT(60)
<1>5. WindDownJustified'
  BY DEF TypeOK, WindDownJustified, QuantumInv, InQuantum
<1> QED  BY <1>1, <1>2, <1>3, <1>4, <1>5 DEF IInv

\* The single-vCPU loop releases the lock to pump UI events.
LEMMA InlineLoopInv ==
    ASSUME IInv, NEW v \in Vcpus, InlineLoop(v)
    PROVE  IInv'
<1> USE ConstFacts DEF IInv, InlineLoop,
            loadVars, switchVars, whpVars, threadVars
<1>1. TypeOK'
  BY DEF TypeOK
<1>2. LockInv'
  BY DEF TypeOK, LockInv
<1>3. QuantumInv'
  BY DEF TypeOK, QuantumInv, InQuantum, ActiveThreadExists, Present
<1>4. ThreadOnOneVcpu' /\ ActiveThreadExists' /\ RegistersNotLost'
  BY SameThreads, ZenonT(60)
<1>5. WindDownJustified'
  BY DEF TypeOK, WindDownJustified, QuantumInv, InQuantum
<1> QED  BY <1>1, <1>2, <1>3, <1>4, <1>5 DEF IInv

\* The single-vCPU loop checks whether to switch.
LEMMA InlinePumpedInv ==
    ASSUME IInv, NEW v \in Vcpus, InlinePumped(v)
    PROVE  IInv'
<1> USE ConstFacts DEF IInv, InlinePumped, CheckSwitch,
            loadVars, switchVars, whpVars, threadVars
<1>1. TypeOK'
  <2>1. switchThread[v] \in BOOLEAN /\ neededSwitch[v] \in BOOLEAN
    BY DEF TypeOK
  <2>2. switchThread' \in [Vcpus -> BOOLEAN] /\ neededSwitch' \in [Vcpus -> BOOLEAN]
    BY <2>1, ZenonT(60) DEF TypeOK
  <2> QED  BY <2>2 DEF TypeOK
<1>2. LockInv'
  BY DEF TypeOK, LockInv
<1>3. QuantumInv'
  BY DEF TypeOK, QuantumInv, InQuantum, ActiveThreadExists, Present, LockInv, Ready
<1>4. ThreadOnOneVcpu' /\ ActiveThreadExists' /\ RegistersNotLost'
  BY SameThreads, ZenonT(60)
<1>5. WindDownJustified'
  BY DEF TypeOK, WindDownJustified, QuantumInv, InQuantum
<1> QED  BY <1>1, <1>2, <1>3, <1>4, <1>5 DEF IInv

\* An idle vCPU gives up on a stop or tries to switch again.
LEMMA IdleRetryInv ==
    ASSUME IInv, NEW v \in Vcpus, IdleRetry(v)
    PROVE  IInv'
<1> USE ConstFacts DEF IInv, IdleRetry,
            loadVars, switchVars, whpVars, threadVars
<1>1. TypeOK'
  <2>1. switchThread[v] \in BOOLEAN /\ neededSwitch[v] \in BOOLEAN
    BY DEF TypeOK
  <2>2. switchThread' \in [Vcpus -> BOOLEAN] /\ neededSwitch' \in [Vcpus -> BOOLEAN]
    BY <2>1, ZenonT(60) DEF TypeOK
  <2> QED  BY <2>2 DEF TypeOK
<1>2. LockInv'
  BY DEF TypeOK, LockInv
<1>3. QuantumInv'
  BY DEF TypeOK, QuantumInv, InQuantum, ActiveThreadExists, Present, LockInv
<1>4. ThreadOnOneVcpu' /\ ActiveThreadExists' /\ RegistersNotLost'
  BY SameThreads, ZenonT(60)
<1>5. WindDownJustified'
  BY DEF TypeOK, WindDownJustified, QuantumInv, InQuantum
<1> QED  BY <1>1, <1>2, <1>3, <1>4, <1>5 DEF IInv

\* A returned quantum leads back to the loop or to a wind-down.
LEMMA QuantumReturnInv ==
    ASSUME IInv, NEW v \in Vcpus, QuantumReturn(v)
    PROVE  IInv'
<1> USE ConstFacts DEF IInv, QuantumReturn,
            loadVars, switchVars, whpVars, threadVars
<1>1. TypeOK'
  BY DEF TypeOK
<1>2. LockInv'
  BY DEF TypeOK, LockInv
<1>3. QuantumInv'
  BY DEF TypeOK, QuantumInv, InQuantum, ActiveThreadExists, Present
<1>4. ThreadOnOneVcpu' /\ ActiveThreadExists' /\ RegistersNotLost'
  BY SameThreads, ZenonT(60)
<1>5. WindDownJustified'
  BY DEF TypeOK, WindDownJustified, QuantumInv, InQuantum
<1> QED  BY <1>1, <1>2, <1>3, <1>4, <1>5 DEF IInv

\* A worker that left its loop stops the whole run.
LEMMA WindDownInv ==
    ASSUME IInv, NEW v \in Vcpus, WindDown(v)
    PROVE  IInv'
<1> USE ConstFacts DEF IInv, WindDown, Stop, CpuStop,
            loadVars, switchVars, whpVars, threadVars
<1>1. TypeOK'
  BY DEF TypeOK
<1>2. LockInv'
  BY SMTT(60) DEF TypeOK, LockInv
<1>3. QuantumInv'
  BY DEF TypeOK, QuantumInv, InQuantum, ActiveThreadExists, Present
<1>4. ThreadOnOneVcpu' /\ ActiveThreadExists' /\ RegistersNotLost'
  BY SameThreads, ZenonT(60)
<1>5. WindDownJustified'
  BY DEF TypeOK, WindDownJustified, QuantumInv, InQuantum
<1> QED  BY <1>1, <1>2, <1>3, <1>4, <1>5 DEF IInv

----------------------------------------------------------------------------
(* The system calls.                                                       *)

\* A syscall that touches none of the scheduler's state.
LEMMA SysOtherInv ==
    ASSUME IInv, NEW v \in Vcpus, SysOther(v)
    PROVE  IInv'
<1> USE ConstFacts DEF IInv, SysOther, Hook,
            loadVars, switchVars, whpVars, threadVars
<1>1. TypeOK'
  BY DEF TypeOK
<1>2. LockInv'
  BY DEF TypeOK, LockInv
<1>3. QuantumInv'
  BY DEF TypeOK, QuantumInv, InQuantum, ActiveThreadExists, Present
<1>4. ThreadOnOneVcpu' /\ ActiveThreadExists' /\ RegistersNotLost'
  BY SameThreads, ZenonT(60)
<1>5. WindDownJustified'
  BY DEF TypeOK, WindDownJustified, QuantumInv, InQuantum
<1> QED  BY <1>1, <1>2, <1>3, <1>4, <1>5, SMTT(60) DEF IInv

\* A blocking wait: the thread is blocked and its vCPU asked to stop at once.
LEMMA SysWaitInv ==
    ASSUME IInv, NEW v \in Vcpus, SysWait(v)
    PROVE  IInv'
<1> USE ConstFacts DEF IInv, SysWait, Syscall, Hook, YieldThread, CpuStop,
            loadVars, switchVars, whpVars, threadVars
<1>1. TypeOK'
  BY ZenonT(60) DEF TypeOK
<1>2. LockInv'
  BY SMTT(60) DEF TypeOK, LockInv
<1>3. QuantumInv'
  <2>1. \A w \in Vcpus : w # v /\ active[w] # None => active[w] # active[v]
    BY DEF ThreadOnOneVcpu, QuantumInv, InQuantum
  <2>2. active[v] \in Threads /\ stopRequested'[v] /\ switchThread'[v]
    BY ZenonT(60) DEF TypeOK, QuantumInv, InQuantum
  <2> QED  BY <2>1, <2>2, SMTT(60) DEF TypeOK, QuantumInv, InQuantum, Terminated
<1>4. ThreadOnOneVcpu'
  BY DEF TypeOK, ThreadOnOneVcpu
<1>5. ActiveThreadExists'
  BY DEF TypeOK, ActiveThreadExists, QuantumInv, InQuantum, Present, Terminated
<1>6. RegistersNotLost'
  BY DEF TypeOK, RegistersNotLost, Present, Terminated, LoadedOn
<1>7. WindDownJustified'
  BY DEF TypeOK, WindDownJustified, QuantumInv, InQuantum
<1> QED  BY <1>1, <1>2, <1>3, <1>4, <1>5, <1>6, <1>7 DEF IInv

\* NtYieldExecution.
LEMMA SysYieldInv ==
    ASSUME IInv, NEW v \in Vcpus, SysYield(v)
    PROVE  IInv'
<1> USE ConstFacts DEF IInv, SysYield, Syscall, Hook, YieldThread, CpuStop,
            loadVars, switchVars, whpVars, threadVars
<1>1. TypeOK'
  BY SMTT(60) DEF TypeOK
<1>2. LockInv'
  BY SMTT(60) DEF TypeOK, LockInv
<1>3. QuantumInv'
  BY SMTT(60) DEF TypeOK, QuantumInv, InQuantum, ActiveThreadExists, Present
<1>4. ThreadOnOneVcpu' /\ ActiveThreadExists' /\ RegistersNotLost'
  BY SameThreads, ZenonT(60)
<1>5. WindDownJustified'
  BY DEF TypeOK, WindDownJustified, QuantumInv, InQuantum
<1> QED  BY <1>1, <1>2, <1>3, <1>4, <1>5, SMTT(60) DEF IInv

\* A syscall ends another thread's wait.
LEMMA SysSignalInv ==
    ASSUME IInv, NEW v \in Vcpus, NEW t \in Threads, SysSignal(v, t)
    PROVE  IInv'
<1> USE ConstFacts DEF IInv, SysSignal, Syscall, Hook,
            loadVars, switchVars, whpVars, threadVars
<1>1. TypeOK'
  BY DEF TypeOK
<1>2. LockInv'
  BY SMTT(60) DEF TypeOK, LockInv
<1>3. QuantumInv'
  BY DEF TypeOK, QuantumInv, InQuantum, ActiveThreadExists, Present
<1>4. ThreadOnOneVcpu'
  BY SMTT(60) DEF TypeOK, ThreadOnOneVcpu
<1>5. ActiveThreadExists'
  BY DEF TypeOK, ActiveThreadExists, QuantumInv, InQuantum, Present, Terminated
<1>6. RegistersNotLost'
  BY SMTT(60) DEF TypeOK, RegistersNotLost, Present, Terminated, LoadedOn
<1>7. WindDownJustified'
  BY DEF TypeOK, WindDownJustified, QuantumInv, InQuantum
<1> QED  BY <1>1, <1>2, <1>3, <1>4, <1>5, <1>6, <1>7, SMTT(60) DEF IInv

\* NtTerminateThread, of the own thread or of another one.
LEMMA SysTerminateThreadInv ==
    ASSUME IInv, NEW v \in Vcpus, NEW t \in Threads, SysTerminateThread(v, t)
    PROVE  IInv'
<1> USE ConstFacts DEF IInv, SysTerminateThread, Syscall, Hook, YieldThread, CpuStop,
            loadVars, switchVars, whpVars, threadVars
<1>1. TypeOK'
  <2>1. /\ state' \in [Threads -> {"absent", "ready", "blocked", "terminated"}]
        /\ pc' \in [Vcpus -> {"begin", "loop", "pump", "switch", "idle", "start",
                           "run", "enter", "guest", "hook", "returned",
                           "winddown", "done"}]
    BY DEF TypeOK
  <2>2. switchThread' \in [Vcpus -> BOOLEAN]
    BY ZenonT(60) DEF TypeOK
  <2>3. stopRequested' \in [Vcpus -> BOOLEAN] /\ cancelPending' \in [Vcpus -> BOOLEAN]
    <3>1. CASE t = active[v]
      <4>1. CpuStop({v})
        BY <3>1, SMTT(60)
      <4> QED  BY <4>1, ZenonT(60) DEF CpuStop
    <3>2. CASE t # active[v]
      BY <3>2, SMTT(60) DEF TypeOK
    <3> QED  BY <3>1, <3>2
  <2> QED  BY <2>1, <2>2, <2>3, SMTT(60) DEF TypeOK
<1>2. LockInv'
  BY SMTT(60) DEF TypeOK, LockInv
<1>3. QuantumInv'
  BY SMTT(60) DEF TypeOK, QuantumInv, InQuantum, ActiveThreadExists, Present
<1>4. ThreadOnOneVcpu'
  BY SMTT(60) DEF TypeOK, ThreadOnOneVcpu
<1>5. ActiveThreadExists'
  BY SMTT(60) DEF TypeOK, ActiveThreadExists, QuantumInv, InQuantum, Present, Terminated
<1>6. RegistersNotLost'
  BY SMTT(60) DEF TypeOK, RegistersNotLost, Present, Terminated, LoadedOn
<1>7. WindDownJustified'
  BY DEF TypeOK, WindDownJustified, QuantumInv, InQuantum
<1> QED  BY <1>1, <1>2, <1>3, <1>4, <1>5, <1>6, <1>7, SMTT(60) DEF IInv

\* A handler that blocks no thread and asks no vCPU to stop
LEMMA QuantumKept ==
    ASSUME TypeOK, QuantumInv, NEW v \in Vcpus, pc[v] = "hook", pc' = [pc EXCEPT ![v] = "run"],
           \A w \in Vcpus : active[w] # None /\ state'[active[w]] = "blocked" => state[active[w]] = "blocked",
           active' = active, switchThread' = switchThread, stopRequested' = stopRequested,
           runActive' = runActive, cancelPending' = cancelPending, tlbFlush' = tlbFlush,
           shouldStop' = shouldStop, ipc' = ipc, fatal' = fatal
    PROVE  QuantumInv'
<1>1. pc \in [Vcpus -> {"begin", "loop", "pump", "switch", "idle", "start", "run", "enter", "guest",
                        "hook", "returned", "winddown", "done"}]
  BY ZenonT(60) DEF TypeOK
<1> QED  BY <1>1, SMTT(60) DEF QuantumInv, InQuantum

\* NtTerminateProcess on the other threads keeps the invariant.
LEMMA SysTerminateOthersInv ==
    ASSUME IInv, NEW v \in Vcpus, SysTerminateOthers(v)
    PROVE  IInv'
<1> USE ConstFacts DEF IInv, SysTerminateOthers, Syscall, Hook,
            loadVars, switchVars, whpVars, threadVars
<1>0. /\ state' \in [Threads -> {"absent", "ready", "blocked", "terminated"}]
      /\ pc' \in [Vcpus -> {"begin", "loop", "pump", "switch", "idle", "start",
                         "run", "enter", "guest", "hook", "returned",
                         "winddown", "done"}]
      /\ \A t \in Threads : state'[t] # state[t] => Present(t) /\ state'[t] = "terminated"
  BY SMTT(60) DEF TypeOK
<1>1. TypeOK'
  BY <1>0, SMTT(60) DEF TypeOK
<1>2. LockInv'
  BY SMTT(60) DEF TypeOK, LockInv
<1>3. QuantumInv'
  <2>1. \A w \in Vcpus : active[w] # None /\ state'[active[w]] = "blocked" => state[active[w]] = "blocked"
    <3> SUFFICES ASSUME NEW w \in Vcpus, active[w] # None, state'[active[w]] = "blocked"
                 PROVE  state[active[w]] = "blocked"
      BY ZenonT(60)
    <3>1. active[w] \in Threads
      BY ZenonT(60) DEF TypeOK
    <3> QED  BY <1>0, <3>1, ZenonT(60)
  <2> QED  BY <2>1, QuantumKept, ZenonT(60)
<1>4. ThreadOnOneVcpu'
  BY SMTT(60) DEF TypeOK, ThreadOnOneVcpu
<1>5. ActiveThreadExists'
  BY <1>0, SMTT(60) DEF TypeOK, ActiveThreadExists, QuantumInv, InQuantum, Present, Terminated
<1>6. RegistersNotLost'
  BY <1>0, SMTT(60) DEF TypeOK, RegistersNotLost, Present, Terminated, LoadedOn
<1>7. WindDownJustified'
  BY ZenonT(60) DEF TypeOK, WindDownJustified, QuantumInv, InQuantum
<1> QED  BY <1>1, <1>2, <1>3, <1>4, <1>5, <1>6, <1>7, SMTT(60) DEF IInv

\* NtClose of the last handle to a thread.  A terminated one disappears, which
\* is safe when no vCPU has it loaded: closing such a handle is excluded, or
\* the caller's vCPU is the only one and the caller is ready.
LEMMA SysCloseThreadInv ==
    ASSUME IInv, SingleInv, NEW v \in Vcpus, NEW t \in Threads, SysCloseThread(v, t),
           "close" \notin Ops \/ NumVcpus = 1
    PROVE  IInv'
<1> USE ConstFacts DEF IInv, SysCloseThread, Hook,
            loadVars, switchVars, whpVars, threadVars
<1>0. \A w \in Vcpus : active[w] = t => ~Terminated(t)
  <2>1. CASE "close" \notin Ops
    BY <2>1, ZenonT(60)
  <2>2. CASE NumVcpus = 1
    <3>1. Ready(active[v]) /\ \A w \in Vcpus : w = v
      BY <2>2, SMTT(60) DEF SingleInv, Vcpus
    <3> QED  BY <3>1, SMTT(60) DEF Ready, Terminated
  <2> QED  BY <2>1, <2>2
<1>1. TypeOK'
  BY SMTT(60) DEF TypeOK
<1>2. LockInv'
  BY SMTT(60) DEF TypeOK, LockInv
<1>3. QuantumInv'
  <2>1. \A w \in Vcpus : active[w] # None /\ state'[active[w]] = "blocked" => state[active[w]] = "blocked"
    BY SMTT(60) DEF TypeOK
  <2> QED  BY <2>1, QuantumKept, ZenonT(60)
<1>4. ThreadOnOneVcpu'
  BY SMTT(60) DEF TypeOK, ThreadOnOneVcpu
<1>5. ActiveThreadExists'
  BY <1>0, SMTT(60) DEF TypeOK, ActiveThreadExists, Present, Terminated
<1>6. RegistersNotLost'
  BY SMTT(60) DEF TypeOK, RegistersNotLost, Present, Terminated, LoadedOn
<1>7. WindDownJustified'
  BY DEF TypeOK, WindDownJustified, QuantumInv, InQuantum
<1> QED  BY <1>1, <1>2, <1>3, <1>4, <1>5, <1>6, <1>7, SMTT(60) DEF IInv

\* A page-table change cancels every vCPU.
LEMMA SysRemapInv ==
    ASSUME IInv, NEW v \in Vcpus, SysRemap(v)
    PROVE  IInv'
<1> USE ConstFacts DEF IInv, SysRemap, Syscall, Hook,
            loadVars, switchVars, whpVars, threadVars
<1>1. TypeOK'
  BY DEF TypeOK
<1>2. LockInv'
  BY SMTT(60) DEF TypeOK, LockInv
<1>3. QuantumInv'
  BY DEF TypeOK, QuantumInv, InQuantum, ActiveThreadExists, Present
<1>4. ThreadOnOneVcpu' /\ ActiveThreadExists' /\ RegistersNotLost'
  BY SameThreads, ZenonT(60)
<1>5. WindDownJustified'
  BY DEF TypeOK, WindDownJustified, QuantumInv, InQuantum
<1> QED  BY <1>1, <1>2, <1>3, <1>4, <1>5, SMTT(60) DEF IInv

\* A handler gives up on the guest.
LEMMA SysFatalInv ==
    ASSUME IInv, NEW v \in Vcpus, SysFatal(v)
    PROVE  IInv'
<1> USE ConstFacts DEF IInv, SysFatal, Syscall, Hook, CpuStop,
            loadVars, switchVars, whpVars, threadVars
<1>1. TypeOK'
  BY SMTT(60) DEF TypeOK
<1>2. LockInv'
  BY ZenonT(60) DEF TypeOK, LockInv
<1>3. QuantumInv'
  BY ZenonT(60) DEF TypeOK, QuantumInv, InQuantum, ActiveThreadExists, Present
<1>4. ThreadOnOneVcpu' /\ ActiveThreadExists' /\ RegistersNotLost'
  BY SameThreads, ZenonT(60)
<1>5. WindDownJustified'
  BY ZenonT(60) DEF TypeOK, WindDownJustified, QuantumInv, InQuantum
<1> QED  BY <1>1, <1>2, <1>3, <1>4, <1>5, SMTT(60) DEF IInv

\* The process ends.
LEMMA SysExitProcessInv ==
    ASSUME IInv, NEW v \in Vcpus, SysExitProcess(v)
    PROVE  IInv'
<1> USE ConstFacts DEF IInv, SysExitProcess, Syscall, Hook, Stop, CpuStop,
            loadVars, switchVars, whpVars, threadVars
<1>1. TypeOK'
  BY SMTT(60) DEF TypeOK
<1>2. LockInv'
  BY SMTT(60) DEF TypeOK, LockInv
<1>3. QuantumInv'
  BY ZenonT(60) DEF TypeOK, QuantumInv, InQuantum, ActiveThreadExists, Present
<1>4. ThreadOnOneVcpu' /\ ActiveThreadExists' /\ RegistersNotLost'
  BY SameThreads, ZenonT(60)
<1>5. WindDownJustified'
  BY ZenonT(60) DEF TypeOK, WindDownJustified, QuantumInv, InQuantum
<1> QED  BY <1>1, <1>2, <1>3, <1>4, <1>5, SMTT(60) DEF IInv
=============================================================================
