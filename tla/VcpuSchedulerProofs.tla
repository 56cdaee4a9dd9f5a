------------------------ MODULE VcpuSchedulerProofs -------------------------
(***************************************************************************)
(* Proofs about VcpuScheduler, for every number of vCPUs and thread slots. *)
(* IInv is preserved by every step: by the interrupt thread, the host, the *)
(* switch to the next thread and the creation of threads here, by the others*)
(* in VcpuSchedulerStepProofs; with one vCPU SingleInv is preserved besides.*)
(* The safety properties are conjuncts or consequences of the two.         *)
(***************************************************************************)
EXTENDS VcpuSchedulerStepProofs, WellFoundedInduction

\* The interrupt thread wakes up.
LEMMA InterruptWakeInv ==
    ASSUME IInv, InterruptWake
    PROVE  IInv'
<1> USE ConstFacts DEF IInv, InterruptWake,
            loadVars, switchVars, whpVars, threadVars
<1>1. TypeOK'
  BY SMTT(60) DEF TypeOK
<1>2. LockInv'
  BY SMTT(60) DEF TypeOK, LockInv
<1>3. QuantumInv'
  BY SMTT(60) DEF TypeOK, QuantumInv, InQuantum, ActiveThreadExists, Present
<1>4. ThreadOnOneVcpu' /\ ActiveThreadExists' /\ RegistersNotLost'
  BY SameThreads, ZenonT(60)
<1>5. WindDownJustified'
  BY DEF TypeOK, WindDownJustified, QuantumInv, InQuantum
<1> QED  BY <1>1, <1>2, <1>3, <1>4, <1>5, SMTT(60) DEF IInv

\* The interrupt thread requests a switch of every vCPU under the lock.
LEMMA InterruptSwitchInv ==
    ASSUME IInv, InterruptSwitch
    PROVE  IInv'
<1> USE ConstFacts DEF IInv, InterruptSwitch,
            loadVars, switchVars, whpVars, threadVars
<1>1. TypeOK'
  BY DEF TypeOK
<1>2. LockInv'
  BY SMTT(60) DEF TypeOK, LockInv
<1>3. QuantumInv'
  BY DEF TypeOK, QuantumInv, InQuantum, ActiveThreadExists, Present
<1>4. ThreadOnOneVcpu' /\ ActiveThreadExists' /\ RegistersNotLost'
  BY SameThreads, ZenonT(60)
<1>5. WindDownJustified'
  BY DEF TypeOK, WindDownJustified, QuantumInv, InQuantum
<1> QED  BY <1>1, <1>2, <1>3, <1>4, <1>5, SMTT(60) DEF IInv

\* The interrupt thread stops every vCPU and releases the lock.
LEMMA InterruptStopInv ==
    ASSUME IInv, InterruptStop
    PROVE  IInv'
<1> USE ConstFacts DEF IInv, InterruptStop, CpuStop,
            loadVars, switchVars, whpVars, threadVars
<1>1. TypeOK'
  BY SMTT(60) DEF TypeOK
<1>2. LockInv'
  BY SMTT(60) DEF TypeOK, LockInv
<1>3. QuantumInv'
  BY SMTT(60) DEF TypeOK, QuantumInv, InQuantum, ActiveThreadExists, Present
<1>4. ThreadOnOneVcpu' /\ ActiveThreadExists' /\ RegistersNotLost'
  BY SameThreads, ZenonT(60)
<1>5. WindDownJustified'
  BY DEF TypeOK, WindDownJustified, QuantumInv, InQuantum
<1> QED  BY <1>1, <1>2, <1>3, <1>4, <1>5, SMTT(60) DEF IInv

\* A new run starts after all workers ended.
LEMMA StartAgainInv ==
    ASSUME IInv, StartAgain
    PROVE  IInv'
<1> USE ConstFacts DEF IInv, StartAgain,
            loadVars, switchVars, whpVars, threadVars
<1>1. TypeOK'
  BY ZenonT(60) DEF TypeOK
<1>2. LockInv'
  BY SMTT(60) DEF TypeOK, LockInv
<1>3. QuantumInv'
  BY SMTT(60) DEF TypeOK, QuantumInv, InQuantum, ActiveThreadExists, Present
<1>4. ThreadOnOneVcpu' /\ ActiveThreadExists' /\ RegistersNotLost'
  BY SameThreads, ZenonT(60)
<1>5. WindDownJustified'
  BY DEF TypeOK, WindDownJustified, QuantumInv, InQuantum
<1> QED  BY <1>1, <1>2, <1>3, <1>4, <1>5 DEF IInv

\* A host thread ends a wait.
LEMMA HostWakeInv ==
    ASSUME IInv, NEW t \in Threads, HostWake(t)
    PROVE  IInv'
<1> USE ConstFacts DEF IInv, HostWake,
            loadVars, switchVars, whpVars, threadVars
<1>1. TypeOK'
  BY SMTT(60) DEF TypeOK
<1>2. LockInv'
  BY SMTT(60) DEF TypeOK, LockInv
<1>3. QuantumInv'
  BY SMTT(60) DEF TypeOK, QuantumInv, InQuantum, ActiveThreadExists, Present
<1>4. ThreadOnOneVcpu'
  BY SMTT(60) DEF TypeOK, ThreadOnOneVcpu
<1>5. ActiveThreadExists'
  BY SMTT(60) DEF TypeOK, ActiveThreadExists, QuantumInv, InQuantum, Present, Terminated
<1>6. RegistersNotLost'
  BY SMTT(60) DEF TypeOK, RegistersNotLost, Present, Terminated, LoadedOn
<1>7. WindDownJustified'
  BY DEF TypeOK, WindDownJustified, QuantumInv, InQuantum
<1> QED  BY <1>1, <1>2, <1>3, <1>4, <1>5, <1>6, <1>7, SMTT(60) DEF IInv

\* Ctrl+C stops every vCPU.
LEMMA HostStopInv ==
    ASSUME IInv, HostStop
    PROVE  IInv'
<1> USE ConstFacts DEF IInv, HostStop, Stop, CpuStop,
            loadVars, switchVars, whpVars, threadVars
<1>1. TypeOK'
  BY SMTT(60) DEF TypeOK
<1>2. LockInv'
  BY SMTT(60) DEF TypeOK, LockInv
<1>3. QuantumInv'
  BY SMTT(60) DEF TypeOK, QuantumInv, InQuantum, ActiveThreadExists, Present
<1>4. ThreadOnOneVcpu' /\ ActiveThreadExists' /\ RegistersNotLost'
  BY SameThreads, ZenonT(60)
<1>5. WindDownJustified'
  BY DEF TypeOK, WindDownJustified, QuantumInv, InQuantum
<1> QED  BY <1>1, <1>2, <1>3, <1>4, <1>5, SMTT(60) DEF IInv

\* The round robin's and the handle store's "first" slot is one of the slots
\* it is chosen from.
LEMMA MinIsMember ==
    ASSUME NEW S, S \subseteq Nat, S # {}
    PROVE  Min(S) \in S
<1> DEFINE R == OpToRel(<, Nat)
<1>0. IsWellFoundedOn(R, Nat)
  BY NatLessThanWellFounded, ZenonT(60)
<1>1. PICK x \in S : \A y \in S : ~ (<<y, x>> \in R)
  <2> HIDE DEF R
  <2> QED  BY <1>0, WFMin, ZenonT(60)
<1>2. \A a, b \in Nat : a < b => <<a, b>> \in R
  BY ZenonT(60) DEF OpToRel
<1>3. \A y \in S : x <= y
  <2> HIDE DEF R
  <2>1. \A y \in S : x \in Nat /\ y \in Nat /\ ~(y < x)
    BY <1>1, <1>2, ZenonT(60)
  <2> QED  BY <2>1
<1> QED  BY <1>3, ZenonT(60) DEF Min

\* The round robin loads an eligible thread when there is one.
LEMMA RoundRobinEligible ==
    ASSUME NEW v \in Vcpus, NEW cur, Eligible(v) # {}
    PROVE  RoundRobin(cur, Eligible(v)) \in Eligible(v)
<1> DEFINE after == {t \in Eligible(v) : cur # None /\ t > cur}
           S == IF after # {} THEN after ELSE Eligible(v)
<1>1. S \subseteq Eligible(v) /\ S # {} /\ S \subseteq Nat
  BY NumThreadsAssumption DEF Eligible, Threads
<1>2. Min(S) \in S
  <2> HIDE DEF S
  <2> QED  BY <1>1, MinIsMember, ZenonT(60)
<1> QED  BY <1>1, <1>2 DEF RoundRobin

\* switch_to_next_thread: the reaper spares what other vCPUs have loaded, the
\* outgoing thread is saved, and the incoming one is loaded nowhere else.
LEMMA SwitchToNextThreadInv ==
    ASSUME IInv, NEW v \in Vcpus, SwitchToNextThread(v)
    PROVE  IInv'
<1> DEFINE reaped == Reapable(v)
           cur    == IF active[v] \in reaped THEN None ELSE active[v]
           next   == RoundRobin(cur, Eligible(v))
<1> USE ConstFacts
<1>i. /\ TypeOK /\ LockInv /\ QuantumInv /\ ThreadOnOneVcpu /\ ActiveThreadExists
      /\ RegistersNotLost /\ WindDownJustified
  BY SMTT(60) DEF IInv
<1>0. /\ pc[v] = "switch" /\ lock = v /\ lock' = None
      /\ state' = [t \in Threads |-> IF t \in reaped THEN "absent" ELSE state[t]]
      /\ UNCHANGED <<switchThread, whpVars, shouldStop, ipc, refCount, fatal>>
  BY <1>i DEF SwitchToNextThread, LockInv, loadVars, switchVars, whpVars, threadVars
<1>1. \A t \in reaped : Terminated(t) /\ \A w \in Vcpus \ {v} : active[w] # t
  BY DEF Reapable, LoadedElsewhere, LoadedOn
<1>2. CASE Eligible(v) # {}
  <2>1. /\ active' = [active EXCEPT ![v] = next]
        /\ saved' = SaveRegisters(v, {cur} \ {next})
        /\ cpuRegs' = [cpuRegs EXCEPT ![v] = next]
        /\ pc' = [pc EXCEPT ![v] = "start"]
        /\ neededSwitch' = [neededSwitch EXCEPT ![v] = FALSE]
    BY <1>2 DEF SwitchToNextThread, loadVars, switchVars, whpVars, threadVars
  <2>2. next \in Threads /\ Ready(next) /\ \A w \in Vcpus \ {v} : active[w] # next
    BY <1>2, RoundRobinEligible, ZenonT(60) DEF Eligible, LoadedElsewhere, LoadedOn
  <2>c. cur = (IF active[v] \in reaped THEN None ELSE active[v])
    OBVIOUS
  <2> HIDE DEF reaped, next, cur
  <2>3. TypeOK'
    BY <2>c, <1>i, <1>0, <2>1, <2>2, ZenonT(60) DEF TypeOK, SaveRegisters, whpVars
  <2>4. LockInv'
    BY <1>i, <1>0, <2>1, SMTT(60) DEF TypeOK, LockInv
  <2>5. QuantumInv'
    <3>1. active'[v] = next /\ pc'[v] = "start" /\ state'[next] # "blocked"
      BY <1>i, <1>0, <2>1, <2>2, SMTT(60) DEF TypeOK, Ready
    <3>2. \A w \in Vcpus \ {v} : active'[w] = active[w] /\ pc'[w] = pc[w]
      BY <1>i, <2>1, SMTT(60) DEF TypeOK
    <3>3. \A u \in Threads : state'[u] = "blocked" => state[u] = "blocked"
      BY <1>i, <1>0, SMTT(60) DEF TypeOK
    <3>4. \A w \in Vcpus : active[w] # None => active[w] \in Threads
      BY <1>i DEF TypeOK
    <3>5. ipc # "stop" /\ pc[v] # "guest"
      BY <1>i, <1>0, SMTT(60) DEF LockInv
    <3> QED  BY <1>i, <1>0, <2>2, <3>1, <3>2, <3>3, <3>4, <3>5, SMTT(60)
             DEF QuantumInv, InQuantum, whpVars
  <2>6. ThreadOnOneVcpu'
    BY <1>i, <2>1, <2>2, SMTT(60) DEF TypeOK, ThreadOnOneVcpu
  <2>7. ActiveThreadExists'
    BY <1>i, <1>0, <1>1, <2>1, <2>2, SMTT(60) DEF TypeOK, ActiveThreadExists, Present, Ready, Terminated
  <2>8. RegistersNotLost'
    <3>1. \A w \in Vcpus : active'[w] # None => cpuRegs'[w] = active'[w]
      BY <1>i, <2>1, <2>2, SMTT(60) DEF TypeOK, RegistersNotLost
    <3>2. SUFFICES ASSUME NEW t \in Threads, Present(t)', ~Terminated(t)', LoadedOn(t)' = {}
                   PROVE  saved'[t]
      BY <1>i, <3>1, SMTT(60) DEF RegistersNotLost
    <3>3. t \notin reaped /\ state[t] = state'[t]
      BY <1>i, <1>0, <3>2, SMTT(60) DEF Present, TypeOK
    <3>4. \A w \in Vcpus \ {v} : active[w] # t
      BY <1>i, <2>1, <2>2, <3>2, ZenonT(60) DEF LoadedOn, TypeOK
    <3>5. CASE active[v] = t
      <4>1. cur = t /\ cpuRegs[v] = t
        BY <2>c, <1>i, <3>3, <3>5, ZenonT(60) DEF RegistersNotLost
      <4>2. next # t
        BY <1>i, <2>1, <2>2, <3>2, <4>1, NumVcpusAssumption, SMTT(60) DEF LoadedOn, TypeOK
      <4> QED  BY <2>1, <2>2, <4>1, <4>2, ZenonT(60) DEF SaveRegisters
    <3>6. CASE active[v] # t
      <4>1. LoadedOn(t) = {} /\ t # cur
        BY <2>c, <3>4, <3>6, SMTT(60) DEF LoadedOn
      <4>2. saved[t]
        BY <1>i, <3>2, <3>3, <4>1, SMTT(60) DEF RegistersNotLost, Present, Terminated
      <4> QED  BY <2>1, <2>2, <4>1, <4>2 DEF SaveRegisters
    <3> QED  BY <3>5, <3>6, SMTT(60)
  <2>9. WindDownJustified'
    BY <1>i, <1>0, <2>1, SMTT(60) DEF TypeOK, WindDownJustified
  <2> QED  BY <2>3, <2>4, <2>5, <2>6, <2>7, <2>8, <2>9, SMTT(60) DEF IInv
<1>3. CASE Eligible(v) = {}
  <2>1. /\ active' = [active EXCEPT ![v] = IF NumVcpus > 1 THEN None ELSE cur]
        /\ saved' = SaveRegisters(v, IF NumVcpus > 1 THEN {cur} ELSE {})
        /\ cpuRegs' = [cpuRegs EXCEPT ![v] = active'[v]]
        /\ pc' = [pc EXCEPT ![v] = "idle"]
        /\ UNCHANGED neededSwitch
    BY <1>3 DEF SwitchToNextThread, loadVars, switchVars, whpVars, threadVars
  <2>c. cur = (IF active[v] \in reaped THEN None ELSE active[v])
    OBVIOUS
  <2> HIDE DEF reaped, cur
  <2>3. TypeOK'
    BY <2>c, <1>i, <1>0, <2>1, ZenonT(60) DEF TypeOK, SaveRegisters, whpVars
  <2>4. LockInv'
    BY <1>i, <1>0, <2>1, SMTT(60) DEF TypeOK, LockInv
  <2>5. QuantumInv'
    <3>1. pc'[v] = "idle"
      BY <1>i, <2>1, SMTT(60) DEF TypeOK
    <3>2. \A w \in Vcpus \ {v} : active'[w] = active[w] /\ pc'[w] = pc[w]
      BY <1>i, <2>1, SMTT(60) DEF TypeOK
    <3>3. \A u \in Threads : state'[u] = "blocked" => state[u] = "blocked"
      BY <1>i, <1>0 DEF TypeOK
    <3>4. \A w \in Vcpus : active[w] # None => active[w] \in Threads
      BY <1>i DEF TypeOK
    <3>5. ipc # "stop" /\ pc[v] # "guest"
      BY <1>i, <1>0 DEF LockInv
    <3> QED  BY <1>i, <1>0, <3>1, <3>2, <3>3, <3>4, <3>5, SMTT(60)
             DEF QuantumInv, InQuantum, whpVars
  <2>6. ThreadOnOneVcpu'
    BY <2>c, <1>i, <2>1, SMTT(60) DEF TypeOK, ThreadOnOneVcpu
  <2>7. ActiveThreadExists'
    BY <2>c, <1>i, <1>0, <1>1, <2>1, SMTT(60) DEF TypeOK, ActiveThreadExists, Present, Terminated
  <2>8. RegistersNotLost'
    <3>1. \A w \in Vcpus : active'[w] # None => cpuRegs'[w] = active'[w]
      BY <1>i, <2>1, SMTT(60) DEF TypeOK, RegistersNotLost
    <3>2. SUFFICES ASSUME NEW t \in Threads, Present(t)', ~Terminated(t)', LoadedOn(t)' = {}
                   PROVE  saved'[t]
      BY <1>i, <3>1 DEF RegistersNotLost
    <3>3. t \notin reaped /\ state[t] = state'[t]
      BY <1>i, <1>0, <3>2 DEF Present, TypeOK
    <3>4. \A w \in Vcpus \ {v} : active[w] # t
      BY <1>i, <2>1, <3>2 DEF LoadedOn, TypeOK
    <3>5. CASE active[v] = t
      <4>1. cur = t /\ cpuRegs[v] = t
        BY <2>c, <1>i, <3>3, <3>5, ZenonT(60) DEF RegistersNotLost
      <4>2. NumVcpus > 1
        BY <1>i, <2>1, <3>2, <4>1, NumVcpusAssumption, SMTT(60) DEF LoadedOn, TypeOK
      <4> QED  BY <2>1, <4>1, <4>2, ZenonT(60) DEF SaveRegisters
    <3>6. CASE active[v] # t
      <4>1. LoadedOn(t) = {} /\ t # cur
        BY <2>c, <3>4, <3>6 DEF LoadedOn
      <4>2. saved[t]
        BY <1>i, <3>2, <3>3, <4>1 DEF RegistersNotLost, Present, Terminated
      <4> QED  BY <2>1, <4>1, <4>2, SMTT(60) DEF SaveRegisters
    <3> QED  BY <3>5, <3>6
  <2>9. WindDownJustified'
    BY <1>i, <1>0, <2>1, SMTT(60) DEF TypeOK, WindDownJustified
  <2> QED  BY <2>3, <2>4, <2>5, <2>6, <2>7, <2>8, <2>9, SMTT(60) DEF IInv
<1> QED  BY <1>2, <1>3, SMTT(60)

\* NtCreateThreadEx fills a free slot, which no vCPU points to.
LEMMA SysCreateThreadInv ==
    ASSUME IInv, NEW v \in Vcpus, SysCreateThread(v)
    PROVE  IInv'
<1> DEFINE free == {t \in Threads : ~Present(t)}
           new  == Min(free)
<1> USE ConstFacts DEF IInv, Syscall, Hook, loadVars, switchVars, whpVars
<1>0. free # {} /\ free \subseteq Nat
  BY NumThreadsAssumption DEF SysCreateThread, Threads
<1>1. new \in Threads /\ ~Present(new)
  <2>1. new \in free
    <3> HIDE DEF free
    <3> QED  BY <1>0, MinIsMember, ZenonT(60)
  <2> QED  BY <2>1
<1>2. /\ state' = [state EXCEPT ![new] = "ready"]
      /\ refCount' = [refCount EXCEPT ![new] = 1]
      /\ saved' = [saved EXCEPT ![new] = TRUE]
      /\ pc[v] = "hook" /\ pc' = [pc EXCEPT ![v] = "run"] /\ lock = None
      /\ UNCHANGED <<lock, loadVars, switchVars, whpVars, shouldStop, ipc, fatal>>
  BY SMTT(60) DEF SysCreateThread
<1>3. \A w \in Vcpus : active[w] # new
  BY <1>1, SMTT(60) DEF ActiveThreadExists, TypeOK
<1> HIDE DEF new
<1>4. TypeOK'
  BY <1>1, <1>2, SMTT(60) DEF TypeOK
<1>5. LockInv'
  BY <1>2, SMTT(60) DEF TypeOK, LockInv
<1>6. QuantumInv'
  <2>1. \A w \in Vcpus : active[w] # None => state'[active[w]] = state[active[w]]
    BY <1>1, <1>2, <1>3, SMTT(60) DEF TypeOK
  <2>2. pc'[v] = "run" /\ \A w \in Vcpus \ {v} : pc'[w] = pc[w]
    BY <1>2, SMTT(60) DEF TypeOK
  <2> QED  BY <1>2, <2>1, <2>2, SMTT(60) DEF QuantumInv, InQuantum
<1>7. ThreadOnOneVcpu'
  BY <1>2, SMTT(60) DEF ThreadOnOneVcpu
<1>8. ActiveThreadExists'
  BY <1>1, <1>2, <1>3, SMTT(60) DEF TypeOK, ActiveThreadExists, Present
<1>9. RegistersNotLost'
  BY <1>1, <1>2, <1>3, SMTT(60) DEF TypeOK, RegistersNotLost, LoadedOn, Present, Terminated
<1>10. WindDownJustified'
  BY <1>2, SMTT(60) DEF TypeOK, WindDownJustified
<1> QED  BY <1>4, <1>5, <1>6, <1>7, <1>8, <1>9, <1>10

\* handle_ui_event kicks one vCPU with the switch request and the stop together.
LEMMA HandleUiEventInv ==
    ASSUME IInv, NEW t \in Threads, HandleUiEvent(t)
    PROVE  IInv'
<1> DEFINE on == IF LoadedOn(t) # {} THEN Min(LoadedOn(t)) ELSE 0
<1> USE ConstFacts DEF IInv, loadVars, whpVars
<1>1. on \in Vcpus
  <2>1. LoadedOn(t) \subseteq Vcpus /\ Vcpus \subseteq Nat
    BY NumVcpusAssumption DEF LoadedOn, Vcpus
  <2>2. LoadedOn(t) # {} => Min(LoadedOn(t)) \in LoadedOn(t)
    BY <2>1, MinIsMember, ZenonT(60)
  <2> QED  BY <2>1, <2>2
<1>2. /\ switchThread' = [switchThread EXCEPT ![on] = TRUE]
      /\ CpuStop({on})
      /\ state' \in {state, [state EXCEPT ![t] = "ready"]}
      /\ Present(t) /\ ~Terminated(t) /\ lock = None
      /\ UNCHANGED <<lock, pc, active, cpuRegs, neededSwitch, runActive, tlbFlush,
                     shouldStop, ipc, refCount, saved, fatal>>
  BY SMTT(60) DEF HandleUiEvent
<1> HIDE DEF on
<1>3. TypeOK'
  BY <1>1, <1>2, ZenonT(60) DEF TypeOK, CpuStop
<1>4. LockInv'
  BY <1>2, SMTT(60) DEF LockInv
<1>5. QuantumInv'
  <2>1. \A w \in Vcpus : active[w] # None /\ state'[active[w]] = "blocked"
                           => state[active[w]] = "blocked"
    BY <1>2, ZenonT(60) DEF TypeOK
  <2>2. \A w \in Vcpus \ {on} : /\ switchThread'[w] = switchThread[w]
                                 /\ stopRequested'[w] <=> stopRequested[w]
    BY <1>1, <1>2, ZenonT(60) DEF TypeOK, CpuStop
  <2>3. \A w \in Vcpus : cancelPending[w] => cancelPending'[w]
    BY <1>2, ZenonT(60) DEF CpuStop
  <2>4. switchThread'[on] /\ stopRequested'[on] /\ ipc # "stop"
    BY <1>1, <1>2, ZenonT(60) DEF TypeOK, CpuStop, LockInv
  <2> QED  BY <1>1, <1>2, <2>1, <2>2, <2>3, <2>4, SMTT(60) DEF QuantumInv, InQuantum
<1>6. ThreadOnOneVcpu'
  BY <1>2, SMTT(60) DEF ThreadOnOneVcpu
<1>7. ActiveThreadExists'
  BY <1>2, ZenonT(60) DEF TypeOK, ActiveThreadExists, Present
<1>8. RegistersNotLost'
  <2>1. \A x \in Threads : /\ Present(x)' => Present(x)
                           /\ Present(x) /\ Terminated(x) => Terminated(x)'
    BY <1>2, ZenonT(60) DEF TypeOK, Present, Terminated
  <2>2. \A x \in Threads : LoadedOn(x)' = LoadedOn(x)
    BY <1>2, ZenonT(60) DEF LoadedOn
  <2> QED  BY <1>2, <2>1, <2>2, ZenonT(60) DEF RegistersNotLost
<1>9. WindDownJustified'
  BY <1>2 DEF WindDownJustified
<1> QED  BY <1>3, <1>4, <1>5, <1>6, <1>7, <1>8, <1>9, SMTT(60)

\* With one vCPU, every step keeps SingleInv.
LEMMA SingleStep ==
    ASSUME NumVcpus = 1, IInv, SingleInv, Next
    PROVE  SingleInv'
<1> DEFINE Gone   == active[0] = None \/ state[active[0]] \in {"absent", "terminated"}
           Asked  == IF pc[0] \in {"switch", "idle"} THEN neededSwitch[0] ELSE switchThread[0]
           Held   == pc[0] \in {"start", "enter", "guest", "hook"} => state[active[0]] = "ready"
           Leaves == pc[0] = "run" => state[active[0]] = "ready" \/ stopRequested[0]
           Single == (Gone => Asked) /\ Held /\ Leaves
<1>a. Vcpus = {0}
  BY DEF Vcpus
<1>b. Single
  BY <1>a DEF SingleInv, Present, Terminated, Ready
<1>c. Single' => SingleInv'
  BY <1>a DEF SingleInv, Present, Terminated, Ready
<1>t. /\ pc \in [Vcpus -> {"begin", "loop", "pump", "switch", "idle", "start", "run", "enter",
                          "guest", "hook", "returned", "winddown", "done"}]
      /\ active \in [Vcpus -> Threads \cup {None}]
      /\ switchThread \in [Vcpus -> BOOLEAN] /\ neededSwitch \in [Vcpus -> BOOLEAN]
      /\ stopRequested \in [Vcpus -> BOOLEAN]
      /\ state \in [Threads -> {"absent", "ready", "blocked", "terminated"}]
  BY ZenonT(60) DEF IInv, TypeOK
<1>d. /\ InQuantum(0) \/ pc[0] = "start" => active[0] \in Threads
      /\ active[0] # None => state[active[0]] # "absent"
  BY <1>a, <1>t, ZenonT(60) DEF IInv, QuantumInv, ActiveThreadExists, Present
<1>s. SUFFICES Single'
  BY <1>c
<1> USE ConstFacts
<1>1. CASE RunBegin(0) \/ RunLoop(0) \/ RunEnter(0) \/ RunCanceled(0) \/ RunSyscallExit(0) \/ RunFault(0)
  BY <1>a, <1>b, <1>t, <1>d, <1>1, ZenonT(60) DEF InQuantum, RunBegin, RunLoop, RunEnter, RunCanceled,
     RunSyscallExit, RunFault, loadVars, switchVars, whpVars, threadVars
<1>2. CASE WorkerBegin(0) \/ InlineLoop(0) \/ QuantumReturn(0) \/ SysOther(0)
  BY <1>a, <1>b, <1>t, <1>d, <1>2, ZenonT(60) DEF InQuantum, WorkerBegin, InlineLoop, QuantumReturn, SysOther, Hook,
     loadVars, switchVars, whpVars, threadVars
<1>3. CASE InlinePumped(0)
  BY <1>a, <1>b, <1>t, <1>d, <1>3, SMTT(60) DEF InlinePumped, CheckSwitch, Ready, loadVars, switchVars, whpVars, threadVars
<1>4. CASE IdleRetry(0)
  BY <1>a, <1>b, <1>t, <1>d, <1>4, ZenonT(60) DEF IdleRetry, loadVars, switchVars, whpVars, threadVars
<1>5. CASE WindDown(0) \/ SysFatal(0) \/ SysExitProcess(0) \/ HostStop \/ SysRemap(0)
  BY <1>a, <1>b, <1>t, <1>d, <1>5, ZenonT(60) DEF WindDown, SysFatal, SysExitProcess, HostStop, SysRemap, Syscall, Hook,
     Stop, CpuStop, loadVars, switchVars, whpVars, threadVars
<1>6. CASE Interrupt \/ StartAgain
  BY <1>a, <1>b, <1>t, <1>d, <1>6, SMTT(60) DEF Interrupt, InterruptWake, InterruptSwitch, InterruptStop, StartAgain,
     CpuStop, loadVars, switchVars, whpVars, threadVars
<1>y. YieldThread(0) => switchThread'[0] /\ stopRequested'[0]
  BY <1>a, <1>t, ZenonT(60) DEF YieldThread, CpuStop
<1>7. CASE SysWait(0) \/ SysYield(0)
  <2>1. pc' = [pc EXCEPT ![0] = "run"] /\ YieldThread(0) /\ UNCHANGED neededSwitch
    BY <1>7, ZenonT(60) DEF SysWait, SysYield, Syscall, Hook
  <2> QED  BY <1>a, <1>t, <1>y, <2>1, SMTT(60)
<1>8. ASSUME NEW t \in Threads, SysSignal(0, t) \/ HostWake(t) PROVE Single'
  <2>1. /\ state' = [state EXCEPT ![t] = "ready"]
        /\ (pc[0] = "hook" /\ pc' = [pc EXCEPT ![0] = "run"]) \/ UNCHANGED pc
        /\ UNCHANGED <<active, neededSwitch, switchThread, stopRequested>>
    BY <1>8, ZenonT(60) DEF SysSignal, HostWake, Syscall, Hook, loadVars, switchVars, whpVars
  <2>2. \A u \in Threads : state'[u] \in {state[u], "ready"}
    BY <1>t, <2>1, ZenonT(60)
  <2> QED  BY <1>a, <1>b, <1>t, <1>d, <2>1, <2>2, SMTT(60) DEF InQuantum
<1>9. ASSUME NEW t \in Threads, SysTerminateThread(0, t) PROVE Single'
  <2>1. /\ state' = [state EXCEPT ![t] = "terminated"]
        /\ pc[0] = "hook" /\ pc' = [pc EXCEPT ![0] = "run"]
        /\ UNCHANGED <<active, neededSwitch>>
        /\ IF t = active[0] THEN YieldThread(0) ELSE UNCHANGED <<switchThread, stopRequested>>
    BY <1>9, ZenonT(60) DEF SysTerminateThread, Syscall, Hook, loadVars
  <2>2. CASE t = active[0]
    BY <1>a, <1>t, <1>y, <2>1, <2>2, SMTT(60)
  <2>3. CASE t # active[0]
    BY <1>a, <1>b, <1>t, <1>d, <2>1, <2>3, SMTT(60) DEF InQuantum
  <2> QED  BY <2>2, <2>3
<1>10. CASE SysTerminateOthers(0)
  <2>1. /\ state' = [t \in Threads |-> IF Present(t) /\ t # active[0] THEN "terminated" ELSE state[t]]
        /\ pc[0] = "hook" /\ pc' = [pc EXCEPT ![0] = "run"]
        /\ UNCHANGED <<active, neededSwitch, switchThread, stopRequested>>
    BY <1>10, ZenonT(60) DEF SysTerminateOthers, Syscall, Hook, loadVars, switchVars, whpVars
  <2>2. active[0] \in Threads
    BY <1>d, <2>1 DEF InQuantum
  <2>3. state'[active[0]] = state[active[0]]
    BY <2>1, <2>2, ZenonT(60)
  <2> QED  BY <1>a, <1>b, <1>t, <2>1, <2>2, <2>3, SMTT(60)
<1>11. ASSUME NEW t \in Threads, SysCloseThread(0, t) PROVE Single'
  BY <1>a, <1>b, <1>t, <1>d, <1>11, SMTT(60) DEF InQuantum, SysCloseThread, Hook, Terminated, Present,
     loadVars, switchVars, whpVars, threadVars
<1>12. CASE SysCreateThread(0)
  <2>1. PICK t : state' = [state EXCEPT ![t] = "ready"]
    <3>1. state' = [state EXCEPT ![Min({t \in Threads : ~Present(t)})] = "ready"]
      BY <1>12, ZenonT(60) DEF SysCreateThread
    <3> QED  BY <3>1, ZenonT(60)
  <2> QED
    BY <1>a, <1>b, <1>t, <1>d, <1>12, <2>1, SMTT(60) DEF InQuantum, SysCreateThread, Syscall, Hook,
       loadVars, switchVars, whpVars
<1>13. ASSUME NEW t \in Threads, HandleUiEvent(t) PROVE Single'
  <2> DEFINE on == IF LoadedOn(t) # {} THEN Min(LoadedOn(t)) ELSE 0
  <2>1. on = 0
    BY <1>a, MinIsMember, SMTT(60) DEF LoadedOn
  <2>2. /\ switchThread' = [switchThread EXCEPT ![on] = TRUE]
        /\ CpuStop({on})
        /\ state' \in {state, [state EXCEPT ![t] = "ready"]}
        /\ UNCHANGED <<pc, active, neededSwitch>>
    BY <1>13, ZenonT(60) DEF HandleUiEvent, loadVars
  <2> HIDE DEF on
  <2>3. switchThread'[0] /\ stopRequested'[0] /\ \A u \in Threads : state[u] = "ready" => state'[u] = "ready"
    BY <1>a, <1>t, <1>d, <2>1, <2>2, ZenonT(60) DEF CpuStop
  <2>4. Held'
    BY <1>b, <1>t, <1>d, <2>2, <2>3, SMTT(60) DEF InQuantum
  <2>5. (Gone => Asked)'
    BY <1>a, <1>b, <1>t, <1>d, <2>2, <2>3, SMTT(60)
  <2> QED  BY <2>3, <2>4, <2>5
<1>14. CASE SwitchToNextThread(0)
  <2> DEFINE reaped == Reapable(0)
             cur    == IF active[0] \in reaped THEN None ELSE active[0]
             next   == RoundRobin(cur, Eligible(0))
  <2>0. /\ pc[0] = "switch"
        /\ state' = [t \in Threads |-> IF t \in reaped THEN "absent" ELSE state[t]]
        /\ UNCHANGED <<switchThread, stopRequested>>
    BY <1>14 DEF SwitchToNextThread, whpVars
  <2>1. \A t \in reaped : state[t] = "terminated"
    BY DEF Reapable, Terminated
  <2>2. CASE Eligible(0) # {}
    <3>1. active' = [active EXCEPT ![0] = next] /\ pc' = [pc EXCEPT ![0] = "start"]
      BY <1>14, <2>2 DEF SwitchToNextThread
    <3>2. next \in Threads /\ state[next] = "ready"
      BY <1>a, <2>2, RoundRobinEligible, ZenonT(60) DEF Eligible, Ready
    <3> HIDE DEF next, reaped
    <3> QED  BY <1>a, <1>t, <1>d, <2>0, <2>1, <3>1, <3>2, SMTT(60)
  <2>3. CASE Eligible(0) = {}
    <3>1. active' = [active EXCEPT ![0] = cur] /\ pc' = [pc EXCEPT ![0] = "idle"] /\ UNCHANGED neededSwitch
      BY <1>14, <2>3 DEF SwitchToNextThread
    <3>2. cur = (IF active[0] \in reaped THEN None ELSE active[0])
      OBVIOUS
    <3> HIDE DEF reaped, cur
    <3> QED  BY <1>a, <1>b, <1>t, <1>d, <2>0, <2>1, <3>1, <3>2, SMTT(60)
  <2> QED  BY <2>2, <2>3
<1>15. ASSUME WorkerLoop(0) PROVE FALSE
  BY <1>15 DEF WorkerLoop
<1>16. ASSUME NEW v \in Vcpus, Backend(v) \/ Worker(v) \/ Handler(v) \/ RunSyscallExit(v) \/ RunFault(v)
       PROVE  Single'
  <2>1. v = 0
    BY <1>a
  <2> QED  BY <1>1, <1>2, <1>3, <1>4, <1>5, <1>7, <1>8, <1>9, <1>10, <1>11, <1>12, <1>14, <1>15, <1>16, <2>1, ZenonT(60)
           DEF Backend, Worker, Handler
<1> QED  BY <1>5, <1>6, <1>8, <1>13, <1>16, ZenonT(60) DEF Next

\* setup_process leaves the scheduler in a state of the invariant.
LEMMA InitInv == Init => SchedulerInv
<1> SUFFICES ASSUME Init PROVE SchedulerInv
  OBVIOUS
<1> USE ConstFacts DEF Init
<1>1. TypeOK
  BY ZenonT(60) DEF TypeOK
<1>2. LockInv /\ QuantumInv /\ WindDownJustified
  BY DEF LockInv, QuantumInv, InQuantum, WindDownJustified
<1>3. ThreadOnOneVcpu /\ ActiveThreadExists
  BY DEF ThreadOnOneVcpu, ActiveThreadExists, Present
<1>4. RegistersNotLost
  BY SMTT(60) DEF RegistersNotLost, Present, Terminated, LoadedOn
<1>5. SingleInv
  <2> SUFFICES ASSUME NumVcpus = 1, NEW v \in Vcpus
               PROVE  pc[v] = "begin" /\ active[v] = 0 /\ state[active[v]] = "ready"
    BY SMTT(60) DEF SingleInv, Present, Terminated, Ready
  <2>1. v = 0 /\ 0 \in Threads
    BY NumThreadsAssumption, SMTT(60) DEF Vcpus, Threads
  <2> QED  BY <2>1, SMTT(60)
<1> QED  BY <1>1, <1>2, <1>3, <1>4, <1>5, ZenonT(60) DEF IInv, SchedulerInv

\* Every step of the scheduler preserves the invariant, as long as the guest
\* does not close the handle of a terminated thread beside a second vCPU.
LEMMA NextInv ==
    ASSUME IInv, SingleInv, [Next]_vars, "close" \notin Ops \/ NumVcpus = 1
    PROVE  IInv'
<1>1. CASE UNCHANGED vars
  <2> USE <1>1 DEF IInv, vars, loadVars, switchVars, whpVars, threadVars
  <2>1. TypeOK' /\ LockInv' /\ ThreadOnOneVcpu' /\ WindDownJustified'
    BY SMTT(60) DEF TypeOK, LockInv, ThreadOnOneVcpu, WindDownJustified
  <2>2. QuantumInv'
    BY DEF QuantumInv, InQuantum
  <2>3. ActiveThreadExists' /\ RegistersNotLost'
    BY ZenonT(60) DEF ActiveThreadExists, RegistersNotLost, Present, Terminated, LoadedOn
  <2> QED  BY <2>1, <2>2, <2>3, SMTT(60)
<1>2. ASSUME NEW v \in Vcpus, Backend(v)
      PROVE  IInv'
  BY <1>2, RunBeginInv, RunLoopInv, RunEnterInv, RunCanceledInv, SMTT(60) DEF Backend
<1>3. ASSUME NEW v \in Vcpus, Worker(v)
      PROVE  IInv'
  BY <1>3, WorkerBeginInv, WorkerLoopInv, InlineLoopInv, InlinePumpedInv,
     SwitchToNextThreadInv, IdleRetryInv, QuantumReturnInv, WindDownInv, SMTT(60) DEF Worker
<1>4. ASSUME NEW v \in Vcpus, Handler(v)
      PROVE  IInv'
  BY <1>4, SysOtherInv, SysWaitInv, SysYieldInv, SysCreateThreadInv, SysRemapInv,
     SysFatalInv, SysExitProcessInv, SysTerminateOthersInv, SysSignalInv, SysTerminateThreadInv,
     SysCloseThreadInv, SMTT(60) DEF Handler
<1>5. ASSUME NEW v \in Vcpus, RunSyscallExit(v) \/ RunFault(v)
      PROVE  IInv'
  BY <1>5, RunSyscallExitInv, RunFaultInv
<1>6. ASSUME NEW t \in Threads, HostWake(t) \/ HandleUiEvent(t)
      PROVE  IInv'
  BY <1>6, HostWakeInv, HandleUiEventInv
<1>7. CASE Interrupt \/ HostStop \/ StartAgain
  BY <1>7, InterruptWakeInv, InterruptSwitchInv, InterruptStopInv, HostStopInv,
     StartAgainInv
     DEF Interrupt
<1> QED  BY <1>1, <1>2, <1>3, <1>4, <1>5, <1>6, <1>7 DEF Next

\* The inductive invariant holds throughout, for every number of vCPUs and
\* threads: what the safety theorems below are read off from.  With several
\* vCPUs the guest closes no handle of a terminated thread.
THEOREM InvariantHolds ==
    ASSUME "close" \notin Ops \/ NumVcpus = 1
    PROVE  Spec => []SchedulerInv
<1>1. Init => SchedulerInv
  BY InitInv
<1>2. ASSUME SchedulerInv, [Next]_vars PROVE SchedulerInv'
  <2>1. IInv /\ SingleInv
    BY <1>2, ZenonT(60) DEF SchedulerInv
  <2>2. IInv'
    BY <1>2, <2>1, NextInv
  <2>3. SingleInv'
    <3>1. CASE NumVcpus = 1 /\ Next
      BY <2>1, <3>1, SingleStep, ZenonT(60)
    <3>2. CASE NumVcpus # 1
      BY <3>2, ZenonT(60) DEF SingleInv
    <3>3. CASE UNCHANGED vars
      BY <2>1, <3>3, ZenonT(60) DEF SingleInv, Present, Terminated, Ready,
         vars, loadVars, switchVars, whpVars, threadVars
    <3> QED  BY <1>2, <3>1, <3>2, <3>3
  <2> QED  BY <2>2, <2>3, ZenonT(60) DEF SchedulerInv
<1> QED  BY <1>1, <1>2, PTL DEF Spec

\* switch_to_thread and the reaper keep a guest thread on at most one vCPU, and
\* in the thread store for as long as a vCPU has it loaded.
THEOREM OneVcpuPerThread ==
    ASSUME "close" \notin Ops \/ NumVcpus = 1
    PROVE  Spec => [](ThreadOnOneVcpu /\ ActiveThreadExists)
<1>1. SchedulerInv => ThreadOnOneVcpu /\ ActiveThreadExists
  BY ZenonT(60) DEF SchedulerInv, IInv
<1> QED  BY <1>1, InvariantHolds, PTL

\* save, restore and detach lose no thread's registers.
THEOREM NoRegistersLost ==
    ASSUME "close" \notin Ops \/ NumVcpus = 1
    PROVE  Spec => []RegistersNotLost
<1>1. SchedulerInv => RegistersNotLost
  BY ZenonT(60) DEF SchedulerInv, IInv
<1> QED  BY <1>1, InvariantHolds, PTL

\* No preemption, UI kick, yield or TLB-flush cancel is taken for a wind-down.
THEOREM NoSpuriousWindDown ==
    ASSUME "close" \notin Ops \/ NumVcpus = 1
    PROVE  Spec => []WindDownJustified
<1>1. SchedulerInv => WindDownJustified
  BY ZenonT(60) DEF SchedulerInv, IInv
<1> QED  BY <1>1, InvariantHolds, PTL

\* A thread that blocked in a wait runs no guest code before it is ready, and
\* a vCPU in the guest never misses a page-table change.
THEOREM GuestEntrySafe ==
    ASSUME "close" \notin Ops \/ NumVcpus = 1
    PROVE  Spec => []GuestEntryJustified
<1>1. SchedulerInv => GuestEntryJustified
  BY ZenonT(60) DEF SchedulerInv, IInv, QuantumInv, GuestEntryJustified
<1> QED  BY <1>1, InvariantHolds, PTL

\* The loop of a single vCPU never calls vcpu.thread() without an active thread,
\* whatever the guest closes and terminates and however often the run is
\* stopped and started again.
THEOREM InlineLoopSafe == Spec => []InlineLoopHasThread
<1>1. CASE NumVcpus = 1
  <2>1. SchedulerInv => InlineLoopHasThread
    <3> SUFFICES ASSUME SchedulerInv, NEW v \in Vcpus, pc[v] = "pump", ~switchThread[v]
                 PROVE  active[v] # None
      BY ZenonT(60) DEF InlineLoopHasThread
    <3>1. active[v] = None => IF pc[v] \in {"switch", "idle"} THEN neededSwitch[v] ELSE switchThread[v]
      BY <1>1, ZenonT(60) DEF SchedulerInv, SingleInv
    <3>2. pc[v] \notin {"switch", "idle"}
      OBVIOUS
    <3> QED  BY <3>1, <3>2, ZenonT(60)
  <2>2. Spec => []SchedulerInv
    BY <1>1, InvariantHolds
  <2> QED  BY <2>1, <2>2, PTL
<1>2. CASE NumVcpus # 1
  <2>1. InlineLoopHasThread
    BY <1>2 DEF InlineLoopHasThread
  <2> QED  BY <2>1, PTL
<1> QED  BY <1>1, <1>2
=============================================================================
