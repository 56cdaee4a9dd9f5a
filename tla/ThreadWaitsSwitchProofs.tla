---------------------- MODULE ThreadWaitsSwitchProofs -----------------------
(***************************************************************************)
(* The invariant IInv of ThreadWaits is kept when a thread is switched to, by*)
(* the clock and by the calls on objects, for any number of threads, vCPUs *)
(* and objects and any handle arrays.                                      *)
(***************************************************************************)
EXTENDS ThreadWaits, FiniteSetTheorems, TLAPS

\* A set of naturals that is not empty has a least member.
LEMMA MinInSet ==
    ASSUME NEW S, S \subseteq Nat, S # {}
    PROVE  Min(S) \in S
<1> DEFINE Less == OpToRel(<, Nat)
<1>1. \A a, b \in Nat : a < b => <<a, b>> \in Less
  BY ZenonT(60) DEF OpToRel
<1>2. IsWellFoundedOn(Less, Nat)
  BY NatLessThanWellFounded, ZenonT(60)
<1> HIDE DEF Less
<1>3. PICK x \in S : \A y \in S : ~ (<<y, x>> \in Less)
  BY <1>2, WFMin, ZenonT(60)
<1>4. \A y \in S : x \in Nat /\ y \in Nat /\ ~(y < x)
  BY <1>1, <1>3, ZenonT(60)
<1>5. \A y \in S : x <= y
  BY <1>4
<1> QED  BY <1>5, ZenonT(60) DEF Min

\* Arithmetic that the proofs below use: a number of signals is none or some, ...
LEMMA NoneOrSome == \A n \in Nat : n = 0 \/ n > 0
  OBVIOUS

\* ... the indices of an array are numbers, ...
LEMMA IndicesInNat == \A n \in Nat : \A I : I \subseteq 1 .. n => I \subseteq Nat
  OBVIOUS

\* ... and the statuses of satisfied waits come before STATUS_USER_APC.
LEMMA BelowUserApc == \A k \in 0 .. STATUS_USER_APC - 1 : k < STATUS_USER_APC
  BY DEF STATUS_USER_APC

\* The objects a wait consumes are at indices of its handle array.
LEMMA ConsumedIsIndex ==
    ASSUME TypeOK, NEW t \in Threads
    PROVE  /\ ConsumedAt(t) \subseteq SignaledAt(t)
           /\ SignaledAt(t) \subseteq 1 .. Len(awaitObjects[t])
           /\ Len(awaitObjects[t]) \in Nat
           /\ Satisfied(t) => SignaledAt(t) # {}
<1>0. awaitObjects[t] \in Seq(Waitables)
  BY DEF TypeOK
<1>1. Len(awaitObjects[t]) \in Nat /\ DOMAIN awaitObjects[t] = 1 .. Len(awaitObjects[t])
  BY <1>0
<1>2. SignaledAt(t) \subseteq 1 .. Len(awaitObjects[t])
  BY <1>1 DEF SignaledAt
<1>3. SignaledAt(t) \subseteq Nat
  BY <1>1, <1>2
<1>4. SignaledAt(t) # {} => Min(SignaledAt(t)) \in SignaledAt(t)
  BY <1>3, MinInSet, ZenonT(60)
<1>5. awaitObjects[t] # <<>> => DOMAIN awaitObjects[t] # {}
  <2>1. awaitObjects[t] # <<>> => Len(awaitObjects[t]) \in Nat \ {0}
    BY <1>0
  <2>2. awaitObjects[t] # <<>> => 1 \in DOMAIN awaitObjects[t]
    BY <1>1, <2>1
  <2> QED  BY <2>2
<1>6. Satisfied(t) => SignaledAt(t) # {}
  BY <1>5 DEF Satisfied
<1>7. ConsumedAt(t) \subseteq SignaledAt(t)
  BY <1>4, <1>6, ZenonT(60) DEF ConsumedAt
<1> QED
  BY <1>1, <1>2, <1>6, <1>7

\* An object is consumed a finite number of times, and only if it is signaled.
LEMMA TakenFacts ==
    ASSUME TypeOK, NEW t \in Threads, NEW o
    PROVE  /\ Taken(t, o) \in Nat
           /\ Taken(t, o) > 0 => Signaled(t, o)
<1> DEFINE S == {i \in ConsumedAt(t) : awaitObjects[t][i] = o}
<1>1. IsFiniteSet(1 .. Len(awaitObjects[t]))
  BY ConsumedIsIndex, FS_Interval, 1 \in Int, Len(awaitObjects[t]) \in Int
<1>2. S \subseteq 1 .. Len(awaitObjects[t])
  BY ConsumedIsIndex
<1>3. IsFiniteSet(S)
  BY <1>1, <1>2, FS_Subset
<1>4. Cardinality(S) \in Nat /\ (Cardinality(S) = 0 <=> S = {})
  BY <1>3, FS_CardinalityType, FS_EmptySet
<1>5. Taken(t, o) = Cardinality(S)
  BY DEF Taken
<1>6. ASSUME S # {} PROVE Signaled(t, o)
  <2>1. PICK i \in S : TRUE
    BY <1>6
  <2>2. i \in SignaledAt(t) /\ awaitObjects[t][i] = o
    BY <2>1, ConsumedIsIndex
  <2> QED  BY <2>2 DEF SignaledAt
<1> QED  BY <1>4, <1>5, <1>6

\* What a wait ends with is an NTSTATUS.
LEMMA OutcomeInt ==
    ASSUME TypeOK, NEW t \in Threads
    PROVE  Outcome(t) \in Int
<1>1. SignaledAt(t) \subseteq Nat /\ ConsumedAt(t) \subseteq SignaledAt(t)
  BY ConsumedIsIndex
<1>2. ASSUME ConsumedAt(t) # {} PROVE Min(SignaledAt(t)) \in Int
  BY <1>1, <1>2, MinInSet
<1>3. ASSUME AbandonedAt(t) \cap ConsumedAt(t) # {}
      PROVE  Min(AbandonedAt(t) \cap ConsumedAt(t)) \in Int
  BY <1>1, <1>3, MinInSet
<1>4. ConsumedAt(t) # {} => SatisfiedStatus(t) \in Int
  BY <1>2, <1>3 DEF SatisfiedStatus, STATUS_WAIT_0, STATUS_ABANDONED_WAIT_0
<1> QED
  BY <1>4 DEF Outcome, None, STATUS_WAIT_0, STATUS_ALERTED, STATUS_TIMEOUT

\* consume_object_signal keeps the objects well-formed: a mutant it takes is
\* owned by the live thread that takes it, and no longer abandoned.
LEMMA ConsumeInv ==
    ASSUME IInv, NEW t \in Threads, Completes(t), ~ConsumeFails(t), Consume(t),
           UNCHANGED exited
    PROVE  /\ open' \in [Objects -> BOOLEAN]
           /\ signaled' \in [Events -> BOOLEAN]
           /\ locked' \in [Mutants -> Nat]
           /\ owner' \in [Mutants -> Threads \cup {NoThread}]
           /\ abandoned' \in [Mutants -> BOOLEAN]
           /\ count' \in [Semaphores -> 0 .. MaxCount]
           /\ MutantOwnerAlive'
<1> USE CountsAssumption DEF IInv
<1>1. \A o : Taken(t, o) \in Nat /\ (Taken(t, o) > 0 => Signaled(t, o))
  BY TakenFacts
<1>2. open' \in [Objects -> BOOLEAN] /\ signaled' \in [Events -> BOOLEAN]
  <2>1. \A e \in Events : signaled[e] \in BOOLEAN
    BY DEF TypeOK
  <2>2. signaled' \in [Events -> BOOLEAN]
    BY <2>1, ZenonT(60) DEF Consume
  <2> QED  BY <2>2 DEF TypeOK, Consume
<1>3. locked' \in [Mutants -> Nat]
  BY <1>1 DEF TypeOK, Consume
<1>4. owner' \in [Mutants -> Threads \cup {NoThread}]
  BY <1>1 DEF TypeOK, Consume
<1>5. abandoned' \in [Mutants -> BOOLEAN]
  BY ZenonT(60) DEF TypeOK, Consume
<1>6. count' \in [Semaphores -> 0 .. MaxCount]
  <2>1. \A s \in Semaphores : Taken(t, s) <= count[s]
    BY <1>1, SMTT(60) DEF ConsumeFails, TypeOK
  <2> QED  BY <1>1, <2>1 DEF TypeOK, Consume
<1>7. MutantOwnerAlive'
  <2> SUFFICES ASSUME NEW m \in Mutants
               PROVE  /\ locked'[m] = 0 <=> owner'[m] = NoThread
                      /\ abandoned'[m] => locked'[m] = 0
                      /\ owner'[m] # NoThread => ~exited'[owner'[m]]
    BY DEF MutantOwnerAlive
  <2>1. /\ locked[m] \in Nat /\ abandoned[m] \in BOOLEAN
        /\ locked[m] = 0 <=> owner[m] = NoThread
        /\ abandoned[m] => locked[m] = 0
        /\ owner[m] # NoThread => ~exited[owner[m]]
    BY DEF TypeOK, MutantOwnerAlive
  <2>2. /\ locked'[m] = locked[m] + Taken(t, m)
        /\ owner'[m] = IF Taken(t, m) > 0 THEN t ELSE owner[m]
        /\ abandoned'[m] = (abandoned[m] /\ Taken(t, m) = 0)
    BY DEF Consume
  <2>3. t # NoThread /\ ~exited[t]
    BY DEF Threads, NoThread, Completes, Runnable
  <2>4. CASE Taken(t, m) = 0
    BY <2>1, <2>2, <2>4
  <2>5. CASE Taken(t, m) > 0
    <3>1. locked'[m] # 0 /\ owner'[m] = t /\ Taken(t, m) # 0
      BY <1>1, <2>1, <2>2, <2>5
    <3>2. ~abandoned'[m]
      BY <2>2, <3>1, ZenonT(60)
    <3> QED  BY <2>3, <3>1, <3>2
  <2> QED  BY <1>1, <2>4, <2>5, NoneOrSome, ZenonT(60)
<1> QED  BY <1>2, <1>3, <1>4, <1>5, <1>6, <1>7, SMTT(60)

\* mark_as_ready ends the wait of one thread and leaves the others alone.
LEMMA ClearWaitFacts ==
    ASSUME TypeOK, NEW t \in Threads, ClearWait(t)
    PROVE  /\ awaitObjects' \in [Threads -> Seq(Waitables)]
           /\ awaitAny' \in [Threads -> BOOLEAN]
           /\ awaitTime' \in [Threads -> {"none", "infinite", "future", "past"}]
           /\ waitingForAlert' \in [Threads -> BOOLEAN]
           /\ alerted' \in [Threads -> BOOLEAN]
           /\ ~Blocked(t)' /\ ~waitingForAlert'[t]
           /\ \A u \in Threads \ {t} : /\ Blocked(u)' <=> Blocked(u)
                                       /\ waitingForAlert'[u] = waitingForAlert[u]
                                       /\ awaitObjects'[u] = awaitObjects[u]
<1>1. <<>> \in Seq(Waitables)
  OBVIOUS
<1>2. alerted[t] \in BOOLEAN /\ waitingForAlert[t] \in BOOLEAN
  BY DEF TypeOK
<1>3. alerted' \in [Threads -> BOOLEAN]
  BY <1>2, ZenonT(60) DEF TypeOK, ClearWait
<1> QED  BY <1>1, <1>3 DEF TypeOK, ClearWait, Blocked

\* A thread that is loaded takes the place of one that gives way.
LEMMA LoadFacts ==
    ASSUME TypeOK, NEW t \in Threads, Load(t)
    PROVE  /\ place' \in [Threads -> {"running", "switching", "entered", "out"}]
           /\ place'[t] = "running"
           /\ place[t] # "running"
           /\ \A u \in Threads \ {t} : place'[u] \in {place[u], "out"}
<1>1. CASE place[t] = "switching" /\ place' = [place EXCEPT ![t] = "running"]
  BY <1>1 DEF TypeOK
<1>2. ASSUME NEW s \in Threads, place[t] = "out", place[s] = "switching",
             place' = [place EXCEPT ![s] = "out", ![t] = "running"]
      PROVE  /\ place' \in [Threads -> {"running", "switching", "entered", "out"}]
             /\ place'[t] = "running"
             /\ place[t] # "running"
             /\ \A u \in Threads \ {t} : place'[u] \in {place[u], "out"}
  BY <1>2, ZenonT(60) DEF TypeOK
<1>3. CASE place[t] = "out" /\ place' = [place EXCEPT ![t] = "running"]
  BY <1>3 DEF TypeOK
<1> QED  BY <1>1, <1>2, <1>3 DEF Load

----------------------------------------------------------------------------
(* The scheduler's steps.                                                  *)

\* switch_to_thread ends the wait, writes its status and lets the thread run.
LEMMA SwitchSatisfiedInv ==
    ASSUME IInv, NEW t \in Threads, SwitchSatisfied(t)
    PROVE  IInv'
<1> USE DEF IInv, lifeVars
<1>1. /\ Load(t) /\ Consume(t) /\ ClearWait(t) /\ Completes(t) /\ ~ConsumeFails(t)
      /\ rax' = [rax EXCEPT ![t] = Outcome(t)]
      /\ pendingStatus' = [pendingStatus EXCEPT ![t] = None]
      /\ apcAlertable' = [apcAlertable EXCEPT ![t] = FALSE]
      /\ UNCHANGED <<exited, suspended, pendingApcs, pulse, failed>>
  BY DEF SwitchSatisfied
<1>a. /\ place' \in [Threads -> {"running", "switching", "entered", "out"}]
      /\ place'[t] = "running"
      /\ \A u \in Threads \ {t} : place'[u] \in {place[u], "out"}
  BY <1>1, LoadFacts
<1>b. /\ awaitObjects' \in [Threads -> Seq(Waitables)]
      /\ awaitAny' \in [Threads -> BOOLEAN]
      /\ awaitTime' \in [Threads -> {"none", "infinite", "future", "past"}]
      /\ waitingForAlert' \in [Threads -> BOOLEAN]
      /\ alerted' \in [Threads -> BOOLEAN]
      /\ ~Blocked(t)' /\ \A u \in Threads \ {t} : Blocked(u)' <=> Blocked(u)
  BY <1>1, ClearWaitFacts
<1>c. /\ open' \in [Objects -> BOOLEAN]
      /\ signaled' \in [Events -> BOOLEAN]
      /\ locked' \in [Mutants -> Nat]
      /\ owner' \in [Mutants -> Threads \cup {NoThread}]
      /\ abandoned' \in [Mutants -> BOOLEAN]
      /\ count' \in [Semaphores -> 0 .. MaxCount]
  BY <1>1, ConsumeInv
<1>d. Outcome(t) \in Int
  BY OutcomeInt
<1>2. TypeOK'
  <2>1. rax' \in [Threads -> Int] /\ pendingStatus' \in [Threads -> Int]
    BY <1>1, <1>d DEF TypeOK, None
  <2>2. apcAlertable' \in [Threads -> BOOLEAN]
    BY <1>1, ZenonT(60) DEF TypeOK
  <2> QED  BY <1>1, <1>a, <1>b, <1>c, <2>1, <2>2, ZenonT(60) DEF TypeOK
<1>3. RunningIsSettled'
  <2> SUFFICES ASSUME NEW u \in Threads, place'[u] = "running"
               PROVE  ~Blocked(u)' /\ pendingStatus'[u] = None /\ ~apcAlertable'[u]
    BY DEF RunningIsSettled
  <2>1. CASE u = t
    BY <1>1, <1>a, <1>b, <2>1, SMTT(60) DEF TypeOK
  <2>2. CASE u # t
    <3>1. place[u] = "running"
      BY <1>a, <2>2, SMTT(60)
    <3> QED  BY <1>1, <1>a, <1>b, <2>2, <3>1, SMTT(60) DEF TypeOK, RunningIsSettled
  <2> QED  BY <2>1, <2>2
<1>4. PendingMeansWoken'
  BY <1>1, ClearWaitFacts, SMTT(60) DEF TypeOK, PendingMeansWoken
<1>5. AlertWaitIsPure'
  BY <1>1, ClearWaitFacts, ZenonT(60) DEF TypeOK, AlertWaitIsPure
<1>6. MutantOwnerAlive'
  BY <1>1, ConsumeInv
<1>7. \A u \in Threads : place'[u] # "entered"
  BY <1>1, LoadFacts
<1> QED  BY <1>2, <1>3, <1>4, <1>5, <1>6, <1>7

\* The objects and who owns them do not change.
LEMMA SameMutants ==
    ASSUME MutantOwnerAlive, UNCHANGED <<exited, mutantVars>>
    PROVE  MutantOwnerAlive'
BY DEF MutantOwnerAlive, mutantVars

\* A thread that had been woken, or had not waited, gets its status and runs.
LEMMA SwitchReadyInv ==
    ASSUME IInv, NEW t \in Threads, SwitchReady(t) \/ SwitchUnready(t)
    PROVE  IInv'
<1> USE DEF IInv, lifeVars, objectVars, waitVars, mutantVars
<1>1. /\ Load(t) /\ ~Blocked(t)
      /\ rax' \in {rax, [rax EXCEPT ![t] = pendingStatus[t]]}
      /\ pendingStatus' = [pendingStatus EXCEPT ![t] = None]
      /\ apcAlertable' = [apcAlertable EXCEPT ![t] = FALSE]
      /\ UNCHANGED <<exited, suspended, waitVars, pendingApcs, objectVars, pulse, failed>>
  <2>1. CASE SwitchReady(t)
    BY <2>1, ZenonT(60) DEF SwitchReady, TypeOK
  <2>2. CASE SwitchUnready(t)
    BY <2>2, ZenonT(60) DEF SwitchUnready, PendingMeansWoken
  <2> QED  BY <2>1, <2>2
<1>a. /\ place' \in [Threads -> {"running", "switching", "entered", "out"}]
      /\ place'[t] = "running"
      /\ \A u \in Threads \ {t} : place'[u] \in {place[u], "out"}
  BY <1>1, LoadFacts
<1>2. TypeOK'
  <2>1. rax' \in [Threads -> Int] /\ pendingStatus' \in [Threads -> Int]
    BY <1>1, SMTT(60) DEF TypeOK, None
  <2>2. apcAlertable' \in [Threads -> BOOLEAN]
    BY <1>1, ZenonT(60) DEF TypeOK
  <2> QED  BY <1>1, <1>a, <2>1, <2>2, ZenonT(60) DEF TypeOK
<1>3. RunningIsSettled'
  <2> SUFFICES ASSUME NEW u \in Threads, place'[u] = "running"
               PROVE  ~Blocked(u)' /\ pendingStatus'[u] = None /\ ~apcAlertable'[u]
    BY ZenonT(60) DEF RunningIsSettled
  <2>1. CASE u = t
    BY <1>1, <1>a, <2>1, SMTT(60) DEF TypeOK, Blocked
  <2>2. CASE u # t
    <3>1. place[u] = "running"
      BY <1>a, <2>2
    <3> QED  BY <1>1, <1>a, <2>2, <3>1, SMTT(60) DEF TypeOK, RunningIsSettled, Blocked
  <2> QED  BY <2>1, <2>2, SMTT(60)
<1>4. PendingMeansWoken'
  BY <1>1 DEF TypeOK, PendingMeansWoken, Blocked
<1>5. AlertWaitIsPure'
  BY <1>1 DEF TypeOK, AlertWaitIsPure
<1>6. MutantOwnerAlive'
  BY <1>1, SameMutants
<1>7. \A u \in Threads : place'[u] # "entered"
  BY <1>1, LoadFacts, SMTT(60)
<1> QED  BY <1>2, <1>3, <1>4, <1>5, <1>6, <1>7

\* An APC breaks off the wait: mark_as_ready with STATUS_USER_APC.
LEMMA SwitchApcInv ==
    ASSUME IInv, NEW t \in Threads, SwitchApc(t)
    PROVE  IInv'
<1> USE DEF IInv, lifeVars, objectVars, mutantVars
<1>1. /\ Load(t) /\ ClearWait(t)
      /\ pendingApcs[t] > 0
      /\ pendingApcs' = [pendingApcs EXCEPT ![t] = @ - 1]
      /\ rax' = [rax EXCEPT ![t] = STATUS_USER_APC]
      /\ apcAlertable' = [apcAlertable EXCEPT ![t] = FALSE]
      /\ pendingStatus[t] = None
      /\ UNCHANGED <<exited, suspended, pendingStatus, objectVars, pulse, failed>>
  BY SMTT(60) DEF SwitchApc, HasPendingAlertableApc
<1>a. /\ place' \in [Threads -> {"running", "switching", "entered", "out"}]
      /\ place'[t] = "running"
      /\ \A u \in Threads \ {t} : place'[u] \in {place[u], "out"}
  BY <1>1, LoadFacts, ZenonT(60)
<1>b. /\ awaitObjects' \in [Threads -> Seq(Waitables)]
      /\ awaitAny' \in [Threads -> BOOLEAN]
      /\ awaitTime' \in [Threads -> {"none", "infinite", "future", "past"}]
      /\ waitingForAlert' \in [Threads -> BOOLEAN]
      /\ alerted' \in [Threads -> BOOLEAN]
      /\ ~Blocked(t)' /\ \A u \in Threads \ {t} : Blocked(u)' <=> Blocked(u)
  BY <1>1, ClearWaitFacts
<1>2. TypeOK'
  <2>1. rax' \in [Threads -> Int]
    BY <1>1 DEF TypeOK, STATUS_USER_APC
  <2>2. apcAlertable' \in [Threads -> BOOLEAN]
    BY <1>1, ZenonT(60) DEF TypeOK
  <2>3. pendingApcs' \in [Threads -> 0 .. MaxApcs]
    BY <1>1, CountsAssumption, SMTT(60) DEF TypeOK
  <2> QED  BY <1>1, <1>a, <1>b, <2>1, <2>2, <2>3, ZenonT(60) DEF TypeOK
<1>3. RunningIsSettled'
  <2> SUFFICES ASSUME NEW u \in Threads, place'[u] = "running"
               PROVE  ~Blocked(u)' /\ pendingStatus'[u] = None /\ ~apcAlertable'[u]
    BY DEF RunningIsSettled
  <2>1. CASE u = t
    BY <1>1, <1>a, <1>b, <2>1, SMTT(60) DEF TypeOK
  <2>2. CASE u # t
    <3>1. place[u] = "running"
      BY <1>a, <2>2
    <3> QED  BY <1>1, <1>a, <1>b, <2>2, <3>1, SMTT(60) DEF TypeOK, RunningIsSettled
  <2> QED  BY <2>1, <2>2
<1>4. PendingMeansWoken'
  BY <1>1, ClearWaitFacts, ZenonT(60) DEF TypeOK, PendingMeansWoken
<1>5. AlertWaitIsPure'
  BY <1>1, ClearWaitFacts, ZenonT(60) DEF TypeOK, AlertWaitIsPure
<1>6. MutantOwnerAlive'
  BY <1>1, SameMutants
<1>7. \A u \in Threads : place'[u] # "entered"
  BY <1>1, LoadFacts
<1> QED  BY <1>2, <1>3, <1>4, <1>5, <1>6, <1>7

\* What IInv says of threads depends on these fields only.
LEMMA SameThreads ==
    ASSUME IInv,
           UNCHANGED <<place, awaitObjects, awaitTime, waitingForAlert, apcAlertable,
                       pendingStatus>>
    PROVE  /\ RunningIsSettled' /\ PendingMeansWoken' /\ AlertWaitIsPure'
           /\ \A u \in Threads : place'[u] # "entered"
BY DEF IInv, RunningIsSettled, PendingMeansWoken, AlertWaitIsPure, Blocked

\* A vCPU gives way, or looks in vain for a thread, or throws.
LEMMA PlaceInv ==
    ASSUME IInv, NEW t \in Threads, Preempt(t) \/ Detach(t) \/ SwitchThrows(t)
    PROVE  IInv'
<1> USE DEF IInv, lifeVars, waitVars, apcVars, statusVars, objectVars, mutantVars
<1>1. /\ UNCHANGED <<lifeVars, waitVars, apcVars, statusVars, objectVars, pulse>>
      /\ failed' \in BOOLEAN
      /\ \/ place' = place
         \/ place' = [place EXCEPT ![t] = "switching"]
         \/ place' = [place EXCEPT ![t] = "out"]
  BY ZenonT(60) DEF Preempt, Detach, SwitchThrows, TypeOK
<1>2. /\ place' \in [Threads -> {"running", "switching", "entered", "out"}]
      /\ \A u \in Threads : place'[u] \in {place[u], "switching", "out"}
  BY <1>1, ZenonT(60) DEF TypeOK
<1>3. TypeOK'
  BY <1>1, <1>2, ZenonT(60) DEF TypeOK
<1>4. RunningIsSettled' /\ PendingMeansWoken' /\ AlertWaitIsPure'
  BY <1>1, <1>2, ZenonT(60) DEF RunningIsSettled, PendingMeansWoken, AlertWaitIsPure, Blocked
<1>5. MutantOwnerAlive'
  BY <1>1, SameMutants, SMTT(60)
<1> QED  BY <1>2, <1>3, <1>4, <1>5, SMTT(60)

\* The clock ends no wait by itself, and only waiting threads have a deadline.
LEMMA TickInv ==
    ASSUME IInv, NEW t \in Threads, Tick(t)
    PROVE  IInv'
<1> USE DEF IInv, lifeVars, apcVars, statusVars, objectVars, mutantVars
<1>1. /\ awaitTime[t] = "future" /\ awaitTime' = [awaitTime EXCEPT ![t] = "past"]
      /\ UNCHANGED <<place, lifeVars, awaitObjects, awaitAny, waitingForAlert, alerted,
                     apcVars, statusVars, objectVars, pulse, failed>>
  BY SMTT(60) DEF Tick
<1>2. awaitTime' \in [Threads -> {"none", "infinite", "future", "past"}]
  BY <1>1 DEF TypeOK
<1>3. TypeOK'
  BY <1>1, <1>2, ZenonT(60) DEF TypeOK
<1>4. \A u \in Threads : Blocked(u)' => Blocked(u)
  BY <1>1, SMTT(60) DEF TypeOK, Blocked
<1>5. RunningIsSettled' /\ PendingMeansWoken' /\ AlertWaitIsPure'
  BY <1>1, <1>4, ZenonT(60) DEF RunningIsSettled, PendingMeansWoken, AlertWaitIsPure
<1>6. MutantOwnerAlive'
  BY <1>1, SameMutants, SMTT(60)
<1> QED  BY <1>1, <1>3, <1>5, <1>6, SMTT(60)

----------------------------------------------------------------------------
(* System calls on objects.                                                *)

ObjectsTypedNext ==
    /\ open' \in [Objects -> BOOLEAN]
    /\ signaled' \in [Events -> BOOLEAN]
    /\ locked' \in [Mutants -> Nat]
    /\ owner' \in [Mutants -> Threads \cup {NoThread}]
    /\ abandoned' \in [Mutants -> BOOLEAN]
    /\ count' \in [Semaphores -> 0 .. MaxCount]
    /\ MutantOwnerAlive'

\* NtSetEvent keeps the types of the objects.
LEMMA SetEventTyped ==
    ASSUME IInv, NEW e \in Events, SetEvent(e), UNCHANGED exited
    PROVE  ObjectsTypedNext
<1>1. signaled' \in [Events -> BOOLEAN]
  BY ZenonT(60) DEF IInv, TypeOK, SetEvent
<1>2. UNCHANGED <<open, mutantVars, count>>
  BY SMTT(60) DEF SetEvent
<1> QED  BY <1>1, <1>2 DEF IInv, TypeOK, ObjectsTypedNext, mutantVars, MutantOwnerAlive

\* NtReleaseMutant keeps the types of the objects.
LEMMA ReleaseMutantTyped ==
    ASSUME IInv, NEW t \in Threads, NEW m \in Mutants, ReleaseMutant(t, m), UNCHANGED exited
    PROVE  ObjectsTypedNext
<1>1. /\ locked[m] > 0 /\ owner[m] = t /\ locked[m] \in Nat
      /\ locked' = [locked EXCEPT ![m] = @ - 1]
      /\ owner' = [owner EXCEPT ![m] = IF locked[m] = 1 THEN NoThread ELSE @]
      /\ UNCHANGED <<open, signaled, abandoned, count>>
  BY SMTT(60) DEF ReleaseMutant, IInv, TypeOK
<1>2. locked' \in [Mutants -> Nat] /\ owner' \in [Mutants -> Threads \cup {NoThread}]
  BY <1>1, SMTT(60) DEF IInv, TypeOK
<1>3. MutantOwnerAlive'
  BY <1>1, SMTT(60) DEF IInv, TypeOK, MutantOwnerAlive
<1> QED  BY <1>1, <1>2, <1>3, SMTT(60) DEF IInv, TypeOK, ObjectsTypedNext

\* NtReleaseSemaphore keeps the types of the objects.
LEMMA ReleaseSemaphoreTyped ==
    ASSUME IInv, NEW s \in Semaphores, NEW n \in 0 .. CountRange - 1,
           ReleaseSemaphore(s, n), UNCHANGED exited
    PROVE  ObjectsTypedNext
<1>1. /\ (count[s] + n) % CountRange <= MaxCount
      /\ count' = [count EXCEPT ![s] = (@ + n) % CountRange]
      /\ UNCHANGED <<open, signaled, mutantVars>>
  BY SMTT(60) DEF ReleaseSemaphore
<1>2. count[s] + n \in Nat /\ CountRange \in Nat \ {0} /\ MaxCount \in Nat
  BY CountsAssumption DEF IInv, TypeOK
<1>3. (count[s] + n) % CountRange \in Nat
  BY <1>2, SMTT(60)
<1>4. count' \in [Semaphores -> 0 .. MaxCount]
  BY <1>1, <1>2, <1>3, SMTT(60) DEF IInv, TypeOK
<1> QED  BY <1>1, <1>4, SMTT(60) DEF IInv, TypeOK, ObjectsTypedNext, mutantVars, MutantOwnerAlive

\* A call that touches nothing but objects.
LEMMA ObjectsOnly ==
    ASSUME IInv, ObjectsTypedNext,
           pulse' \in {<<>>} \cup (Events \X (1 .. NumThreads + 1)),
           UNCHANGED <<place, lifeVars, waitVars, apcVars, statusVars, failed>>
    PROVE  IInv'
<1> USE DEF lifeVars, waitVars, apcVars, statusVars
<1>1. TypeOK'
  BY ZenonT(60) DEF IInv, TypeOK, ObjectsTypedNext
<1> QED  BY <1>1, SameThreads DEF IInv, ObjectsTypedNext

\* Every syscall on objects keeps the invariant.
LEMMA ObjectCallInv ==
    ASSUME IInv, "create" \notin Ops, NEW t \in Threads, ObjectCall(t)
    PROVE  IInv'
<1> USE DEF lifeVars
<1>1. ASSUME NEW e \in Events, NtSetEvent(t, e) PROVE IInv'
  <2>1. ObjectsTypedNext
    BY <1>1, SetEventTyped DEF NtSetEvent
  <2> QED  BY <1>1, <2>1, ObjectsOnly, ZenonT(60) DEF NtSetEvent, IInv, TypeOK
<1>2. ASSUME NEW e \in Events, NtClearEvent(t, e) PROVE IInv'
  <2>1. signaled' \in [Events -> BOOLEAN]
    BY <1>2, ZenonT(60) DEF NtClearEvent, IInv, TypeOK
  <2>2. MutantOwnerAlive'
    BY <1>2, SameMutants DEF NtClearEvent, IInv
  <2>3. ObjectsTypedNext
    BY <1>2, <2>1, <2>2, SMTT(60) DEF NtClearEvent, IInv, TypeOK, ObjectsTypedNext, mutantVars
  <2> QED  BY <1>2, <2>3, ObjectsOnly, ZenonT(60) DEF NtClearEvent, IInv, TypeOK
<1>3. ASSUME NEW e \in Events, NtPulseEvent(t, e) PROVE IInv'
  <2>1. ObjectsTypedNext
    BY <1>3, SetEventTyped DEF NtPulseEvent
  <2>2. pulse' \in Events \X (1 .. NumThreads + 1)
    BY <1>3, CountsAssumption, SMTT(60) DEF NtPulseEvent
  <2> QED  BY <1>3, <2>1, <2>2, ObjectsOnly, SMTT(60) DEF NtPulseEvent
<1>4. ASSUME NEW m \in Mutants, NtReleaseMutant(t, m) PROVE IInv'
  <2>1. ObjectsTypedNext
    BY <1>4, ReleaseMutantTyped DEF NtReleaseMutant
  <2> QED  BY <1>4, <2>1, ObjectsOnly, ZenonT(60) DEF NtReleaseMutant, IInv, TypeOK
<1>5. ASSUME NEW s \in Semaphores, NEW n \in ReleaseCounts, NtReleaseSemaphore(t, s, n)
      PROVE  IInv'
  <2>1. ObjectsTypedNext
    BY <1>5, CountsAssumption, ReleaseSemaphoreTyped DEF NtReleaseSemaphore
  <2> QED  BY <1>5, <2>1, ObjectsOnly, ZenonT(60) DEF NtReleaseSemaphore, IInv, TypeOK
<1>6. ASSUME NEW o \in Objects, NtClose(t, o) PROVE IInv'
  <2>1. open' \in [Objects -> BOOLEAN]
    BY <1>6, ZenonT(60) DEF NtClose, IInv, TypeOK
  <2>2. signaled' \in [Events -> BOOLEAN] /\ abandoned' \in [Mutants -> BOOLEAN]
    BY <1>6, ZenonT(60) DEF NtClose, IInv, TypeOK
  <2>3. /\ locked' \in [Mutants -> Nat] /\ owner' \in [Mutants -> Threads \cup {NoThread}]
        /\ count' \in [Semaphores -> 0 .. MaxCount]
    BY <1>6, CountsAssumption, SMTT(60) DEF NtClose, IInv, TypeOK
  <2>4. MutantOwnerAlive'
    <3> SUFFICES ASSUME NEW m \in Mutants
                 PROVE  /\ locked'[m] = 0 <=> owner'[m] = NoThread
                        /\ abandoned'[m] => locked'[m] = 0
                        /\ owner'[m] # NoThread => ~exited'[owner'[m]]
      BY ZenonT(60) DEF MutantOwnerAlive
    <3>1. /\ locked'[m] = (IF m = o THEN 0 ELSE locked[m])
          /\ owner'[m] = (IF m = o THEN NoThread ELSE owner[m])
          /\ abandoned'[m] = (abandoned[m] /\ m # o) /\ exited' = exited
      BY <1>6, ZenonT(60) DEF NtClose, lifeVars
    <3>2. /\ locked[m] = 0 <=> owner[m] = NoThread
          /\ abandoned[m] => locked[m] = 0
          /\ owner[m] # NoThread => ~exited[owner[m]]
      BY ZenonT(60) DEF IInv, MutantOwnerAlive
    <3> QED  BY <3>1, <3>2, ZenonT(60)
  <2>5. ObjectsTypedNext
    BY <2>1, <2>2, <2>3, <2>4, SMTT(60) DEF ObjectsTypedNext
  <2> QED  BY <1>6, <2>5, ObjectsOnly, ZenonT(60) DEF NtClose, IInv, TypeOK
<1> QED  BY <1>1, <1>2, <1>3, <1>4, <1>5, <1>6, SMTT(60) DEF ObjectCall, NtCreateObject, Guest

----------------------------------------------------------------------------
(* What a wait ends with.                                                  *)

\* The wait of t ends in this step with what is_thread_ready found.
Completed(t) ==
    /\ Completes(t) /\ ~ConsumeFails(t)
    /\ Consume(t) /\ ClearWait(t)
    /\ EndStatus(t) = Outcome(t)

\* A handle array as NtWaitForMultipleObjects accepts it.
ArraysFit == \A t \in Threads : Len(awaitObjects[t]) <= MaximumWaitObjects

\* The calls end no wait.
LEMMA CallsEndNoWait ==
    ASSUME IInv, NEW t \in Threads, WaitCall(t) \/ ObjectCall(t) \/ ThreadCall(t), NEW u \in Threads
    PROVE  ~WaitEnds(u)
<1>0. /\ ~Blocked(t)
      /\ awaitObjects \in [Threads -> Seq(Waitables)] /\ waitingForAlert \in [Threads -> BOOLEAN]
      /\ awaitTime \in [Threads -> {"none", "infinite", "future", "past"}]
  <2>1. place[t] = "running"
    BY ZenonT(60) DEF WaitCall, NtWaitForSingleObject, NtWaitForMultipleObjects,
       NtSignalAndWaitForSingleObject, NtDelayExecution, ObjectCall, NtSetEvent, NtClearEvent,
       NtPulseEvent, NtReleaseMutant, NtReleaseSemaphore, NtCreateObject, NtClose, ThreadCall,
       NtWaitForAlertByThreadId, NtContinue, NtTerminateProcess, NtAlertThreadByThreadId,
       NtQueueApcThread, NtSuspendThread, NtResumeThread, NtTerminateThread, Guest
  <2> QED  BY <2>1, ZenonT(60) DEF IInv, TypeOK, RunningIsSettled
<1>1. SUFFICES ASSUME u # t
               PROVE  /\ awaitObjects'[u] = awaitObjects[u]
                      /\ waitingForAlert'[u] = waitingForAlert[u]
                      /\ awaitTime'[u] = awaitTime[u]
  BY <1>0, ZenonT(60) DEF WaitEnds, Blocked
<1> DEFINE Same == awaitObjects' = awaitObjects /\ waitingForAlert' = waitingForAlert /\ awaitTime' = awaitTime
<1>2. CASE WaitCall(t)
  <2>1. ASSUME NEW list, NEW any, NEW timeout, NEW alertable, StartWait(t, list, any, timeout, alertable)
        PROVE  /\ awaitObjects'[u] = awaitObjects[u]
               /\ waitingForAlert'[u] = waitingForAlert[u]
               /\ awaitTime'[u] = awaitTime[u]
    BY <1>0, <1>1, <2>1, ZenonT(60) DEF StartWait
  <2>2. ASSUME NEW timeout, NEW alertable, NtDelayExecution(t, timeout, alertable)
        PROVE  /\ awaitObjects'[u] = awaitObjects[u]
               /\ waitingForAlert'[u] = waitingForAlert[u]
               /\ awaitTime'[u] = awaitTime[u]
    BY <1>0, <1>1, <2>2, ZenonT(60) DEF NtDelayExecution
  <2> QED  BY <1>2, <2>1, <2>2, ZenonT(60) DEF WaitCall, NtWaitForSingleObject,
              NtWaitForMultipleObjects, NtSignalAndWaitForSingleObject, waitVars
<1>3. CASE ObjectCall(t)
  <2>1. Same
    BY <1>3, ZenonT(60) DEF ObjectCall, NtSetEvent, NtClearEvent, NtPulseEvent, NtReleaseMutant,
       NtReleaseSemaphore, NtCreateObject, NtClose, waitVars
  <2> QED  BY <2>1
<1>4. CASE \E timeout \in Timeouts : NtWaitForAlertByThreadId(t, timeout)
  BY <1>0, <1>1, <1>4, ZenonT(60) DEF NtWaitForAlertByThreadId
<1>5. CASE \/ NtContinue(t) \/ NtTerminateProcess(t)
           \/ \E v \in Threads : \/ NtAlertThreadByThreadId(t, v)
                                 \/ NtQueueApcThread(t, v) \/ NtSuspendThread(t, v)
                                 \/ NtResumeThread(t, v) \/ NtTerminateThread(t, v)
  <2>1. Same
    BY <1>5, ZenonT(60) DEF NtContinue, NtTerminateProcess, NtAlertThreadByThreadId, NtQueueApcThread,
       NtSuspendThread, NtResumeThread, NtTerminateThread, waitVars
  <2> QED  BY <2>1
<1> QED  BY <1>2, <1>3, <1>4, <1>5, ZenonT(60) DEF ThreadCall

\* A wait ends with what is_thread_ready found, or with an APC.
LEMMA HowWaitsEnd ==
    ASSUME IInv, "debug" \notin Ops, Next, NEW u \in Threads, WaitEnds(u)
    PROVE  Completed(u) \/ SwitchApc(u)
<1>0. TypeOK
  BY ZenonT(60) DEF IInv
<1>a. pendingStatus \in [Threads -> Int] /\ rax \in [Threads -> Int]
  BY <1>0, SMTT(60) DEF TypeOK
<1>1. ASSUME NEW t \in Threads, WaitCall(t) \/ ObjectCall(t) \/ ThreadCall(t) PROVE FALSE
  BY <1>1, CallsEndNoWait, ZenonT(60)
<1>2. ASSUME NEW t \in Threads, Preempt(t) \/ Detach(t) \/ SwitchThrows(t) \/ SwitchReady(t) \/ SwitchUnready(t)
      PROVE  FALSE
  BY <1>2, ZenonT(60) DEF Preempt, Detach, SwitchThrows, SwitchReady, SwitchUnready, waitVars, WaitEnds, Blocked
<1>3. ASSUME NEW t \in Threads, Tick(t) PROVE FALSE
  BY <1>0, <1>3, SMTT(60) DEF TypeOK, Tick, WaitEnds, Blocked
<1>4. ASSUME NEW t \in Threads, SwitchSatisfied(t) PROVE Completed(u)
  <2>1. /\ Completes(t) /\ ~ConsumeFails(t) /\ Consume(t) /\ ClearWait(t)
        /\ rax' = [rax EXCEPT ![t] = Outcome(t)]
        /\ pendingStatus' = [pendingStatus EXCEPT ![t] = None]
    BY <1>4, ZenonT(60) DEF SwitchSatisfied
  <2>2. u = t
    BY <1>0, <2>1, ClearWaitFacts, ZenonT(60) DEF WaitEnds
  <2>3. EndStatus(t) = Outcome(t)
    BY <1>a, <2>1, ZenonT(60) DEF EndStatus
  <2> QED  BY <2>1, <2>2, <2>3, ZenonT(60) DEF Completed
<1>5. ASSUME NEW t \in Threads, SwitchApc(t) PROVE SwitchApc(u)
  <2>1. u = t
    BY <1>0, <1>5, ClearWaitFacts, ZenonT(60) DEF WaitEnds, SwitchApc
  <2> QED  BY <1>5, <2>1
<1>6. ASSUME PulseWake PROVE Completed(u)
  <2> DEFINE t == pulse[2]
  <2>0. t \in Threads
    BY <1>6, ZenonT(60) DEF PulseWake
  <2>1. /\ Completes(t) /\ ~ConsumeFails(t) /\ Consume(t) /\ ClearWait(t)
        /\ pendingStatus' = [pendingStatus EXCEPT ![t] = Outcome(t)]
    BY <1>6, ZenonT(60) DEF PulseWake, waitVars, WaitEnds, Blocked
  <2> HIDE DEF t
  <2>2. u = t
    BY <1>0, <2>0, <2>1, ClearWaitFacts, ZenonT(60) DEF WaitEnds
  <2>3. EndStatus(t) = Outcome(t)
    BY <1>a, <2>0, <2>1, ZenonT(60) DEF EndStatus, Completes
  <2> QED  BY <2>1, <2>2, <2>3, ZenonT(60) DEF Completed
<1>7. ASSUME PulseEnd PROVE FALSE
  BY <1>7, ZenonT(60) DEF PulseEnd, waitVars, WaitEnds, Blocked
<1>8. ASSUME NEW t \in Threads, Activate(t) \/ Enter(t) PROVE FALSE
  BY <1>8, ZenonT(60) DEF Activate, Enter, IInv
<1> QED  BY <1>1, <1>2, <1>3, <1>4, <1>5, <1>6, <1>7, <1>8, ZenonT(60) DEF Next, Switch

\* The status of a satisfied wait names the object, below STATUS_USER_APC.
LEMMA StatusNamesObject ==
    ASSUME TypeOK, ArraysFit, NEW t \in Threads, ConsumedAt(t) # {}
    PROVE  LET a == AbandonedAt(t) \cap ConsumedAt(t)
           IN  /\ SatisfiedStatus(t) \in 0 .. STATUS_USER_APC - 1
               /\ a # {} <=> SatisfiedStatus(t) >= STATUS_ABANDONED_WAIT_0
               /\ awaitAny[t] => /\ ConsumedAt(t) = {Min(SignaledAt(t))}
                                 /\ SatisfiedStatus(t) = Min(SignaledAt(t)) - 1
                                        + (IF a # {} THEN STATUS_ABANDONED_WAIT_0 ELSE STATUS_WAIT_0)
<1> DEFINE a == AbandonedAt(t) \cap ConsumedAt(t)
           s == Min(SignaledAt(t))
           n == Len(awaitObjects[t])
<1>1. /\ ConsumedAt(t) \subseteq SignaledAt(t) /\ SignaledAt(t) \subseteq 1 .. n
      /\ n \in Nat /\ n <= 64
  BY ConsumedIsIndex, SMTT(60) DEF ArraysFit, MaximumWaitObjects
<1>2. SignaledAt(t) \subseteq Nat /\ SignaledAt(t) # {}
  BY <1>1
<1>3. s \in SignaledAt(t)
  BY <1>2, MinInSet, ZenonT(60)
<1>4. s \in 1 .. 64
  <2> HIDE DEF s, n
  <2> QED  BY <1>1, <1>3, SMTT(60)
<1>5. a # {} => Min(a) \in a /\ Min(a) \in 1 .. 64
  <2>1. a \subseteq Nat /\ a \subseteq 1 .. n
    BY <1>1
  <2>2. a # {} => Min(a) \in a
    <3> HIDE DEF a
    <3> QED  BY <2>1, MinInSet, ZenonT(60)
  <2>3. \A i \in a : i \in 1 .. n
    BY <2>1
  <2> DEFINE least == Min(a)
  <2>4. a # {} => least \in a /\ least \in 1 .. n
    BY <2>2, <2>3, ZenonT(60)
  <2> HIDE DEF least, n
  <2>5. least \in 1 .. n => least \in 1 .. 64
    BY <1>1
  <2> QED  BY <2>4, <2>5, ZenonT(60) DEF least
<1>6. awaitAny[t] => ConsumedAt(t) = {s}
  BY ZenonT(60) DEF ConsumedAt
<1>7. awaitAny[t] /\ a # {} => Min(a) = s
  <2>1. \A i \in a : i \in ConsumedAt(t)
    OBVIOUS
  <2> HIDE DEF a, s
  <2> QED  BY <1>5, <1>6, <2>1, ZenonT(60)
<1>8. SatisfiedStatus(t) = IF a # {} THEN 128 + Min(a) - 1 ELSE IF awaitAny[t] THEN 0 + s - 1 ELSE 0
  BY ZenonT(60) DEF SatisfiedStatus, STATUS_ABANDONED_WAIT_0, STATUS_WAIT_0
<1> HIDE DEF a, s
<1>9. /\ SatisfiedStatus(t) \in 0 .. 191
      /\ a # {} <=> SatisfiedStatus(t) >= 128
      /\ awaitAny[t] => SatisfiedStatus(t) = s - 1 + (IF a # {} THEN 128 ELSE 0)
  BY <1>4, <1>5, <1>7, <1>8, SMTT(60)
<1> QED  BY <1>6, <1>9, SMTT(60) DEF a, s, STATUS_USER_APC, STATUS_ABANDONED_WAIT_0, STATUS_WAIT_0

\* A wait on objects that is over reports an object exactly when it took it.
LEMMA WokenMeansTaken ==
    ASSUME IInv, ArraysFit, NEW t \in Threads, Completed(t), WaitEnds(t), NEW o
    PROVE  WokenBy(t, o) <=> Taken(t, o) > 0
<1>0. TypeOK
  BY ZenonT(60) DEF IInv
<1> DEFINE S == {i \in ConsumedAt(t) : awaitObjects[t][i] = o}
<1>a. /\ ConsumedAt(t) \subseteq SignaledAt(t) /\ SignaledAt(t) \subseteq DOMAIN awaitObjects[t]
      /\ IsFiniteSet(S)
  <2>1. /\ ConsumedAt(t) \subseteq SignaledAt(t) /\ SignaledAt(t) \subseteq 1 .. Len(awaitObjects[t])
        /\ Len(awaitObjects[t]) \in Nat
    BY <1>0, ConsumedIsIndex, ZenonT(60)
  <2>2. IsFiniteSet(1 .. Len(awaitObjects[t])) /\ S \subseteq 1 .. Len(awaitObjects[t])
    BY <2>1, FS_Interval
  <2> QED  BY <2>1, <2>2, FS_Subset, ZenonT(60) DEF SignaledAt
<1>1. Taken(t, o) > 0 <=> S # {}
  BY <1>a, FS_EmptySet, FS_CardinalityType DEF Taken
<1>2. CASE ConsumedAt(t) = {}
  <2>1. S = {}
    BY <1>2
  <2>2. Outcome(t) < STATUS_USER_APC => awaitObjects[t] = <<>>
    BY <1>2, SMTT(60) DEF Completed, Completes, Outcome, STATUS_USER_APC, STATUS_ALERTED, STATUS_TIMEOUT, None
  <2>3. awaitObjects[t] = <<>> => Awaited(t) = {}
    BY SMTT(60) DEF Awaited
  <2> QED  BY <1>1, <2>1, <2>2, <2>3, ZenonT(60) DEF WokenBy, Completed
<1>3. CASE ConsumedAt(t) # {}
  <2>1. ~waitingForAlert[t] /\ Satisfied(t)
    BY <1>3, ZenonT(60) DEF ConsumedAt
  <2>2. EndStatus(t) = SatisfiedStatus(t)
    BY <1>3, <2>1, ZenonT(60) DEF Completed, Outcome
  <2> DEFINE a == AbandonedAt(t) \cap ConsumedAt(t)
  <2>3. /\ SatisfiedStatus(t) \in 0 .. STATUS_USER_APC - 1
        /\ a # {} <=> SatisfiedStatus(t) >= STATUS_ABANDONED_WAIT_0
        /\ awaitAny[t] => /\ ConsumedAt(t) = {Min(SignaledAt(t))}
                          /\ SatisfiedStatus(t) = Min(SignaledAt(t)) - 1
                                 + (IF a # {} THEN STATUS_ABANDONED_WAIT_0 ELSE STATUS_WAIT_0)
    BY <1>0, <1>3, StatusNamesObject
  <2>4. SignaledAt(t) \subseteq Nat /\ SignaledAt(t) # {}
    <3>1. PICK n \in Nat : SignaledAt(t) \subseteq 1 .. n
      BY <1>0, ConsumedIsIndex, ZenonT(60)
    <3>2. SignaledAt(t) # {}
      BY <1>3, <1>a, ZenonT(60)
    <3> QED  BY <3>1, <3>2, IndicesInNat, ZenonT(60)
  <2>5. Min(SignaledAt(t)) \in SignaledAt(t)
    BY <2>4, MinInSet, ZenonT(60)
  <2>6. CASE awaitAny[t]
    <3> DEFINE s == Min(SignaledAt(t))
    <3>1. EndStatus(t) - (IF EndStatus(t) < STATUS_ABANDONED_WAIT_0 THEN STATUS_WAIT_0
                                                  ELSE STATUS_ABANDONED_WAIT_0) + 1 = s
      <4>1. s \in Nat
        BY <2>4, <2>5
      <4> HIDE DEF s, a
      <4>2. SatisfiedStatus(t) = s - 1 + (IF SatisfiedStatus(t) >= 128 THEN 128 ELSE 0)
        BY <2>3, <2>6, SMTT(60) DEF s, STATUS_ABANDONED_WAIT_0, STATUS_WAIT_0
      <4>3. SatisfiedStatus(t) \in Int
        BY <2>3, SMTT(60) DEF STATUS_USER_APC
      <4> QED  BY <2>2, <4>1, <4>2, <4>3, SMTT(60) DEF STATUS_ABANDONED_WAIT_0, STATUS_WAIT_0
    <3>2. EndStatus(t) < STATUS_USER_APC
      BY <2>2, <2>3, BelowUserApc, ZenonT(60)
    <3>3. awaitObjects[t][s] \in Awaited(t)
      BY <1>a, <2>5, ZenonT(60) DEF Awaited
    <3>4. WokenBy(t, o) <=> o = awaitObjects[t][s]
      <4> HIDE DEF s
      <4> QED  BY <2>6, <3>1, <3>2, <3>3, ZenonT(60) DEF WokenBy
    <3>5. S # {} <=> o = awaitObjects[t][s]
      BY <2>3, <2>6, ZenonT(60)
    <3> QED  BY <1>1, <3>4, <3>5
  <2>7. CASE ~awaitAny[t]
    <3>1. ConsumedAt(t) = DOMAIN awaitObjects[t]
      BY <2>1, <2>7, ZenonT(60) DEF ConsumedAt, Satisfied
    <3>2. EndStatus(t) < STATUS_USER_APC
      BY <2>2, <2>3, BelowUserApc, ZenonT(60)
    <3>3. WokenBy(t, o) <=> o \in Awaited(t)
      BY <2>7, <3>2, ZenonT(60) DEF WokenBy
    <3>4. S # {} <=> o \in Awaited(t)
      BY <3>1, ZenonT(60) DEF Awaited
    <3> QED  BY <1>1, <3>3, <3>4
  <2> QED  BY <2>6, <2>7
<1> QED  BY <1>2, <1>3
=============================================================================
