----------------------------- MODULE IoObjects ------------------------------
(***************************************************************************)
(* The objects of I/O completion in the Windows emulator, as values: ports *)
(* and their queues, wait completion packets, worker factories and the     *)
(* targets of packets, and what the handle stores do to reference counts.  *)
(*                                                                         *)
(* A handle is the type and the index of an object in its handle store.    *)
(* The stores count references: the guest's handles, and those the         *)
(* emulator retains for a packet, a queued message or a factory.           *)
(***************************************************************************)
EXTENDS Integers, Sequences, FiniteSetsExt

CONSTANTS
    NumPorts, NumPackets, NumFactories, \* bounds: slots of the handle stores
    NumThreads,       \* bound: threads that are ever created
    Synchronization,  \* bound: the synchronization events that are targets
    Semaphores,       \* bound: the semaphores that are targets
    Levels,           \* bound: targets a wait does not change (manual-reset
                      \* events, threads, mutants, ports with a reply)
    MaxQueue,         \* bound on a port's queue
    MaxHandles,       \* bound on the handles the guest has to one object
    MaxSignal,        \* the maximum count of a semaphore
    MaxReleases,      \* the largest pending_release_count
    Waits,            \* bound: the calls that take messages, by max, timeout
                      \* and alertable
    MaxWorkers,       \* bound on the numbers a factory is configured with
    Ops               \* what guest code does in this instance

Ports     == {<<"port", i>> : i \in 1 .. NumPorts}
Packets   == {<<"packet", i>> : i \in 1 .. NumPackets}
Factories == {<<"factory", i>> : i \in 1 .. NumFactories}
Consumed  == Synchronization \cup Semaphores
Targets   == Consumed \cup Levels
Objects   == Ports \cup Packets \cup Factories \cup Targets
Threads   == 1 .. NumThreads
Numbers   == 0 .. MaxWorkers

NoHandle == <<"none", 0>>   \* a handle with bits == 0

ASSUME WaitsAssumption ==
    Waits \subseteq [max : Nat \ {0}, timeout : {"none", "zero", "later"}, alertable : BOOLEAN]

ASSUME SizesAssumption ==
    /\ NumPorts \in Nat /\ NumPackets \in Nat /\ NumFactories \in Nat
    /\ NumThreads \in Nat \ {0}
    /\ MaxQueue \in Nat /\ MaxHandles \in Nat \ {0} /\ MaxSignal \in Nat \ {0}
    /\ MaxReleases \in Nat \ {0} /\ MaxWorkers \in Nat

\* A target is an object of one type, and of no type above.
ASSUME TargetsAssumption ==
    /\ Targets \cap (Ports \cup Packets \cup Factories \cup {NoHandle}) = {}
    /\ Synchronization \cap Semaphores = {} /\ Levels \cap Consumed = {}

----------------------------------------------------------------------------
(* Handle stores and references.                                           *)

\* duplicate of every object of S
Retain(r, S) == [o \in Objects |-> IF o \in S THEN r[o] + 1 ELSE r[o]]

\* erase of every object of S: the deleter counts down, and erasing what is
\* not in the store does nothing.
Erase(r, S) ==
    [o \in Objects |-> IF o \in S /\ r[o] > 0 THEN r[o] - 1 ELSE r[o]]

\* A port that is erased takes its queue along.
Queues(q, r) == [p \in Ports |-> IF r[p] = 0 THEN <<>> ELSE q[p]]

\* A default-constructed wait_completion_packet; what it completes with is data.
IdlePacket == [port |-> NoHandle, target |-> NoHandle, associated |-> FALSE, queued |-> FALSE]

PacketType ==
    [port : Ports \cup {NoHandle}, target : Targets \cup {NoHandle},
     associated : BOOLEAN, queued : BOOLEAN]

\* A default-constructed worker_factory
NoFactory ==
    [port |-> NoHandle, shutdown |-> FALSE, timeout |-> FALSE, binding |-> 0, minimum |-> 0,
     maxCount |-> 0, maximum |-> 0, soft |-> 0, paused |-> FALSE, releases |-> 0,
     pending |-> FALSE, workers |-> {}]

FactoryType ==
    [port : Ports \cup {NoHandle}, shutdown : BOOLEAN, timeout : BOOLEAN, binding : Numbers,
     minimum : Numbers, maxCount : Numbers, maximum : Numbers, soft : Numbers, paused : BOOLEAN,
     releases : 0 .. MaxReleases, pending : BOOLEAN, workers : SUBSET Threads]

\* The messages of a port: a posted one, one of a packet, a factory's release.
Post       == [packet |-> NoHandle, release |-> NoHandle]
OfPacket(k) == [packet |-> k, release |-> NoHandle]
Release(f) == [packet |-> NoHandle, release |-> f]
Messages   == {Post} \cup {OfPacket(k) : k \in Packets} \cup {Release(f) : f \in Factories}

----------------------------------------------------------------------------
(* Queues.                                                                 *)

\* How often a queue has message m
Occurrences(q, m) == Cardinality({i \in 1 .. Len(q) : q[i] = m})

\* The objects of S by index
InOrder(S) ==
    CHOOSE s \in [1 .. Cardinality(S) -> S] :
        \A i, j \in 1 .. Cardinality(S) : i < j => s[i][2] < s[j][2]

\* remove_by_wait_packet: drops the first message of packet k from a queue
\* that has one
HasMessage(q, k) == \E i \in 1 .. Len(q) : q[i] = OfPacket(k)

RemoveByPacket(q, k) ==
    LET first == Min({i \in 1 .. Len(q) : q[i] = OfPacket(k)})
    IN  SubSeq(q, 1, first - 1) \o SubSeq(q, first + 1, Len(q))
=============================================================================
