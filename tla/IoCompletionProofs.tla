------------------------- MODULE IoCompletionProofs -------------------------
(***************************************************************************)
(* Proof of the invariant of I/O completion (IoInv), for every number of   *)
(* objects and threads, as long as no packet is cancelled without the      *)
(* removal of its message: references are balanced, a completion is queued *)
(* once, a release is under way.                                           *)
(*                                                                         *)
(* IoInv is restated over Core (InvParts); each action is one of the       *)
(* changes that keep Core, or a few of them in turn.                       *)
(***************************************************************************)
EXTENDS IoTypeProofs

\* Leaves are proved by Zenon unless they name another prover.
USE Zenon

----------------------------------------------------------------------------
(* The invariant of the state machine, and Core.                           *)

\* Where the messages of an object are
Messaged(o) ==
    {m \in UNION {{p} \X (1 .. Len(queue[p])) : p \in Ports} : queue[m[1]][m[2]].packet = o}

\* A packet has one message when its completion is queued, and nothing else has any.
LEMMA MessagedCount ==
    ASSUME TypeOK, ErasedIsEmpty, QueuedOnce, NEW o \in Objects
    PROVE  Cardinality(Messaged(o)) = IF o \in Packets /\ packet[o].queued THEN 1 ELSE 0
<1>t. \A p \in Ports : queue[p] \in Seq(Messages)
  BY DEF TypeOK
<1>e. \A p \in Ports : \A i \in 1 .. Len(queue[p]) : queue[p][i] \in Messages
  BY <1>t, SMT
<1>m. \A m : m \in Messaged(o) <=> \E p \in Ports : \E i \in 1 .. Len(queue[p]) : m = <<p, i>> /\ queue[p][i].packet = o
  BY SMT DEF Messaged
<1>0. Cardinality({}) = 0 /\ \A x : Cardinality({x}) = 1
  BY FS_EmptySet, FS_Singleton
<1>1. CASE o \notin Packets
  <2>1. \A p \in Ports : \A i \in 1 .. Len(queue[p]) : queue[p][i].packet # o
    BY <1>1, <1>e, MessageKinds, Kinds, SMT
  <2>2. Messaged(o) = {}
    BY <2>1, <1>m
  <2> QED
    BY <2>2, <1>0, <1>1
<1>2. CASE o \in Packets
  <2>1. \A p \in Ports : \A i \in 1 .. Len(queue[p]) : queue[p][i].packet = o <=> i \in Positions(queue[p], OfPacket(o))
    BY <1>2, <1>e, MessageKinds, Kinds DEF Positions
  <2>2. \A p \in Ports : Occurrences(queue[p], OfPacket(o)) = IF packet[o].queued /\ packet[o].port = p THEN 1 ELSE 0
    BY <1>2 DEF QueuedOnce
  <2>3. CASE packet[o].queued
    <3>1. PICK p \in Ports : p = packet[o].port
      BY <1>2, <2>3 DEF TypeOK, ErasedIsEmpty, PacketType
    <3>2. Cardinality(Positions(queue[p], OfPacket(o))) = 1 /\ IsFiniteSet(Positions(queue[p], OfPacket(o)))
      BY <2>2, <2>3, <3>1, <1>t, PositionsFinite
    <3>3. PICK i : Positions(queue[p], OfPacket(o)) = {i}
      BY <3>2, FS_Singleton
    <3>4. ASSUME NEW b \in Ports, b # p
          PROVE  Positions(queue[b], OfPacket(o)) = {}
      <4>1. Cardinality(Positions(queue[b], OfPacket(o))) = 0 /\ IsFiniteSet(Positions(queue[b], OfPacket(o)))
        BY <2>2, <3>1, <3>4, <1>t, PositionsFinite
      <4> QED
        BY <4>1, FS_EmptySet
    <3>5. i \in 1 .. Len(queue[p])
      BY <3>3 DEF Positions
    <3>6. \A m : m \in Messaged(o) <=> m = <<p, i>>
      <4>1. queue[p][i].packet = o /\ \A j \in 1 .. Len(queue[p]) : queue[p][j].packet = o => j = i
        BY <2>1, <3>3, <3>5
      <4>2. \A b \in Ports : b # p => \A j \in 1 .. Len(queue[b]) : queue[b][j].packet # o
        BY <2>1, <3>4
      <4> QED
        BY <1>m, <3>5, <4>1, <4>2
    <3>7. Messaged(o) = {<<p, i>>}
      BY <3>6
    <3> QED
      BY <3>7, <1>0, <1>2, <2>3
  <2>4. CASE ~packet[o].queued
    <3>1. ASSUME NEW b \in Ports
          PROVE  Positions(queue[b], OfPacket(o)) = {}
      <4>1. Cardinality(Positions(queue[b], OfPacket(o))) = 0 /\ IsFiniteSet(Positions(queue[b], OfPacket(o)))
        BY <2>2, <2>4, <1>t, PositionsFinite
      <4> QED
        BY <4>1, FS_EmptySet
    <3>2. Messaged(o) = {}
      BY <1>m, <2>1, <3>1
    <3> QED
      BY <3>2, <1>0, <2>4
  <2> QED
    BY <2>3, <2>4
<1> QED
  BY <1>1, <1>2

\* RefsBalanced, type of object by type of object
LEMMA BalancedIsCounts ==
    ASSUME TypeOK, ErasedIsEmpty, QueuedOnce
    PROVE  RefsBalanced <=> Counts(refs, handles, packet, factory)
<1> DEFINE P(o) == {k \in Packets : Exists(k) /\ packet[k].port = o}
           T(o) == {k \in Packets : Exists(k) /\ packet[k].target = o}
           F(o) == {f \in Factories : Exists(f) /\ factory[f].port = o}
<1>t. /\ \A k \in Packets : packet[k] \in PacketType /\ (~Exists(k) => packet[k] = IdlePacket)
      /\ \A f \in Factories : factory[f] \in FactoryType /\ (~Exists(f) => factory[f] = NoFactory)
  BY DEF TypeOK, ErasedIsEmpty
<1>h. \A o \in Objects : handles[o] \in Nat
  BY SizesAssumption, SMT DEF TypeOK
<1>u. /\ \A k \in Packets : packet[k].port \in Ports \cup {NoHandle} /\ packet[k].target \in Targets \cup {NoHandle}
      /\ \A f \in Factories : factory[f].port \in Ports \cup {NoHandle}
  BY <1>t DEF PacketType, FactoryType
<1>r. \A o : Retained(o) = Cardinality(P(o)) + Cardinality(T(o)) + Cardinality(F(o)) + Cardinality(Messaged(o))
  BY DEF Retained, Messaged
<1>0. Cardinality({}) = 0
  BY FS_EmptySet
<1>p. \A o \in Objects : (o \notin Ports => P(o) = {} /\ F(o) = {}) /\ (o \notin Targets => T(o) = {})
  BY <1>u, Kinds
<1>1. \A o \in Ports : P(o) = PacketsOn(packet, o) /\ F(o) = FactoriesOn(factory, o)
  BY <1>t, Kinds, SMT DEF PacketsOn, FactoriesOn, IdlePacket, NoFactory
<1>2. \A o \in Targets : T(o) = PacketsFor(packet, o)
  BY <1>t, Kinds, SMT DEF PacketsFor, IdlePacket
<1> HIDE DEF P, T, F
<1>3. ASSUME NEW o \in Ports
      PROVE  handles[o] + Retained(o) = handles[o] + Cardinality(PacketsOn(packet, o)) + Cardinality(FactoriesOn(factory, o))
  <2>1. Cardinality(T(o)) = 0 /\ Cardinality(Messaged(o)) = 0
    BY <1>0, <1>p, MessagedCount, Kinds
  <2>2. handles[o] \in Nat /\ Cardinality(PacketsOn(packet, o)) \in Nat /\ Cardinality(FactoriesOn(factory, o)) \in Nat
    BY <1>h, CountsTyped, Kinds
  <2> QED
    BY <2>1, <2>2, <1>r, <1>1, SMT
<1>4. ASSUME NEW o \in Targets
      PROVE  handles[o] + Retained(o) = handles[o] + Cardinality(PacketsFor(packet, o))
  <2>1. Cardinality(P(o)) = 0 /\ Cardinality(F(o)) = 0 /\ Cardinality(Messaged(o)) = 0
    BY <1>0, <1>p, MessagedCount, Kinds
  <2>2. Cardinality(PacketsFor(packet, o)) \in Nat
    BY CountsTyped
  <2> QED
    BY <2>1, <2>2, <1>r, <1>2, SMT
<1>5. ASSUME NEW o \in Packets
      PROVE  handles[o] + Retained(o) = handles[o] + (IF packet[o].queued THEN 1 ELSE 0)
  <2>1. Cardinality(P(o)) = 0 /\ Cardinality(F(o)) = 0 /\ Cardinality(T(o)) = 0
    BY <1>0, <1>p, Kinds
  <2>2. Cardinality(Messaged(o)) = IF packet[o].queued THEN 1 ELSE 0
    BY MessagedCount, Kinds
  <2> QED
    BY <2>1, <2>2, <1>r, SMT
<1>6. ASSUME NEW o \in Factories
      PROVE  handles[o] + Retained(o) = handles[o]
  <2>1. Cardinality(P(o)) = 0 /\ Cardinality(F(o)) = 0 /\ Cardinality(T(o)) = 0 /\ Cardinality(Messaged(o)) = 0
    BY <1>0, <1>p, MessagedCount, Kinds
  <2>2. handles[o] \in Nat
    BY <1>h, Kinds
  <2> QED
    BY <2>1, <2>2, <1>r, SMT
<1>7. RefsBalanced <=>
        /\ \A o \in Ports : refs[o] = handles[o] + Retained(o)
        /\ \A o \in Targets : refs[o] = handles[o] + Retained(o)
        /\ \A o \in Packets : refs[o] = handles[o] + Retained(o)
        /\ \A o \in Factories : refs[o] = handles[o] + Retained(o)
  BY Kinds DEF RefsBalanced
<1> QED
  BY <1>3, <1>4, <1>5, <1>6, <1>7 DEF Counts

\* The invariant is Core, the types and that erased ports have no messages.
LEMMA InvIsCore == IoInv <=> TypeOK /\ Core(refs, handles, queue, packet, factory) /\ Cleared(refs, queue)
<1>1. TypeOK => Typed(refs, handles, queue, packet, factory)
  BY DEF TypeOK, Typed
<1>2. TypeOK => \A o \in Objects : (Exists(o) <=> refs[o] > 0) /\ (~Exists(o) <=> refs[o] = 0)
  BY SMT DEF TypeOK, Exists
<1>3. TypeOK => (ErasedIsEmpty <=> Shaped(refs, packet, factory) /\ Cleared(refs, queue))
  <2> SUFFICES ASSUME TypeOK
               PROVE  ErasedIsEmpty <=> Shaped(refs, packet, factory) /\ Cleared(refs, queue)
    OBVIOUS
  <2>1. /\ \A p \in Ports : ~Exists(p) <=> refs[p] = 0
        /\ \A k \in Packets : ~Exists(k) <=> refs[k] = 0
        /\ \A f \in Factories : Exists(f) <=> refs[f] > 0
    BY <1>2, Kinds
  <2> QED
    BY <2>1 DEF ErasedIsEmpty, Shaped, Cleared
<1>4. TypeOK => (ReleaseUnderWay <=> Announced(refs, queue, factory))
  BY <1>2, Kinds DEF ReleaseUnderWay, Announced
<1>5. QueuedOnce <=> Placed(queue, packet)
  BY DEF QueuedOnce, Placed
<1> QED
  BY <1>1, <1>3, <1>4, <1>5, BalancedIsCounts DEF IoInv, Core

\* The counts, the messages and the objects agree.
Held == Core(refs, handles, queue, packet, factory) /\ Cleared(refs, queue)

\* The invariant is Core, empty queues of erased ports, and the types of the
\* rest.
LEMMA InvParts == IoInv <=> Held /\ OthersTyped
<1>1. TypeOK <=> Typed(refs, handles, queue, packet, factory) /\ OthersTyped
  BY TypeParts
<1>2. Core(refs, handles, queue, packet, factory) => Typed(refs, handles, queue, packet, factory)
  BY DEF Core
<1> QED
  BY <1>1, <1>2, InvIsCore DEF Held

\* What Core says of references, in the terms of the actions
LEMMA HeldFacts ==
    ASSUME Held
    PROVE  /\ refs \in [Objects -> Nat] /\ handles \in [Objects -> 0 .. MaxHandles]
           /\ queue \in [Ports -> Seq(Messages)]
           /\ packet \in [Packets -> PacketType] /\ factory \in [Factories -> FactoryType]
           /\ \A o \in Objects : handles[o] > 0 => Exists(o)
           /\ \A o : Exists(o) <=> o \in Objects /\ refs[o] > 0
           /\ \A k \in Packets : packet[k].queued => Exists(k) /\ Exists(packet[k].port) /\ packet[k].port \in Ports
           /\ \A f \in Factories : Exists(f) => Exists(factory[f].port) /\ factory[f].port \in Ports
<1>1. Core(refs, handles, queue, packet, factory)
  BY DEF Held
<1>2. Typed(refs, handles, queue, packet, factory) /\ Shaped(refs, packet, factory)
  BY <1>1 DEF Core
<1>3. \A k \in Packets : packet[k].port \in Ports \cup {NoHandle}
  BY <1>2 DEF Typed, PacketType
<1>4. \A k \in Packets : packet[k].queued => packet[k].port \in Ports
  BY <1>2, <1>3 DEF Shaped
<1>5. \A f \in Factories : refs[f] > 0 => factory[f].port \in Ports
  BY <1>2 DEF Shaped
<1>6. \A o : Exists(o) <=> o \in Objects /\ refs[o] > 0
  BY DEF Exists
<1> QED
  BY <1>1, <1>2, <1>4, <1>5, <1>6, Referenced, Kinds DEF Typed

----------------------------------------------------------------------------
(* The handles of the guest.                                               *)

\* A new port, packet or target has one handle and nothing that refers to it.
LEMMA CreateHeld ==
    ASSUME Held, NEW h \in Ports \cup Packets \cup Targets, Create(h)
    PROVE  Held'
<1>1. /\ refs[h] = 0 /\ refs' = [refs EXCEPT ![h] = 1] /\ handles' = [handles EXCEPT ![h] = 1]
      /\ queue' = queue /\ packet' = packet /\ factory' = factory
  BY DEF Create
<1>2. h \in Objects /\ h \notin Factories
  BY Kinds
<1>3. refs \in [Objects -> Nat] /\ handles \in [Objects -> 0 .. MaxHandles] /\ (handles[h] > 0 => refs[h] > 0)
  BY <1>2, HeldFacts
<1>4. handles[h] = 0 /\ handles[h] < MaxHandles
  BY <1>1, <1>2, <1>3, SizesAssumption, SMT
<1>5. refs' = [refs EXCEPT ![h] = @ + 1] /\ handles' = [handles EXCEPT ![h] = @ + 1]
  BY <1>1, <1>2, <1>3, <1>4, SMT
<1>6. h \in Factories => refs[h] > 0
  BY <1>2
<1>7. Core(refs', handles', queue, packet, factory) /\ Cleared(refs', queue)
  BY <1>2, <1>4, <1>5, <1>6, AddHandle DEF Held
<1> QED
  BY <1>1, <1>7 DEF Held

\* NtDuplicateObject adds a handle and a reference.
LEMMA DuplicateHeld ==
    ASSUME Held, NEW h \in Objects, Duplicate(h)
    PROVE  Held'
<1>1. /\ refs' = Retain(refs, {h}) /\ handles' = [handles EXCEPT ![h] = @ + 1]
      /\ queue' = queue /\ packet' = packet /\ factory' = factory
      /\ Exists(h) /\ handles[h] < MaxHandles
  BY DEF Duplicate
<1>2. refs \in [Objects -> Nat] /\ refs[h] > 0
  BY <1>1, HeldFacts
<1>3. refs' = [refs EXCEPT ![h] = @ + 1]
  BY <1>1, <1>2 DEF Retain
<1> QED
  BY <1>1, <1>2, <1>3, AddHandle DEF Held

\* NtClose of the last reference to a packet
LEMMA ClosePacket ==
    ASSUME Held, NEW h \in Packets, refs[h] = 1, handles[h] > 0
    PROVE  LET r == Erase(Erase(refs, {packet[h].port, packet[h].target}), {h})
           IN  /\ ~packet[h].queued
               /\ Core(r, [handles EXCEPT ![h] = @ - 1], queue, [packet EXCEPT ![h] = IdlePacket], factory)
<1> DEFINE k  == packet[h]
           r1 == Erase(refs, {k.port, k.target})
           p2 == [packet EXCEPT ![h] = IdlePacket]
           h2 == [handles EXCEPT ![h] = @ - 1]
<1>1. Core(refs, handles, queue, packet, factory)
  BY DEF Held
<1>2. refs \in [Objects -> Nat] /\ handles \in [Objects -> 0 .. MaxHandles] /\ packet \in [Packets -> PacketType]
  BY HeldFacts
<1>3. refs[h] = handles[h] + (IF k.queued THEN 1 ELSE 0) /\ handles[h] \in Nat /\ h \in Objects
  BY <1>1, <1>2, Kinds, SizesAssumption, SMT DEF Core, Counts
<1>4. ~k.queued
  BY <1>3, SMT
<1>5. k.port \in Ports \cup {NoHandle} /\ k.target \in Targets \cup {NoHandle}
  BY <1>2 DEF PacketType
<1>6. (k.port \in Ports => refs[k.port] > 0) /\ (k.target \in Targets => refs[k.target] > 0)
  BY <1>1, Referenced
<1>7. LetGo(refs, r1, h, k)
  <2>1. \A o \in Objects : o = k.port \/ o = k.target => refs[o] > 0
    BY <1>5, <1>6, Kinds
  <2> HIDE DEF k
  <2>2. r1 \in [Objects -> Nat]
    BY <1>2, SMT DEF Erase
  <2>3. \A o \in Objects : r1[o] = IF o = k.port \/ o = k.target \/ (o = h /\ k.queued) THEN refs[o] - 1 ELSE refs[o]
    BY <2>1, <1>4 DEF Erase
  <2> QED
    BY <2>2, <2>3 DEF LetGo
<1>8. DropsMessage(queue, queue, h, k)
  BY <1>4 DEF DropsMessage
<1>9. Core(r1, handles, queue, p2, factory)
  BY <1>1, <1>7, <1>8, FreePacket
<1>10. p2[h] = IdlePacket
  BY <1>2
<1>11. h \notin Factories
  BY Kinds
<1> HIDE DEF r1, p2, k
<1>12. Core(Erase(r1, {h}), h2, queue, p2, factory)
  BY <1>3, <1>9, <1>10, <1>11, DropHandle
<1> QED
  BY <1>4, <1>12 DEF r1, p2, k

\* NtClose of the last reference to a factory
LEMMA CloseFactory ==
    ASSUME Held, NEW h \in Factories, refs[h] = 1, handles[h] > 0
    PROVE  LET r == Erase(Erase(refs, {factory[h].port, NoHandle}), {h})
           IN  Core(r, [handles EXCEPT ![h] = @ - 1], queue, packet, [factory EXCEPT ![h] = NoFactory])
<1> DEFINE p  == factory[h].port
           r2 == Erase(Erase(refs, {p, NoHandle}), {h})
           h2 == [handles EXCEPT ![h] = @ - 1]
<1>1. Core(refs, handles, queue, packet, factory)
  BY DEF Held
<1>2. /\ refs \in [Objects -> Nat] /\ handles \in [Objects -> 0 .. MaxHandles]
      /\ queue \in [Ports -> Seq(Messages)] /\ h \in Objects /\ refs[h] = handles[h]
  BY <1>1, HeldFacts, Kinds DEF Core, Counts
<1>3. p \in Ports /\ refs[p] > 0
  BY <1>1, <1>2, HeldFacts DEF Exists
<1>4. /\ NoFactory \in FactoryType /\ NoFactory.port = NoHandle /\ NoFactory.pending = FALSE /\ NoFactory.releases = 0
  BY SizesAssumption, SMT DEF NoFactory, FactoryType, Numbers
<1>5. \A o \in Objects : o # NoHandle /\ (o = h => o # p)
  BY <1>3, Kinds
<1> HIDE DEF p
<1>6. r2 \in [Objects -> Nat] /\ \A o \in Objects : r2[o] = IF o = p \/ o = h THEN refs[o] - 1 ELSE refs[o]
  BY <1>2, <1>3, <1>5, SMT DEF Erase
<1>7. h2 \in [Objects -> 0 .. MaxHandles] /\ h2[h] = handles[h] - 1 /\ \A o \in Objects \ {h} : h2[o] = handles[o]
  BY <1>2, SizesAssumption, SMT
<1> HIDE DEF r2, h2
<1>8. Refactored(refs, handles, r2, h2, h, factory[h], NoFactory)
  <2>1. ASSUME NEW o \in Ports
        PROVE  Recounted(refs[o], r2[o], p = o, NoFactory.port = o) /\ h2[o] = handles[o]
    <3>1. o \in Objects /\ o # h /\ NoFactory.port # o /\ refs[o] \in Nat /\ r2[o] \in Nat
      BY <1>2, <1>4, <1>6, Kinds
    <3> QED
      BY <3>1, <1>3, <1>6, <1>7, SMT DEF Recounted
  <2>2. r2[h] = h2[h]
    BY <1>2, <1>6, <1>7
  <2>3. \A o \in Objects \ {h} : o \notin Ports => r2[o] = refs[o] /\ h2[o] = handles[o]
    BY <1>3, <1>6, <1>7
  <2> QED
    BY <2>1, <2>2, <2>3, <1>2, <1>6, <1>7 DEF Refactored, p
<1>9. FactoryWell(queue, h, NoFactory, r2[h])
  <2>1. r2[h] = 0
    BY <1>2, <1>6, SMT
  <2> QED
    BY <2>1, <1>4, SMT DEF FactoryWell
<1>10. SameOf(queue, queue, Factories \ {h})
  BY <1>2 DEF SameOf
<1> QED
  BY <1>1, <1>8, <1>9, <1>10, ChangeFactory DEF r2, h2, p

\* NtClose gives up a handle and, with the last reference to a packet or a
\* factory, what that retains.
LEMMA NtCloseHeld ==
    ASSUME Held, NEW h \in Objects, NtClose(h)
    PROVE  Held'
<1> DEFINE last == refs[h] = 1
           k    == IF h \in Packets /\ last THEN packet[h] ELSE IdlePacket
           port == IF h \in Factories /\ last THEN factory[h].port ELSE k.port
           message == k.queued /\ Exists(k.port) /\ HasMessage(queue[k.port], h)
           r    == Erase(Erase(IF message THEN Erase(refs, {h}) ELSE refs, {port, k.target}), {h})
<1>1. /\ handles[h] > 0
      /\ refs' = r
      /\ handles' = [handles EXCEPT ![h] = @ - 1]
      /\ queue' = Queues([p \in Ports |-> IF message /\ p = k.port THEN RemoveByPacket(queue[p], h) ELSE queue[p]], r)
      /\ packet' = [j \in Packets |-> IF j = h /\ last THEN IdlePacket ELSE packet[j]]
      /\ factory' = [f \in Factories |-> IF f = h /\ last THEN NoFactory ELSE factory[f]]
  BY DEF NtClose, Owns
<1>2. /\ refs \in [Objects -> Nat] /\ queue \in [Ports -> Seq(Messages)]
      /\ packet \in [Packets -> PacketType] /\ factory \in [Factories -> FactoryType]
  BY HeldFacts
<1>3. ASSUME ~message, NEW pk, NEW fc, Core(r, handles', queue, pk, fc), packet' = pk, factory' = fc
      PROVE  Held'
  <2> HIDE DEF message, r
  <2>1. [p \in Ports |-> IF message /\ p = k.port THEN RemoveByPacket(queue[p], h) ELSE queue[p]] = queue
    BY <1>2, <1>3
  <2>2. queue' = Queues(queue, r) /\ refs' = r
    BY <1>1, <2>1
  <2> QED
    BY <1>3, <2>2, ClearQueues DEF Held
<1>4. CASE h \in Packets /\ last
  <2>1. k = packet[h] /\ port = packet[h].port
    BY <1>4, Kinds
  <2>2. ~message
    BY <1>1, <1>4, <2>1, ClosePacket
  <2>3. r = Erase(Erase(refs, {packet[h].port, packet[h].target}), {h})
    BY <2>1, <2>2
  <2>4. packet' = [packet EXCEPT ![h] = IdlePacket] /\ factory' = factory
    BY <1>1, <1>2, <1>4, Kinds
  <2>5. Core(r, handles', queue, packet', factory')
    BY <1>1, <1>4, <2>3, <2>4, ClosePacket
  <2> QED
    BY <1>3, <2>2, <2>5
<1>5. ASSUME ~(h \in Packets /\ last)
      PROVE  k.target = NoHandle /\ k.port = NoHandle /\ ~message
  <2>1. k = IdlePacket
    BY <1>5
  <2> QED
    BY <2>1, SMT DEF IdlePacket
<1>6. CASE h \in Factories /\ last
  <2>1. ~message /\ port = factory[h].port /\ k.target = NoHandle
    BY <1>5, <1>6, Kinds
  <2>3. r = Erase(Erase(refs, {factory[h].port, NoHandle}), {h})
    BY <2>1
  <2>4. packet' = packet /\ factory' = [factory EXCEPT ![h] = NoFactory]
    BY <1>1, <1>2, <1>6, Kinds
  <2>5. Core(r, handles', queue, packet', factory')
    BY <1>1, <1>6, <2>3, <2>4, CloseFactory
  <2> QED
    BY <1>3, <2>1, <2>5
<1>7. CASE ~(h \in Packets /\ last) /\ ~(h \in Factories /\ last)
  <2>1. ~message /\ port = NoHandle /\ k.target = NoHandle
    BY <1>5, <1>7
  <2>2. r = Erase(Erase(refs, {NoHandle, NoHandle}), {h})
    BY <2>1
  <2>3. r = Erase(refs, {h})
    <3>1. \A o \in Objects : o # NoHandle
      BY Kinds
    <3> HIDE DEF r
    <3>2. Erase(refs, {NoHandle, NoHandle}) = refs
      BY <3>1, <1>2 DEF Erase
    <3> QED
      BY <2>2, <3>2
  <2>4. packet' = packet /\ factory' = factory
    BY <1>1, <1>2, <1>7
  <2>5. Core(r, handles', queue, packet, factory)
    BY <1>1, <1>7, <2>3, DropHandle DEF Held
  <2> QED
    BY <1>3, <2>1, <2>4, <2>5
<1> QED
  BY <1>4, <1>6, <1>7

----------------------------------------------------------------------------
(* Ports and packets.                                                      *)

\* Messages other than a packet's and those of a factory that exists come
\* and go without anybody counting on them.
LEMMA NtSetIoCompletionHeld ==
    ASSUME Held, NEW p \in Ports, NtSetIoCompletion(p)
    PROVE  Held'
<1>1. /\ handles[p] > 0 /\ queue' = [queue EXCEPT ![p] = Append(@, Post)]
      /\ refs' = refs /\ handles' = handles /\ packet' = packet /\ factory' = factory
  BY DEF NtSetIoCompletion, Owns
<1>2. queue \in [Ports -> Seq(Messages)] /\ refs[p] > 0 /\ Post \in Messages
  BY <1>1, HeldFacts, MessageKinds, Kinds
<1>3. /\ queue' \in [Ports -> Seq(Messages)]
      /\ \A o \in Ports : \A m : Recounted(Occurrences(queue[o], m), Occurrences(queue'[o], m), FALSE, o = p /\ m = Post)
  BY <1>1, <1>2, Appended
<1>4. \A o \in Ports : \A m : m # Post => Occurrences(queue'[o], m) = Occurrences(queue[o], m)
  BY <1>3 DEF Recounted
<1>5. /\ \A k \in Packets : OfPacket(k) # Post
      /\ \A f \in Factories : Release(f) # Post
  BY MessageKinds, Kinds
<1>6. SameOf(queue, queue', {f \in Factories : refs[f] > 0})
  BY <1>3, <1>4, <1>5 DEF SameOf
<1>7. Core(refs, handles, queue', packet, factory)
  BY <1>6, ChangeQueue DEF Held
<1>8. Cleared(refs, queue')
  BY <1>1, <1>2, SMT DEF Held, Cleared
<1> QED
  BY <1>1, <1>7, <1>8 DEF Held

\* NtSetIoCompletionEx ties a packet to a port and queues its completion.
LEMMA NtSetIoCompletionExHeld ==
    ASSUME Held, NEW p \in Ports, NEW k \in Packets, NtSetIoCompletionEx(p, k)
    PROVE  Held'
<1> DEFINE a == [IdlePacket EXCEPT !.port = p, !.queued = TRUE]
<1>1. /\ handles[p] > 0 /\ handles[k] > 0 /\ ~packet[k].associated /\ ~packet[k].queued
      /\ refs' = Retain(refs, {p, k})
      /\ packet' = [packet EXCEPT ![k] = a]
      /\ queue' = [queue EXCEPT ![p] = Append(@, OfPacket(k))]
      /\ handles' = handles /\ factory' = factory
  BY DEF NtSetIoCompletionEx, Owns
<1>2. /\ a.port = p /\ a.target = NoHandle /\ a.associated = FALSE /\ a.queued = TRUE /\ a \in PacketType
  BY DEF IdlePacket, PacketType
<1> HIDE DEF a
<1>3. /\ queue \in [Ports -> Seq(Messages)] /\ refs \in [Objects -> Nat]
      /\ refs[p] > 0 /\ refs[k] > 0 /\ OfPacket(k) \in Messages
  BY <1>1, HeldFacts, MessageKinds, Kinds
<1>4. InUse(a)
  BY <1>2 DEF InUse
<1>5. Takes(refs, refs', k, a)
  <2>1. \A o \in Objects : o # NoHandle
    BY Kinds
  <2> QED
    BY <1>1, <1>2, <1>3, <2>1, SMT DEF Takes, Retain
<1>6. AddsMessage(queue, queue', k, a)
  <2>1. queue[p] \in Seq(Messages)
    BY <1>3
  <2>2. Gained(queue[p], OfPacket(k), Append(queue[p], OfPacket(k))) /\ Append(queue[p], OfPacket(k)) \in Seq(Messages)
    BY <2>1, <1>3, AppendGains
  <2>3. /\ queue'[p] = Append(queue[p], OfPacket(k)) /\ (\A o \in Ports \ {p} : queue'[o] = queue[o])
        /\ queue' \in [Ports -> Seq(Messages)]
    BY <1>1, <1>3, <2>2
  <2> QED
    BY <1>2, <2>2, <2>3 DEF AddsMessage
<1>7. Core(refs', handles, queue', packet', factory)
  BY <1>1, <1>3, <1>4, <1>5, <1>6, TiePacket DEF Held
<1>8. Cleared(refs', queue')
  <2>1. \A o \in Ports : refs'[o] = 0 => o # p /\ refs[o] = 0
    BY <1>1, <1>3, Kinds, SMT DEF Retain
  <2> QED
    BY <1>1, <1>3, <2>1 DEF Held, Cleared
<1> QED
  BY <1>1, <1>7, <1>8 DEF Held

\* materialize_signaled_wait_packets
LEMMA MaterializeHeld ==
    ASSUME NEW r, NEW h, NEW q, NEW pk, NEW fc, Core(r, h, q, pk, fc), Cleared(r, q), NEW p \in Ports, r[p] > 0,
           NEW m, m = Materialize(pk, r, q, p)
    PROVE  Core(m.refs, h, m.queue, m.packet, fc) /\ Cleared(m.refs, m.queue)
<1> DEFINE S == Due(pk, p)
           t == [i \in 1 .. Cardinality(S) |-> OfPacket(InOrder(S)[i])]
<1>1. ReadyOn(pk, p, S) /\ S \in SUBSET Packets
  BY DEF Due, Armed, ReadyOn
<1>2. /\ m.refs = Retain(r, S) /\ m.queue = [q EXCEPT ![p] = @ \o t] /\ m.packet = MarkQueued(pk, S)
  BY DEF Materialize, MarkQueued
<1>3. r \in [Objects -> Nat] /\ q \in [Ports -> Seq(Messages)]
  BY DEF Core, Typed
<1> HIDE DEF S
<1>4. GainedAll(q[p], S, q[p] \o t)
  <2>1. q[p] \in Seq(Messages)
    BY <1>3
  <2> QED
    BY <2>1, <1>1, ConcatGainsAll
<1> HIDE DEF t
<1>5. q[p] \o t \in Seq(Messages)
  BY <1>4 DEF GainedAll
<1>6. JoinedBy(q, m.queue, p, S)
  BY <1>2, <1>3, <1>4, <1>5 DEF JoinedBy
<1>7. Core(m.refs, h, m.queue, m.packet, fc)
  <2>1. Core(Retain(r, S), h, m.queue, MarkQueued(pk, S), fc)
    BY <1>1, <1>6, QueuePackets
  <2> QED
    BY <1>2, <2>1
<1>8. Cleared(m.refs, m.queue)
  <2>1. \A o \in Ports : Retain(r, S)[o] = r[o]
    BY <1>1, Kinds DEF Retain
  <2>2. \A o \in Ports : o # p => m.queue[o] = q[o]
    BY <1>2, <1>3
  <2> QED
    BY <1>2, <2>1, <2>2, SMT DEF Cleared
<1> QED
  BY <1>7, <1>8

\* NtAssociateWaitCompletionPacket ties a packet to a port and a target, and
\* completes the packets whose targets are signaled.
LEMMA NtAssociateHeld ==
    ASSUME Held, NEW k \in Packets, NEW p \in Ports, NEW x \in Targets, NtAssociateWaitCompletionPacket(k, p, x)
    PROVE  Held'
<1> DEFINE a  == [IdlePacket EXCEPT !.port = p, !.target = x, !.associated = TRUE]
           pk == [packet EXCEPT ![k] = a]
           r  == Retain(refs, {p, x})
<1>m. PICK m : m = Materialize(pk, r, queue, p)
  OBVIOUS
<1>1. /\ handles[p] > 0 /\ handles[k] > 0 /\ ~packet[k].associated /\ ~packet[k].queued
      /\ packet' = m.packet /\ refs' = m.refs /\ queue' = m.queue
      /\ handles' = handles /\ factory' = factory
  BY <1>m DEF NtAssociateWaitCompletionPacket, Owns
<1>2. /\ a.port = p /\ a.target = x /\ a.associated = TRUE /\ a.queued = FALSE /\ a \in PacketType
  BY DEF IdlePacket, PacketType
<1> HIDE DEF a
<1>3. /\ queue \in [Ports -> Seq(Messages)] /\ refs \in [Objects -> Nat] /\ refs[p] > 0 /\ refs[k] > 0
  BY <1>1, HeldFacts, Kinds
<1>4. InUse(a)
  BY <1>2, Kinds DEF InUse
<1>5. Takes(refs, r, k, a)
  <2>1. \A o \in Objects : o \in {p, x} <=> o = a.port \/ o = a.target \/ (o = k /\ a.queued)
    BY <1>2
  <2> QED
    BY <1>3, <2>1, SMT DEF Takes, Retain
<1>6. AddsMessage(queue, queue, k, a)
  BY <1>2, <1>3 DEF AddsMessage
<1>7. Core(r, handles, queue, pk, factory)
  BY <1>1, <1>3, <1>4, <1>5, <1>6, TiePacket DEF Held
<1>8. /\ \A o \in Ports : r[o] = 0 => refs[o] = 0
      /\ r[p] > 0
  BY <1>3, Kinds, SMT DEF Retain
<1>9. Cleared(r, queue)
  BY <1>8 DEF Held, Cleared
<1> HIDE DEF pk, r
<1>10. Core(m.refs, handles, m.queue, m.packet, factory) /\ Cleared(m.refs, m.queue)
  BY <1>m, <1>7, <1>8, <1>9, MaterializeHeld
<1> QED
  BY <1>1, <1>10 DEF Held

\* A packet gives up its references, and its message is out of the queue.
LEMMA CancelHeld ==
    ASSUME Held, NEW k \in Packets, NtCancelWaitCompletionPacket(k, TRUE)
    PROVE  Held'
<1> DEFINE b == packet[k]
           message == b.queued /\ Exists(b.port) /\ HasMessage(queue[b.port], k)
           r == Erase(IF message THEN Erase(refs, {k}) ELSE refs, {b.port, b.target})
           q == [p \in Ports |-> IF message /\ p = b.port THEN RemoveByPacket(queue[p], k) ELSE queue[p]]
<1>1. /\ refs' = r /\ queue' = Queues(q, r)
      /\ packet' = [packet EXCEPT ![k] = IdlePacket] /\ handles' = handles /\ factory' = factory
  BY DEF NtCancelWaitCompletionPacket
<1>2. /\ refs \in [Objects -> Nat] /\ queue \in [Ports -> Seq(Messages)]
      /\ b \in PacketType
      /\ b.queued => Exists(k) /\ Exists(b.port) /\ b.port \in Ports
  BY HeldFacts
<1>c. Core(refs, handles, queue, packet, factory)
  BY DEF Held
<1>3. b.port \in Ports \cup {NoHandle} /\ b.target \in Targets \cup {NoHandle} /\ b.queued \in BOOLEAN
  BY <1>2 DEF PacketType
<1>4. /\ b.port \in Ports => refs[b.port] > 0
      /\ b.target \in Targets => refs[b.target] > 0
      /\ b.queued => refs[k] > 0
  BY <1>c, Referenced
<1>5. b.queued => /\ HasMessage(queue[b.port], k)
                  /\ Gained(RemoveByPacket(queue[b.port], k), OfPacket(k), queue[b.port])
                  /\ RemoveByPacket(queue[b.port], k) \in Seq(Messages)
  <2> SUFFICES ASSUME b.queued
               PROVE  /\ HasMessage(queue[b.port], k)
                      /\ Gained(RemoveByPacket(queue[b.port], k), OfPacket(k), queue[b.port])
                      /\ RemoveByPacket(queue[b.port], k) \in Seq(Messages)
    OBVIOUS
  <2>1. Occurrences(queue[b.port], OfPacket(k)) = 1
    BY <1>c, <1>2 DEF Core, Placed
  <2>2. queue[b.port] \in Seq(Messages)
    BY <1>2
  <2> QED
    BY <2>1, <2>2, RemoveLoses
<1>6. message <=> b.queued
  BY <1>2, <1>5
<1> HIDE DEF b
<1>7. LetGo(refs, r, k, b)
  <2>1. \A o \in Objects : o = b.port \/ o = b.target => refs[o] > 0 /\ o # k
    BY <1>3, <1>4, Kinds
  <2>2. r = Erase(IF b.queued THEN Erase(refs, {k}) ELSE refs, {b.port, b.target})
    BY <1>6, <1>3
  <2> HIDE DEF message, r
  <2>3. CASE b.queued
    <3>1. r = Erase(Erase(refs, {k}), {b.port, b.target})
      BY <2>2, <2>3
    <3>2. r \in [Objects -> Nat]
      BY <3>1, <1>2, SMT DEF Erase
    <3>3. \A o \in Objects : r[o] = IF o = b.port \/ o = b.target \/ o = k THEN refs[o] - 1 ELSE refs[o]
      BY <3>1, <2>1, <2>3, <1>2, <1>4 DEF Erase
    <3> QED
      BY <3>2, <3>3, <2>3 DEF LetGo
  <2>4. CASE ~b.queued
    <3>1. r = Erase(refs, {b.port, b.target})
      BY <2>2, <2>4
    <3>2. r \in [Objects -> Nat]
      BY <3>1, <1>2, SMT DEF Erase
    <3>3. \A o \in Objects : r[o] = IF o = b.port \/ o = b.target THEN refs[o] - 1 ELSE refs[o]
      BY <3>1, <2>1, <1>2 DEF Erase
    <3> QED
      BY <3>2, <3>3, <2>4 DEF LetGo
  <2> QED
    BY <2>3, <2>4
<1>8. DropsMessage(queue, q, k, b)
  <2>1. CASE ~b.queued
    <3>1. q = queue
      BY <1>2, <1>6, <2>1
    <3> QED
      BY <2>1, <3>1 DEF DropsMessage
  <2>2. CASE b.queued
    <3>1. b.port \in Ports
      BY <1>2, <2>2
    <3>2. q[b.port] = RemoveByPacket(queue[b.port], k) /\ (\A p \in Ports \ {b.port} : q[p] = queue[p])
      BY <3>1, <1>6, <2>2
    <3>3. q \in [Ports -> Seq(Messages)]
      BY <1>2, <1>5, <2>2
    <3> QED
      BY <3>2, <3>3, <1>5, <2>2 DEF DropsMessage
  <2> QED
    BY <2>1, <2>2
<1> HIDE DEF r, q
<1>9. Core(r, handles, q, packet', factory)
  BY <1>c, <1>1, <1>7, <1>8, FreePacket DEF b
<1> QED
  BY <1>1, <1>9, ClearQueues DEF Held

----------------------------------------------------------------------------
(* Taking messages.                                                        *)

\* NtRemoveIoCompletion, NtWaitForWorkViaWorkerFactory and the poll of a
\* waiting thread start like this.
LEMMA StartDrainHeld ==
    ASSUME Held, NEW t, NEW w, NEW polled, w.port \in Ports, Exists(w.port), StartDrain(t, w, polled),
           handles' = handles, factory' = factory
    PROVE  Held'
<1>m. PICK m : m = Materialize(packet, refs, queue, w.port)
  OBVIOUS
<1>1. packet' = m.packet /\ refs' = m.refs /\ queue' = m.queue
  BY <1>m DEF StartDrain
<1>2. Core(m.refs, handles, m.queue, m.packet, factory) /\ Cleared(m.refs, m.queue)
  BY <1>m, MaterializeHeld DEF Held, Exists
<1> QED
  BY <1>1, <1>2 DEF Held

\* A wait for a port completes packets.
LEMMA ObservePortHeld ==
    ASSUME Held, NEW p \in Ports, ObservePort(p)
    PROVE  Held'
<1>m. PICK m : m = Materialize(packet, refs, queue, p)
  OBVIOUS
<1>1. packet' = m.packet /\ refs' = m.refs /\ queue' = m.queue /\ handles' = handles /\ factory' = factory /\ handles[p] > 0
  BY <1>m DEF ObservePort, Owns
<1>2. refs[p] > 0
  BY <1>1, HeldFacts, Kinds
<1>3. Core(m.refs, handles, m.queue, m.packet, factory) /\ Cleared(m.refs, m.queue)
  BY <1>m, <1>2, MaterializeHeld DEF Held
<1> QED
  BY <1>1, <1>3 DEF Held

\* A packet's message is taken, and with it the packet's references.
LEMMA TakePacket ==
    ASSUME Held, NEW p \in Ports, queue[p] # <<>>, NEW k \in Packets, Head(queue[p]) = OfPacket(k),
           NEW q, q = [queue EXCEPT ![p] = Tail(@)],
           NEW r, r = Erase(refs, {k, packet[k].port, packet[k].target})
    PROVE  Exists(k) /\ Core(r, handles, q, [packet EXCEPT ![k] = IdlePacket], factory)
<1> DEFINE b == packet[k]
<1>1. Core(refs, handles, queue, packet, factory)
  BY DEF Held
<1>2. /\ refs \in [Objects -> Nat] /\ queue \in [Ports -> Seq(Messages)]
      /\ b \in PacketType /\ (b.queued => Exists(k))
  BY HeldFacts
<1>3. /\ q \in [Ports -> Seq(Messages)]
      /\ \A o \in Ports : \A m : Recounted(Occurrences(q[o], m), Occurrences(queue[o], m), FALSE, o = p /\ m = Head(queue[p]))
  BY <1>2, Popped
<1>4. Recounted(Occurrences(q[p], OfPacket(k)), Occurrences(queue[p], OfPacket(k)), FALSE, TRUE)
  BY <1>3
<1>5. Occurrences(queue[p], OfPacket(k)) = IF b.queued /\ b.port = p THEN 1 ELSE 0
  BY <1>1 DEF Core, Placed
<1>6. b.queued /\ b.port = p
  BY <1>4, <1>5, SMT DEF Recounted
<1>7. Exists(k) /\ refs[k] > 0 /\ refs[p] > 0 /\ (b.target \in Targets => refs[b.target] > 0)
  BY <1>1, <1>2, <1>6, Referenced DEF Exists
<1>8. b.target \in Targets \cup {NoHandle}
  BY <1>2 DEF PacketType
<1>9. LetGo(refs, r, k, b)
  <2>1. \A o \in Objects : o = b.port \/ o = b.target \/ o = k => refs[o] > 0
    BY <1>6, <1>7, <1>8, Kinds
  <2> HIDE DEF b
  <2>2. r = Erase(refs, {k, b.port, b.target})
    BY DEF b
  <2>3. r \in [Objects -> Nat]
    BY <2>2, <1>2, SMT DEF Erase
  <2>4. \A o \in Objects : r[o] = IF o = b.port \/ o = b.target \/ o = k THEN refs[o] - 1 ELSE refs[o]
    BY <2>1, <2>2 DEF Erase
  <2> QED
    BY <2>3, <2>4, <1>6 DEF LetGo
<1>10. DropsMessage(queue, q, k, b)
  <2>1. queue[p] \in Seq(Messages)
    BY <1>2
  <2>2. Gained(Tail(queue[p]), OfPacket(k), queue[p])
    BY <2>1, TailLoses
  <2>3. q[p] = Tail(queue[p]) /\ \A o \in Ports \ {p} : q[o] = queue[o]
    BY <1>2
  <2> QED
    BY <2>2, <2>3, <1>3, <1>6 DEF DropsMessage
<1> QED
  BY <1>1, <1>7, <1>9, <1>10, FreePacket

\* A posted message, or the release of a factory that is gone
LEMMA TakeOther ==
    ASSUME Held, NEW p \in Ports, queue[p] # <<>>, NEW q, q = [queue EXCEPT ![p] = Tail(@)],
           Head(queue[p]).packet = NoHandle, ~Exists(Head(queue[p]).release)
    PROVE  Core(refs, handles, q, packet, factory)
<1>1. queue \in [Ports -> Seq(Messages)]
  BY HeldFacts
<1>2. /\ q \in [Ports -> Seq(Messages)]
      /\ \A o \in Ports : \A m : Recounted(Occurrences(q[o], m), Occurrences(queue[o], m), FALSE, o = p /\ m = Head(queue[p]))
  BY <1>1, Popped
<1>3. \A o \in Ports : \A m : m # Head(queue[p]) => Occurrences(q[o], m) = Occurrences(queue[o], m)
  BY <1>2 DEF Recounted
<1>4. /\ \A k \in Packets : OfPacket(k) # Head(queue[p])
      /\ \A f \in Factories : refs[f] > 0 => Release(f) # Head(queue[p])
  BY MessageKinds, Kinds DEF Exists
<1>5. SameOf(queue, q, {f \in Factories : refs[f] > 0})
  BY <1>2, <1>3, <1>4 DEF SameOf
<1> QED
  BY <1>5, ChangeQueue DEF Held

\* A factory's record after its release was taken: more says whether another
\* one follows.
Released(fr, left, more) == [fr EXCEPT !.releases = left, !.pending = IF more THEN @ ELSE FALSE]

\* The release of a factory that exists
LEMMA TakeRelease ==
    ASSUME Held, NEW p \in Ports, queue[p] # <<>>, NEW f \in Factories, Exists(f), Head(queue[p]) = Release(f),
           NEW q, q = [queue EXCEPT ![p] = Tail(@)], NEW left, left = Max({factory[f].releases - 1, 0}),
           NEW more \in BOOLEAN, more <=> left > 0 /\ ~factory[f].shutdown /\ Exists(factory[f].port),
           NEW q2, q2 = IF more THEN EnqueueRelease(q, f) ELSE q
    PROVE  Core(refs, handles, q2, packet, [factory EXCEPT ![f] = Released(factory[f], left, more)])
<1> DEFINE b == factory[f]
           a == Released(b, left, more)
<1>1. Core(refs, handles, queue, packet, factory)
  BY DEF Held
<1>2. /\ refs \in [Objects -> Nat] /\ handles \in [Objects -> 0 .. MaxHandles] /\ queue \in [Ports -> Seq(Messages)]
      /\ b \in FactoryType /\ b.port \in Ports /\ Exists(b.port) /\ refs[f] > 0
  BY HeldFacts
<1>3. b.releases \in 0 .. MaxReleases /\ b.pending \in BOOLEAN /\ b.shutdown \in BOOLEAN
  BY <1>2 DEF FactoryType
<1>4. left \in 0 .. MaxReleases /\ (left > 0 => b.releases > 0)
  <2>1. PICK n : n = b.releases - 1
    OBVIOUS
  <2>2. n \in Int /\ n <= MaxReleases /\ n = b.releases - 1 /\ b.releases \in Nat /\ MaxReleases \in Nat
    BY <2>1, <1>3, SizesAssumption, SMT
  <2>3. left = Max({n, 0})
    BY <2>1
  <2>4. (left = n /\ n >= 0) \/ left = 0
    BY <2>2, <2>3, SMT DEF Max
  <2> QED
    BY <2>2, <2>4, SMT
<1>5. b.releases > 0 /\ ~b.shutdown => b.pending
  BY <1>1, <1>2 DEF Core, Announced
<1>6. /\ a \in FactoryType /\ a.port = b.port /\ a.releases = left /\ a.shutdown = b.shutdown
      /\ a.pending = IF more THEN b.pending ELSE FALSE
  BY <1>2, <1>3, <1>4 DEF Released, FactoryType
<1> HIDE DEF a, b
<1>7. /\ q \in [Ports -> Seq(Messages)]
      /\ \A o \in Ports : \A m : Recounted(Occurrences(q[o], m), Occurrences(queue[o], m), FALSE, o = p /\ m = Release(f))
  BY <1>2, Popped
<1>8. /\ q2 \in [Ports -> Seq(Messages)]
      /\ \A o \in Ports : \A m : Recounted(Occurrences(q[o], m), Occurrences(q2[o], m), FALSE, more /\ o = b.port /\ m = Release(f))
  <2>1. CASE more
    <3>1. q2 = [q EXCEPT ![b.port] = Append(@, Release(f))]
      BY <2>1 DEF EnqueueRelease, b
    <3>2. Release(f) \in Messages
      BY MessageKinds
    <3>3. /\ q2 \in [Ports -> Seq(Messages)]
          /\ \A o \in Ports : \A m : Recounted(Occurrences(q[o], m), Occurrences(q2[o], m), FALSE, o = b.port /\ m = Release(f))
      <4>1. PICK c \in Ports : c = b.port
        BY <1>2
      <4>2. PICK x \in Messages : x = Release(f)
        BY <3>2
      <4>3. q2 = [q EXCEPT ![c] = Append(@, x)] /\ q \in [Ports -> Seq(Messages)]
        BY <3>1, <4>1, <4>2, <1>7
      <4>4. /\ q2 \in [Ports -> Seq(Messages)]
            /\ \A o \in Ports : \A m : Recounted(Occurrences(q[o], m), Occurrences(q2[o], m), FALSE, o = c /\ m = x)
        BY <4>3, Appended
      <4> QED
        BY <4>1, <4>2, <4>4
    <3>4. ASSUME NEW o \in Ports, NEW m
          PROVE  Recounted(Occurrences(q[o], m), Occurrences(q2[o], m), FALSE, more /\ o = b.port /\ m = Release(f))
      <4>1. Recounted(Occurrences(q[o], m), Occurrences(q2[o], m), FALSE, o = b.port /\ m = Release(f))
        BY <3>3
      <4> QED
        BY <2>1, <4>1 DEF Recounted
    <3> QED
      BY <3>3, <3>4
  <2>2. CASE ~more
    <3>1. q2 = q /\ \A o \in Ports : q[o] \in Seq(Messages)
      BY <2>2, <1>7
    <3>2. \A o \in Ports : \A m : Occurrences(q[o], m) \in Nat
      BY <3>1, PositionsFinite
    <3> QED
      BY <2>2, <3>1, <3>2, <1>7 DEF Recounted
  <2> QED
    BY <2>1, <2>2
<1>9. \A o \in Ports : \A m : m # Release(f) => Occurrences(q2[o], m) = Occurrences(queue[o], m)
  <2> SUFFICES ASSUME NEW o \in Ports, NEW m, m # Release(f)
               PROVE  Occurrences(q2[o], m) = Occurrences(queue[o], m)
    OBVIOUS
  <2>1. /\ Recounted(Occurrences(q[o], m), Occurrences(queue[o], m), FALSE, o = p /\ m = Release(f))
        /\ Recounted(Occurrences(q[o], m), Occurrences(q2[o], m), FALSE, more /\ o = b.port /\ m = Release(f))
    BY <1>7, <1>8
  <2> QED
    BY <2>1 DEF Recounted
<1>10. SameOf(queue, q2, Factories \ {f})
  <2>1. /\ \A k \in Packets : OfPacket(k) # Release(f)
        /\ \A g \in Factories \ {f} : Release(g) # Release(f)
    BY MessageKinds, Kinds
  <2> QED
    BY <2>1, <1>8, <1>9 DEF SameOf
<1>11. FactoryWell(q2, f, a, refs[f])
  <2>1. a.pending => Occurrences(q2[a.port], Release(f)) > 0
    <3>1. a.pending => more
      BY <1>6
    <3>2. Recounted(Occurrences(q[b.port], Release(f)), Occurrences(q2[b.port], Release(f)), FALSE, more)
      BY <1>2, <1>8 DEF b
    <3>3. a.pending => Occurrences(q2[b.port], Release(f)) > 0
      BY <3>1, <3>2, SMT DEF Recounted
    <3> QED
      BY <3>3, <1>6
  <2>2. a.releases > 0 /\ ~a.shutdown => a.pending
    BY <1>2, <1>4, <1>5, <1>6 DEF b
  <2> QED
    BY <2>1, <2>2, <1>2, <1>6 DEF FactoryWell
<1>12. Refactored(refs, handles, refs, handles, f, b, a)
  <2>1. refs[f] = handles[f]
    BY <1>1 DEF Core, Counts
  <2>2. \A o \in Ports : refs[o] \in Nat
    BY <1>2, Kinds
  <2>3. \A o \in Ports : Recounted(refs[o], refs[o], b.port = o, a.port = o)
    BY <2>2, <1>6 DEF Recounted
  <2> QED
    BY <2>1, <2>3, <1>2 DEF Refactored
<1> QED
  BY <1>1, <1>10, <1>11, <1>12, ChangeFactory DEF a, b

\* The loop takes a message: a packet is freed, or a release counts down.
LEMMA TakeMessageHeld ==
    ASSUME Held, OthersTyped, TakeMessage
    PROVE  Held'
<1> DEFINE p == drain.wait.port
           m == Head(queue[p])
           k == m.packet
           f == m.release
           q == [queue EXCEPT ![p] = Tail(@)]
<1>1. /\ Exists(p) /\ queue[p] # <<>>
      /\ refs' = IF Exists(k) THEN Erase(refs, {k, packet[k].port, packet[k].target}) ELSE refs
      /\ packet' = [j \in Packets |-> IF j = k THEN IdlePacket ELSE packet[j]]
      /\ Dequeued(q, f) /\ handles' = handles
  BY DEF TakeMessage
<1>2. p \in Ports \cup {NoHandle}
  BY DEF OthersTyped, DrainTyped
<1>3. p \in Ports
  BY <1>1, <1>2, Kinds DEF Exists
<1>4. queue \in [Ports -> Seq(Messages)] /\ packet \in [Packets -> PacketType] /\ factory \in [Factories -> FactoryType]
  BY HeldFacts
<1>5. m \in Messages
  BY <1>1, <1>3, <1>4, Popped
<1>6. /\ k = NoHandle \/ (k \in Packets /\ m = OfPacket(k) /\ f = NoHandle)
      /\ f = NoHandle \/ (f \in Factories /\ m = Release(f) /\ k = NoHandle)
  <2>1. /\ k = NoHandle \/ (k \in Packets /\ m = OfPacket(k))
        /\ f = NoHandle \/ (f \in Factories /\ m = Release(f))
    BY <1>5, MessageKinds
  <2> HIDE DEF m
  <2>2. k \in Packets /\ m = OfPacket(k) => f = NoHandle
    BY MessageKinds
  <2>3. f \in Factories /\ m = Release(f) => k = NoHandle
    BY MessageKinds
  <2> QED
    BY <2>1, <2>2, <2>3
<1>7. ~Exists(NoHandle)
  BY Kinds DEF Exists
<1> HIDE DEF p, m, k, f, q
<1>8. CASE k \in Packets
  <2>1. f = NoHandle /\ m = OfPacket(k)
    BY <1>6, <1>8, Kinds
  <2>2. Exists(k) /\ Core(Erase(refs, {k, packet[k].port, packet[k].target}), handles, q, [packet EXCEPT ![k] = IdlePacket], factory)
    BY <1>1, <1>3, <1>8, <2>1, TakePacket DEF q, m
  <2>3. packet' = [packet EXCEPT ![k] = IdlePacket]
    BY <1>1, <1>4, <1>8
  <2>4. queue' = Queues(q, refs') /\ factory' = factory
    BY <1>1, <1>7, <2>1 DEF Dequeued
  <2>5. Core(refs', handles, q, packet', factory)
    BY <1>1, <2>2, <2>3
  <2> QED
    BY <1>1, <2>4, <2>5, ClearQueues DEF Held
<1>9. ASSUME k \notin Packets
      PROVE  k = NoHandle /\ refs' = refs /\ packet' = packet
  <2>1. k = NoHandle
    BY <1>6, <1>9
  <2>2. \A j \in Packets : j # k
    BY <1>9
  <2> QED
    BY <2>1, <2>2, <1>1, <1>4, <1>7
<1>10. CASE k \notin Packets /\ ~Exists(f)
  <2>1. Core(refs, handles, q, packet, factory)
    BY <1>1, <1>3, <1>9, <1>10, TakeOther DEF q, m, k, f
  <2>2. queue' = Queues(q, refs') /\ factory' = factory
    BY <1>1, <1>10 DEF Dequeued
  <2>3. Core(refs', handles, q, packet', factory')
    BY <2>1, <2>2, <1>9, <1>10
  <2> QED
    BY <1>1, <2>2, <2>3, ClearQueues DEF Held
<1>11. CASE k \notin Packets /\ Exists(f)
  <2> DEFINE left == Max({factory[f].releases - 1, 0})
             more == left > 0 /\ ~factory[f].shutdown /\ Exists(factory[f].port)
             q2   == IF more THEN EnqueueRelease(q, f) ELSE q
  <2>1. f \in Factories /\ m = Release(f)
    BY <1>6, <1>7, <1>11
  <2>2. /\ factory' = [factory EXCEPT ![f].releases = left, ![f].pending = IF more THEN @ ELSE FALSE]
        /\ queue' = Queues(q2, refs')
    BY <1>1, <1>11 DEF Dequeued
  <2>3. more \in BOOLEAN
    OBVIOUS
  <2>4. Core(refs, handles, q2, packet, [factory EXCEPT ![f] = Released(factory[f], left, more)])
    BY <1>1, <1>3, <1>11, <2>1, <2>3, TakeRelease DEF q, m
  <2> HIDE DEF left, more, q2
  <2>5. factory' = [factory EXCEPT ![f] = Released(factory[f], left, more)]
    BY <2>1, <2>2, <1>4 DEF Released, FactoryType
  <2>6. Core(refs', handles, q2, packet', factory')
    BY <2>4, <2>5, <1>9, <1>11
  <2> QED
    BY <1>1, <2>2, <2>6, ClearQueues DEF Held
<1> QED
  BY <1>8, <1>10, <1>11

----------------------------------------------------------------------------
(* Worker factories.                                                       *)

\* A factory that exists changes in nothing but that.
LEMMA ChangeSettings ==
    ASSUME Held, NEW f \in Factories, Exists(f), NEW a, SameDuties(factory[f], a),
           factory' = [factory EXCEPT ![f] = a],
           refs' = refs, handles' = handles, queue' = queue, packet' = packet
    PROVE  Held'
<1>1. Core(refs, handles, queue, packet, factory)
  BY DEF Held
<1>2. /\ refs \in [Objects -> Nat] /\ handles \in [Objects -> 0 .. MaxHandles] /\ queue \in [Ports -> Seq(Messages)]
      /\ refs[f] > 0 /\ factory[f].port \in Ports
  BY HeldFacts
<1>3. Refactored(refs, handles, refs, handles, f, factory[f], a)
  <2>1. refs[f] = handles[f]
    BY <1>1 DEF Core, Counts
  <2>2. \A o \in Ports : refs[o] \in Nat
    BY <1>2, Kinds
  <2>3. \A o \in Ports : Recounted(refs[o], refs[o], factory[f].port = o, a.port = o)
    BY <2>2 DEF Recounted, SameDuties
  <2> QED
    BY <2>1, <2>3, <1>2 DEF Refactored
<1>4. /\ factory[f].pending => Occurrences(queue[factory[f].port], Release(f)) > 0
      /\ factory[f].releases > 0 /\ ~factory[f].shutdown => factory[f].pending
  BY <1>1, <1>2 DEF Core, Announced
<1>5. FactoryWell(queue, f, a, refs[f])
  BY <1>2, <1>4 DEF FactoryWell, SameDuties
<1>6. SameOf(queue, queue, Factories \ {f})
  BY <1>2 DEF SameOf
<1>7. Core(refs, handles, queue, packet, factory')
  BY <1>1, <1>3, <1>5, <1>6, ChangeFactory
<1> QED
  BY <1>7 DEF Held

\* NtCreateWorkerFactory retains the port of the new factory.
LEMMA NtCreateWorkerFactoryHeld ==
    ASSUME Held, NEW f \in Factories, NEW p \in Ports, NEW max \in Numbers, NtCreateWorkerFactory(f, p, max)
    PROVE  Held'
<1> DEFINE fr == [NoFactory EXCEPT !.port = p, !.maxCount = max, !.maximum = max]
<1>1. /\ handles[p] > 0 /\ refs[f] = 0
      /\ refs' = [Retain(refs, {p}) EXCEPT ![f] = 1]
      /\ handles' = [handles EXCEPT ![f] = 1]
      /\ Ensure(f, fr) /\ queue' = queue /\ packet' = packet
  BY DEF NtCreateWorkerFactory, Owns
<1>2. /\ fr \in FactoryType /\ fr.port = p /\ fr.pending = FALSE /\ fr.releases = 0
  <2>1. NoFactory \in FactoryType /\ NoFactory.pending = FALSE /\ NoFactory.releases = 0
    <3>1. 0 \in Numbers /\ 0 \in 0 .. MaxReleases
      BY SizesAssumption, SMT DEF Numbers
    <3>2. {} \in SUBSET Threads
      OBVIOUS
    <3> QED
      BY <3>1, <3>2 DEF NoFactory, FactoryType
  <2> QED
    BY <2>1 DEF FactoryType
<1> HIDE DEF fr
<1>3. PICK a : SameDuties(fr, a) /\ factory' = [factory EXCEPT ![f] = a]
  BY <1>1, <1>2, EnsureDuties
<1>4. a \in FactoryType /\ a.port = p /\ a.pending = FALSE /\ a.releases = 0
  BY <1>2, <1>3 DEF SameDuties
<1>5. Core(refs, handles, queue, packet, factory)
  BY DEF Held
<1>6. /\ refs \in [Objects -> Nat] /\ handles \in [Objects -> 0 .. MaxHandles] /\ queue \in [Ports -> Seq(Messages)]
      /\ refs[p] > 0 /\ f \in Objects /\ p \in Objects /\ f # p
  BY <1>1, HeldFacts, Kinds
<1>7. factory[f].port = NoHandle
  <2>1. factory[f] = NoFactory
    BY <1>1, <1>5, SMT DEF Core, Shaped
  <2> QED
    BY <2>1, SMT DEF NoFactory
<1>8. /\ refs' \in [Objects -> Nat]
      /\ refs'[f] = 1 /\ refs'[p] = refs[p] + 1 /\ \A o \in Objects : o # f /\ o # p => refs'[o] = refs[o]
  <2>1. PICK r : r = Retain(refs, {p})
    OBVIOUS
  <2>2. /\ r \in [Objects -> Nat] /\ r[p] = refs[p] + 1
        /\ \A o \in Objects : o # p => r[o] = refs[o]
    BY <2>1, <1>6, SMT DEF Retain
  <2>3. refs' = [r EXCEPT ![f] = 1]
    BY <1>1, <2>1
  <2> QED
    BY <2>2, <2>3, <1>6
<1>9. /\ handles' \in [Objects -> 0 .. MaxHandles]
      /\ handles'[f] = 1 /\ \A o \in Objects : o # f => handles'[o] = handles[o]
  BY <1>1, <1>6, SizesAssumption, SMT
<1>10. Refactored(refs, handles, refs', handles', f, factory[f], a)
  <2>1. ASSUME NEW o \in Ports
        PROVE  Recounted(refs[o], refs'[o], factory[f].port = o, a.port = o) /\ handles'[o] = handles[o]
    <3>1. o \in Objects /\ o # f /\ o # NoHandle /\ refs[o] \in Nat
      BY <1>6, Kinds
    <3>2. CASE o = p
      BY <3>1, <3>2, <1>4, <1>7, <1>8, <1>9 DEF Recounted
    <3>3. CASE o # p
      BY <3>1, <3>3, <1>4, <1>7, <1>8, <1>9 DEF Recounted
    <3> QED
      BY <3>2, <3>3
  <2>2. \A o \in Objects \ {f} : o \notin Ports => refs'[o] = refs[o] /\ handles'[o] = handles[o]
    BY <1>8, <1>9
  <2> QED
    BY <2>1, <2>2, <1>6, <1>8, <1>9 DEF Refactored
<1>11. FactoryWell(queue, f, a, refs'[f])
  BY <1>4, <1>8, SMT DEF FactoryWell
<1>12. SameOf(queue, queue, Factories \ {f})
  BY <1>6 DEF SameOf
<1>13. Core(refs', handles', queue, packet, factory')
  BY <1>3, <1>5, <1>10, <1>11, <1>12, ChangeFactory
<1>14. Cleared(refs', queue)
  <2>1. \A o \in Ports : refs'[o] = 0 => refs[o] = 0
    <3>1. \A o \in Ports : o \in Objects /\ o # f
      BY Kinds
    <3> QED
      BY <3>1, <1>6, <1>8, SMT
  <2> QED
    BY <2>1 DEF Held, Cleared
<1> QED
  BY <1>1, <1>13, <1>14 DEF Held

\* The calls that change a factory only: its threads, ...
LEMMA NtWorkerFactoryWorkerReadyHeld ==
    ASSUME Held, NEW f \in Factories, NtWorkerFactoryWorkerReady(f)
    PROVE  Held'
<1>1. /\ handles[f] > 0 /\ Ensure(f, factory[f])
      /\ refs' = refs /\ handles' = handles /\ queue' = queue /\ packet' = packet
  BY DEF NtWorkerFactoryWorkerReady, Owns
<1>2. factory[f] \in FactoryType /\ Exists(f)
  BY <1>1, HeldFacts, Kinds
<1>3. PICK a : SameDuties(factory[f], a) /\ factory' = [factory EXCEPT ![f] = a]
  BY <1>1, <1>2, EnsureDuties
<1> QED
  BY <1>1, <1>2, <1>3, ChangeSettings

\* ... its configuration, ...
LEMMA NtSetInformationWorkerFactoryHeld ==
    ASSUME Held, NEW f \in Factories, NEW class \in InfoClasses, NEW n \in Numbers,
           NtSetInformationWorkerFactory(f, class, n)
    PROVE  Held'
<1>1. PICK fr : fr = Configured(factory[f], class, n)
  OBVIOUS
<1>2. /\ handles[f] > 0 /\ Ensure(f, fr)
      /\ refs' = refs /\ handles' = handles /\ queue' = queue /\ packet' = packet
  BY <1>1 DEF NtSetInformationWorkerFactory, Owns
<1>3. factory[f] \in FactoryType /\ Exists(f)
  BY <1>2, HeldFacts, Kinds
<1>4. SameDuties(factory[f], fr)
  BY <1>1, <1>3, ConfiguredDuties
<1>5. PICK a : SameDuties(fr, a) /\ factory' = [factory EXCEPT ![f] = a]
  BY <1>2, <1>4, EnsureDuties DEF SameDuties
<1>6. SameDuties(factory[f], a)
  BY <1>4, <1>5 DEF SameDuties
<1> QED
  BY <1>2, <1>3, <1>5, <1>6, ChangeSettings

\* ... its time-out, ...
LEMMA SetFactoryTimeoutHeld ==
    ASSUME Held, NEW f \in Factories, NEW timed \in BOOLEAN, SetFactoryTimeout(f, timed)
    PROVE  Held'
<1>1. /\ handles[f] > 0 /\ factory' = [factory EXCEPT ![f].timeout = timed]
      /\ refs' = refs /\ handles' = handles /\ queue' = queue /\ packet' = packet
  BY DEF SetFactoryTimeout, Owns
<1>2. factory[f] \in FactoryType /\ Exists(f) /\ factory \in [Factories -> FactoryType]
  BY <1>1, HeldFacts, Kinds
<1>3. factory' = [factory EXCEPT ![f] = [factory[f] EXCEPT !.timeout = timed]]
  BY <1>1, <1>2
<1>4. SameDuties(factory[f], [factory[f] EXCEPT !.timeout = timed])
  BY <1>2 DEF SameDuties, FactoryType
<1> QED
  BY <1>1, <1>2, <1>3, <1>4, ChangeSettings

\* ... and its end: what is pending stays pending.
LEMMA NtShutdownWorkerFactoryHeld ==
    ASSUME Held, NEW f \in Factories, NtShutdownWorkerFactory(f)
    PROVE  Held'
<1> DEFINE a == [factory[f] EXCEPT !.shutdown = TRUE, !.workers = {}]
<1>1. /\ handles[f] > 0 /\ factory' = [factory EXCEPT ![f].shutdown = TRUE, ![f].workers = {}]
      /\ refs' = refs /\ handles' = handles /\ queue' = queue /\ packet' = packet
  BY DEF NtShutdownWorkerFactory, Owns
<1>2. /\ factory[f] \in FactoryType /\ Exists(f) /\ factory \in [Factories -> FactoryType]
      /\ refs \in [Objects -> Nat] /\ handles \in [Objects -> 0 .. MaxHandles] /\ queue \in [Ports -> Seq(Messages)]
      /\ f \in Objects
  BY <1>1, HeldFacts, Kinds
<1>3. refs[f] > 0 /\ factory[f].port \in Ports
  BY <1>2, HeldFacts
<1>4. factory' = [factory EXCEPT ![f] = a]
  BY <1>1, <1>2
<1>5. /\ a \in FactoryType /\ a.port = factory[f].port /\ a.pending = factory[f].pending
      /\ a.shutdown = TRUE
  BY <1>2 DEF FactoryType
<1> HIDE DEF a
<1>6. Core(refs, handles, queue, packet, factory)
  BY DEF Held
<1>7. Refactored(refs, handles, refs, handles, f, factory[f], a)
  <2>1. refs[f] = handles[f]
    BY <1>6 DEF Core, Counts
  <2>2. \A o \in Ports : refs[o] \in Nat
    BY <1>2, Kinds
  <2>3. \A o \in Ports : Recounted(refs[o], refs[o], factory[f].port = o, a.port = o)
    BY <2>2, <1>5 DEF Recounted
  <2> QED
    BY <2>1, <2>3, <1>2, <1>5 DEF Refactored
<1>8. factory[f].pending => Occurrences(queue[factory[f].port], Release(f)) > 0
  BY <1>6, <1>3 DEF Core, Announced
<1>9. FactoryWell(queue, f, a, refs[f])
  BY <1>3, <1>5, <1>8 DEF FactoryWell
<1>10. SameOf(queue, queue, Factories \ {f})
  BY <1>2 DEF SameOf
<1>11. Core(refs, handles, queue, packet, factory')
  BY <1>4, <1>6, <1>7, <1>9, <1>10, ChangeFactory
<1> QED
  BY <1>1, <1>11 DEF Held

\* NtReleaseWorkerFactoryWorker posts a release unless one is under way.
LEMMA NtReleaseWorkerFactoryWorkerHeld ==
    ASSUME Held, NEW f \in Factories, NtReleaseWorkerFactoryWorker(f)
    PROVE  Held'
<1> DEFINE fr == [factory[f] EXCEPT !.releases = @ + 1, !.pending = TRUE]
<1>1. /\ handles[f] > 0 /\ factory[f].releases < MaxReleases
      /\ queue' = IF factory[f].pending THEN queue ELSE EnqueueRelease(queue, f)
      /\ Ensure(f, fr)
      /\ refs' = refs /\ handles' = handles /\ packet' = packet
  BY DEF NtReleaseWorkerFactoryWorker, Owns
<1>2. /\ factory[f] \in FactoryType /\ Exists(f) /\ f \in Objects
      /\ refs \in [Objects -> Nat] /\ handles \in [Objects -> 0 .. MaxHandles] /\ queue \in [Ports -> Seq(Messages)]
  BY <1>1, HeldFacts, Kinds
<1>3. refs[f] > 0 /\ factory[f].port \in Ports
  BY <1>2, HeldFacts
<1>4. fr \in FactoryType /\ fr.port = factory[f].port /\ fr.pending = TRUE
  <2>1. PICK n \in 0 .. MaxReleases : n = factory[f].releases + 1
    BY <1>1, <1>2, SizesAssumption, SMT DEF FactoryType
  <2>2. fr = [factory[f] EXCEPT !.releases = n, !.pending = TRUE]
    BY <2>1
  <2> QED
    BY <1>2, <2>2 DEF FactoryType
<1> HIDE DEF fr
<1>5. PICK a : SameDuties(fr, a) /\ factory' = [factory EXCEPT ![f] = a]
  BY <1>1, <1>4, EnsureDuties
<1>6. a \in FactoryType /\ a.port = factory[f].port /\ a.pending = TRUE
  BY <1>4, <1>5 DEF SameDuties
<1>7. Core(refs, handles, queue, packet, factory) /\ Cleared(refs, queue)
  BY DEF Held
<1>8. Refactored(refs, handles, refs, handles, f, factory[f], a)
  <2>1. refs[f] = handles[f]
    BY <1>7 DEF Core, Counts
  <2>2. \A o \in Ports : refs[o] \in Nat
    BY <1>2, Kinds
  <2>3. \A o \in Ports : Recounted(refs[o], refs[o], factory[f].port = o, a.port = o)
    BY <2>2, <1>6 DEF Recounted
  <2> QED
    BY <2>1, <2>3, <1>2, <1>6 DEF Refactored
<1>9. PICK p \in Ports : p = factory[f].port
  BY <1>3
<1>10. PICK q2 : q2 = queue'
  OBVIOUS
<1>11. /\ SameOf(queue, q2, Factories \ {f}) /\ Occurrences(q2[p], Release(f)) > 0
       /\ Cleared(refs, q2)
  <2>1. CASE factory[f].pending
    <3>1. q2 = queue /\ Occurrences(queue[p], Release(f)) > 0
      BY <2>1, <1>1, <1>3, <1>7, <1>9, <1>10 DEF Core, Announced
    <3> QED
      BY <3>1, <1>2, <1>7 DEF SameOf
  <2>2. CASE ~factory[f].pending
    <3>1. PICK x \in Messages : x = Release(f)
      BY DEF Messages
    <3>2. q2 = [queue EXCEPT ![p] = Append(@, x)]
      BY <2>2, <3>1, <1>1, <1>9, <1>10 DEF EnqueueRelease
    <3>3. /\ q2 \in [Ports -> Seq(Messages)]
          /\ \A o \in Ports : \A m :
                Recounted(Occurrences(queue[o], m), Occurrences(q2[o], m), FALSE, o = p /\ m = x)
      BY <3>2, <1>2, Appended
    <3>4. ASSUME NEW o \in Ports, NEW m, m # x
          PROVE  Occurrences(q2[o], m) = Occurrences(queue[o], m)
      <4>1. Recounted(Occurrences(queue[o], m), Occurrences(q2[o], m), FALSE, o = p /\ m = x)
        BY <3>3
      <4> QED
        BY <4>1, <3>4 DEF Recounted
    <3>5. Occurrences(q2[p], x) > 0
      <4>1. Recounted(Occurrences(queue[p], x), Occurrences(q2[p], x), FALSE, p = p /\ x = x)
        BY <3>3
      <4>2. Occurrences(queue[p], x) \in Nat
        BY <1>2, PositionsFinite
      <4> QED
        BY <4>1, <4>2, SMT DEF Recounted
    <3>6. /\ \A k \in Packets : OfPacket(k) # x
          /\ \A g \in Factories \ {f} : Release(g) # x
      BY <3>1, MessageKinds, Kinds
    <3>7. SameOf(queue, q2, Factories \ {f})
      BY <3>3, <3>4, <3>6 DEF SameOf
    <3>8. \A o \in Ports : o # p => q2[o] = queue[o]
      BY <3>2, <1>2
    <3>9. refs[p] # 0
      BY <1>1, <1>2, <1>9, <2>2, SMT DEF NtReleaseWorkerFactoryWorker, Exists
    <3>10. Cleared(refs, q2)
      BY <1>7, <3>8, <3>9 DEF Cleared
    <3> QED
      BY <3>1, <3>5, <3>7, <3>10
  <2> QED
    BY <2>1, <2>2
<1>12. FactoryWell(q2, f, a, refs[f])
  BY <1>3, <1>6, <1>9, <1>11 DEF FactoryWell
<1>13. Core(refs, handles, q2, packet, [factory EXCEPT ![f] = a])
  BY <1>7, <1>8, <1>11, <1>12, ChangeFactory
<1> QED
  BY <1>1, <1>5, <1>10, <1>11, <1>13 DEF Held

----------------------------------------------------------------------------
(* The invariant.                                                          *)

\* In the initial state nothing refers to anything.
LEMMA InitHeld == Init => Held
<1> SUFFICES ASSUME Init PROVE Held
  OBVIOUS
<1>1. Typed(refs, handles, queue, packet, factory)
  BY InitTyped DEF AllTyped
<1>2. /\ \A k \in Packets : packet[k] = IdlePacket /\ refs[k] = 0 /\ handles[k] = 0
      /\ \A f \in Factories : factory[f] = NoFactory /\ refs[f] = 0 /\ handles[f] = 0
      /\ \A p \in Ports : queue[p] = <<>> /\ refs[p] = 0 /\ handles[p] = 0
      /\ \A x \in Targets : refs[x] = 1 /\ handles[x] = 1
  BY Kinds DEF Init
<1>3. /\ IdlePacket.port = NoHandle /\ IdlePacket.target = NoHandle
      /\ IdlePacket.associated = FALSE /\ IdlePacket.queued = FALSE
      /\ NoFactory.port = NoHandle
  BY DEF IdlePacket, NoFactory
<1>4. Shaped(refs, packet, factory)
  BY <1>2, <1>3, SMT DEF Shaped
<1>5. \A m : Occurrences(<<>>, m) = 0
  <2>1. \A m : {i \in 1 .. Len(<<>>) : <<>>[i] = m} = {}
    BY SMT
  <2> QED
    BY <2>1, FS_EmptySet DEF Occurrences
<1>6. Placed(queue, packet)
  BY <1>2, <1>3, <1>5 DEF Placed
<1>7. /\ \A p \in Ports : Cardinality(PacketsOn(packet, p)) = 0 /\ Cardinality(FactoriesOn(factory, p)) = 0
      /\ \A x \in Targets : Cardinality(PacketsFor(packet, x)) = 0
  <2>1. \A p \in Ports : PacketsOn(packet, p) = {}
    BY <1>2, <1>3, Kinds DEF PacketsOn
  <2>2. \A p \in Ports : FactoriesOn(factory, p) = {}
    BY <1>2, <1>3, Kinds DEF FactoriesOn
  <2>3. \A x \in Targets : PacketsFor(packet, x) = {}
    BY <1>2, <1>3, Kinds DEF PacketsFor
  <2> QED
    BY <2>1, <2>2, <2>3, FS_EmptySet
<1>8. Counts(refs, handles, packet, factory)
  <2>1. /\ \A k \in Packets : refs[k] = handles[k] + (IF packet[k].queued THEN 1 ELSE 0)
        /\ \A f \in Factories : refs[f] = handles[f]
    BY <1>2, <1>3, SMT
  <2>2. /\ \A p \in Ports : refs[p] = handles[p] + Cardinality(PacketsOn(packet, p)) + Cardinality(FactoriesOn(factory, p))
        /\ \A x \in Targets : refs[x] = handles[x] + Cardinality(PacketsFor(packet, x))
    BY <1>2, <1>7, SMT
  <2> QED
    BY <2>1, <2>2 DEF Counts
<1>9. Announced(refs, queue, factory)
  BY <1>2, SMT DEF Announced
<1>10. Cleared(refs, queue)
  BY <1>2 DEF Cleared
<1> QED
  BY <1>1, <1>4, <1>6, <1>8, <1>9, <1>10 DEF Held, Core

\* Every step keeps Core and the empty queues of erased ports.
LEMMA NextHeld ==
    ASSUME Held, OthersTyped, "cancel_keep" \notin Ops, [Next]_vars
    PROVE  Held'
<1>u. ASSUME UNCHANGED <<refs, handles, queue, packet, factory>>
      PROVE  Held'
  BY <1>u DEF Held
<1>e. \A o \in Ports \cup Factories : handles[o] > 0 => Exists(o)
  BY HeldFacts, Kinds
<1>1. CASE Loop
  <2>1. CASE TakeMessage
    BY <2>1, TakeMessageHeld
  <2>2. CASE ReadErasedQueue \/ EndDrain
    BY <2>2, <1>u DEF ReadErasedQueue, EndDrain
  <2> QED
    BY <1>1, <2>1, <2>2 DEF Loop
<1>2. ASSUME NEW t \in Threads, IsThreadReady(t)
      PROVE  Held'
  <2>1. CASE Exists(wait[t].port)
    <3>1. wait[t].port \in Ports \cup {NoHandle}
      BY DEF OthersTyped, WaitTyped
    <3>2. PICK w : w = wait[t]
      OBVIOUS
    <3>3. w.port \in Ports /\ Exists(w.port)
      BY <2>1, <3>1, <3>2, ExistingPort
    <3>4. StartDrain(t, w, TRUE) /\ handles' = handles /\ factory' = factory
      BY <1>2, <2>1, <3>2 DEF IsThreadReady
    <3> QED
      BY <3>3, <3>4, StartDrainHeld
  <2>2. CASE ~Exists(wait[t].port)
    BY <1>2, <2>2, <1>u DEF IsThreadReady
  <2> QED
    BY <2>1, <2>2
<1>3. CASE ObjectCalls
  <2>1. ASSUME NEW x \in Targets, SignalTarget(x) \/ TakeSignal(x)
        PROVE  Held'
    BY <2>1, <1>u DEF SignalTarget, TakeSignal
  <2>2. ASSUME NEW t \in Threads, CreateThread(t) \/ ExitThread(t)
        PROVE  Held'
    BY <2>2, <1>u DEF CreateThread, ExitThread
  <2> QED
    BY <1>3, <2>1, <2>2, CreateHeld, DuplicateHeld, NtCloseHeld DEF ObjectCalls
<1>4. CASE PortCalls
  <2>1. ASSUME NEW k \in Packets, NEW remove \in BOOLEAN, NtCancelWaitCompletionPacket(k, remove)
        PROVE  Held'
    <3>1. remove = TRUE
      BY <2>1 DEF NtCancelWaitCompletionPacket, Call
    <3> QED
      BY <2>1, <3>1, CancelHeld
  <2>2. ASSUME NEW t \in Threads, NEW p \in Ports, NEW w \in Waits, NtRemoveIoCompletion(t, p, w)
        PROVE  Held'
    <3>1. PICK w2 : w2 = [port |-> p, max |-> w.max, timeout |-> w.timeout, alertable |-> w.alertable]
      OBVIOUS
    <3>2. StartDrain(t, w2, FALSE) /\ handles' = handles /\ factory' = factory /\ handles[p] > 0
      BY <2>2, <3>1 DEF NtRemoveIoCompletion, Owns
    <3>3. w2.port = p
      BY <3>1
    <3>4. w2.port \in Ports /\ Exists(w2.port)
      BY <1>e, <3>2, <3>3
    <3> QED
      BY <3>2, <3>4, StartDrainHeld
  <2> QED
    BY <1>4, <2>1, <2>2, NtSetIoCompletionHeld, ObservePortHeld, NtSetIoCompletionExHeld, NtAssociateHeld
       DEF PortCalls
<1>5. CASE FactoryCalls
  <2>1. ASSUME NEW t \in Threads, NEW f \in Factories, NEW max \in {1, 2}, NtWaitForWorkViaWorkerFactory(t, f, max)
        PROVE  Held'
    <3>1. PICK w : w = [port |-> factory[f].port, max |-> max, alertable |-> FALSE,
                        timeout |-> IF factory[f].timeout THEN "later" ELSE "none"]
      OBVIOUS
    <3>2. /\ StartDrain(t, w, FALSE) /\ handles' = handles /\ factory' = factory
          /\ handles[f] > 0 /\ Exists(factory[f].port)
      BY <2>1, <3>1 DEF NtWaitForWorkViaWorkerFactory, Owns
    <3>3. w.port = factory[f].port
      BY <3>1
    <3>4. w.port \in Ports /\ Exists(w.port)
      BY <1>e, <3>2, <3>3, HeldFacts
    <3> QED
      BY <3>2, <3>4, StartDrainHeld
  <2> QED
    BY <1>5, <2>1, NtCreateWorkerFactoryHeld, NtWorkerFactoryWorkerReadyHeld, NtSetInformationWorkerFactoryHeld,
       SetFactoryTimeoutHeld, NtShutdownWorkerFactoryHeld, NtReleaseWorkerFactoryWorkerHeld DEF FactoryCalls
<1>6. CASE UNCHANGED vars
  BY <1>6, <1>u DEF vars
<1> QED
  BY <1>1, <1>2, <1>3, <1>4, <1>5, <1>6 DEF Next

\* IoInv holds as long as no packet is cancelled without the removal of its
\* message (NtCancelWaitCompletionPacket with RemoveSignaledPacket = FALSE).
THEOREM InvariantHolds ==
    ASSUME "cancel_keep" \notin Ops
    PROVE  Spec => []IoInv
<1>1. Init => Held /\ OthersTyped
  BY InitHeld, InitTyped DEF AllTyped
<1>2. Held /\ OthersTyped /\ [Next]_vars => Held' /\ OthersTyped'
  <2> SUFFICES ASSUME Held, OthersTyped, [Next]_vars PROVE Held' /\ OthersTyped'
    OBVIOUS
  <2>1. AllTyped
    BY DEF AllTyped, Held, Core
  <2> QED
    BY <2>1, NextHeld, NextTyped DEF AllTyped
<1>3. Held /\ OthersTyped => IoInv
  BY InvParts
<1> QED
  BY <1>1, <1>2, <1>3, PTL DEF Spec

\* Every reference is counted: what retain_handle_reference adds is what
\* release_handle_reference and erase give up, once.
THEOREM ReferencesBalanced ==
    ASSUME "cancel_keep" \notin Ops
    PROVE  Spec => []RefsBalanced
<1>1. IoInv => RefsBalanced
  BY DEF IoInv
<1> QED
  BY <1>1, InvariantHolds, PTL

\* A packet whose queued_completion is set has exactly one message, in the
\* queue of its port; any other packet has none.
THEOREM CompletionsQueuedOnce ==
    ASSUME "cancel_keep" \notin Ops
    PROVE  Spec => []QueuedOnce
<1>1. IoInv => QueuedOnce
  BY DEF IoInv
<1> QED
  BY <1>1, InvariantHolds, PTL

\* NtReleaseWorkerFactoryWorker is not lost: a release message is under way
\* while pending_release_count is positive, until the factory is shut down.
THEOREM ReleasesUnderWay ==
    ASSUME "cancel_keep" \notin Ops
    PROVE  Spec => []ReleaseUnderWay
<1>1. IoInv => ReleaseUnderWay
  BY DEF IoInv
<1> QED
  BY <1>1, InvariantHolds, PTL

=============================================================================
