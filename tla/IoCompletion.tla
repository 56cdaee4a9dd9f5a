---------------------------- MODULE IoCompletion ----------------------------
(***************************************************************************)
(* I/O completion ports, wait completion packets and worker factories of   *)
(* the Windows emulator.  A port is a queue of messages threads take from. *)
(* A packet ties a dispatcher object (its target) to a port: when the      *)
(* target is signaled, the next look at the port turns the signal into a   *)
(* message.  A worker factory creates threads that take from its port and  *)
(* posts release messages to it.                                           *)
(*                                                                         *)
(* Every action runs under the kernel lock.  The loop that takes several   *)
(* messages is a sequence of actions during which nothing else happens     *)
(* (drain).                                                                *)
(***************************************************************************)
EXTENDS IoObjects

VARIABLES
    refs,      \* ref_count of every object, 0 when its store has none
    handles,   \* how many handles to it the guest has
    signal,    \* the targets: signaled or not, or the count of a semaphore
    queue,     \* io_completion::queue
    packet,    \* wait_completion_packet
    factory,   \* worker_factory
    thread,    \* each thread: absent, live or dead
    wait,      \* emulator_thread::await_io_completion
    drain,     \* the call of dequeue_io_completion_* in progress
    dangling   \* the loop read the queue of a port that was erased

vars == <<refs, handles, signal, queue, packet, factory, thread, wait, drain,
          dangling>>

----------------------------------------------------------------------------
(* Handle stores and references.                                           *)

Exists(h) == h \in Objects /\ refs[h] > 0

\* find_free_index: the first slot of a store without an object
FreeSlot(S) == CHOOSE h \in S : refs[h] = 0 /\ \A g \in S : refs[g] = 0 => h[2] <= g[2]

\* pending_io_completion_wait, and how its thread waits (apc_alertable)
NoWait == [port |-> NoHandle, max |-> 0, timeout |-> "none", alertable |-> FALSE]

\* The loop: who takes, how much is left to take and was taken, and whether
\* the thread is making the call or is polled while it waits.
NoDrain == [thread |-> 0, wait |-> NoWait, left |-> 0, removed |-> 0, polled |-> FALSE]

----------------------------------------------------------------------------
(* Wait completion packets.                                                *)

\* is_wait_completion_target_signaled
TargetSignaled(x) == Exists(x) /\ signal[x] > 0

\* The packets materialize_signaled_wait_packets looks at for port p ...
Armed(pk, p) ==
    {k \in Packets : Exists(k) /\ pk[k].associated /\ ~pk[k].queued /\ pk[k].port = p}

\* Mutant: a packet does not see that an earlier one took the signal.
DueUnconsumed(pk, p) == {k \in Armed(pk, p) : TargetSignaled(pk[k].target)}

\* ... and those it queues: packets are visited in the order of their index,
\* and each one consumes a signal of its target the next one does not see.
Due(pk, p) ==
    {k \in Armed(pk, p) :
        /\ TargetSignaled(pk[k].target)
        /\ pk[k].target \in Consumed =>
              Cardinality({j \in Armed(pk, p) : j[2] < k[2] /\ pk[j].target = pk[k].target})
                 < signal[pk[k].target]}

\* Mutant: the signal of the target stays.
ConsumeNothing(pk, S) == signal

\* consume_wait_completion_target for every packet of S
Consume(pk, S) ==
    [x \in Targets |->
        IF x \in Consumed
        THEN signal[x] - Cardinality({k \in S : pk[k].target = x})
        ELSE signal[x]]

\* materialize_signaled_wait_packets for port p in a process whose packets,
\* references and queues are pk, r and q.
Materialize(pk, r, q, p) ==
    LET due == Due(pk, p)
    IN  [packet |-> [k \in Packets |-> IF k \in due THEN [pk[k] EXCEPT !.queued = TRUE] ELSE pk[k]],
         refs   |-> Retain(r, due),
         queue  |-> [q EXCEPT ![p] = @ \o [i \in 1 .. Cardinality(due) |-> OfPacket(InOrder(due)[i])]],
         signal |-> Consume(pk, due)]

----------------------------------------------------------------------------
(* Worker factories.                                                       *)

\* prune_worker_factory_threads
Pruned(fr) == {t \in fr.workers : thread[t] = "live"}

\* Mutant: WorkerFactoryThreadSoftMaximum alone limits the threads.
SoftLimited(fr, n) == Min({n} \cup ({fr.soft} \ {0}))

\* get_worker_factory_thread_limit, applied to a number of threads; a limit
\* of 0 is no limit.
Limited(fr, n) == Min({n} \cup ({fr.maxCount, fr.maximum, fr.soft} \ {0}))

\* The number of threads ensure_worker_factory_threads brings a factory to.
Desired(fr) ==
    Limited(fr, Max({fr.minimum, fr.binding} \cup
                    (IF fr.pending \/ fr.releases # 0 THEN {1} ELSE {})))

\* The slots create_thread uses for n more threads.
NewThreads(n) ==
    LET free == {t \in Threads : thread[t] = "absent"}
    IN  {t \in free : Cardinality({u \in free : u < t}) < n}

\* ensure_worker_factory_threads for factory f, which the caller changed to fr
Ensure(f, fr) ==
    IF fr.shutdown \/ fr.paused
    THEN /\ factory' = [factory EXCEPT ![f] = fr]
         /\ UNCHANGED thread
    ELSE LET missing == Desired(fr) - Cardinality(Pruned(fr))
             new     == NewThreads(missing)
         IN  /\ missing <= Cardinality({t \in Threads : thread[t] = "absent"})
             /\ factory' = [factory EXCEPT ![f] = [fr EXCEPT !.workers = Pruned(fr) \cup new]]
             /\ thread' = [t \in Threads |-> IF t \in new THEN "live" ELSE thread[t]]

\* enqueue_release_completion in queues q
EnqueueRelease(q, f) == [q EXCEPT ![factory[f].port] = Append(@, Release(f))]

----------------------------------------------------------------------------
(* System calls.                                                           *)

\* The kernel lock is free and the guest runs.
Idle == drain = NoDrain /\ ~dangling

\* Some thread makes a call of this kind.
Call(op) ==
    /\ op \in Ops
    /\ Idle
    /\ \E t \in Threads : thread[t] = "live" /\ wait[t] = NoWait

Running(t) == thread[t] = "live" /\ wait[t] = NoWait

\* The guest only uses handles it has.
Owns(h) == handles[h] > 0

Room(p) == Len(queue[p]) < MaxQueue

\* NtCreateIoCompletion, NtCreateWaitCompletionPacket, NtCreateEvent ...: a
\* new object with one handle.
Create(h) ==
    /\ Call("create")
    /\ refs[h] = 0
    /\ h \in Ports => h = FreeSlot(Ports)
    /\ h \in Packets => h = FreeSlot(Packets)
    /\ refs' = [refs EXCEPT ![h] = 1]
    /\ handles' = [handles EXCEPT ![h] = 1]
    /\ signal' = [x \in Targets |-> IF x = h THEN 0 ELSE signal[x]]
    /\ UNCHANGED <<queue, packet, factory, thread, wait, drain, dangling>>

\* NtDuplicateObject, and the creation of a named object that exists: the
\* same handle again.
Duplicate(h) ==
    /\ Call("duplicate")
    /\ Exists(h) /\ Owns(h) /\ handles[h] < MaxHandles
    /\ refs' = Retain(refs, {h})
    /\ handles' = [handles EXCEPT ![h] = @ + 1]
    /\ UNCHANGED <<signal, queue, packet, factory, thread, wait, drain, dangling>>

\* Mutant: a packet is closed without cleanup_wait_packet_on_close.
CloseWithoutCleanup(h) ==
    /\ Call("close")
    /\ Owns(h)
    /\ refs' = Erase(refs, {h})
    /\ handles' = [handles EXCEPT ![h] = @ - 1]
    /\ queue' = Queues(queue, refs')
    /\ UNCHANGED <<signal, packet, factory, thread, wait, drain, dangling>>

\* NtClose.  The last reference to a packet or to a factory lets go of what
\* it retains (cleanup_wait_packet_on_close).
NtClose(h) ==
    LET last    == refs[h] = 1
        k       == IF h \in Packets /\ last THEN packet[h] ELSE IdlePacket
        port    == IF h \in Factories /\ last THEN factory[h].port ELSE k.port
        message == k.queued /\ Exists(k.port) /\ HasMessage(queue[k.port], h)
        r       == Erase(Erase(IF message THEN Erase(refs, {h}) ELSE refs, {port, k.target}), {h})
    IN  /\ Call("close")
        /\ Owns(h)
        /\ refs' = r
        /\ handles' = [handles EXCEPT ![h] = @ - 1]
        /\ queue' = Queues([p \in Ports |-> IF message /\ p = k.port THEN RemoveByPacket(queue[p], h) ELSE queue[p]], r)
        /\ packet' = [j \in Packets |-> IF j = h /\ last THEN IdlePacket ELSE packet[j]]
        /\ factory' = [f \in Factories |-> IF f = h /\ last THEN NoFactory ELSE factory[f]]
        /\ UNCHANGED <<signal, thread, wait, drain, dangling>>

\* NtSetIoCompletion
NtSetIoCompletion(p) ==
    /\ Call("post")
    /\ Owns(p) /\ Room(p)
    /\ queue' = [queue EXCEPT ![p] = Append(@, Post)]
    /\ UNCHANGED <<refs, handles, signal, packet, factory, thread, wait, drain, dangling>>

\* NtSetIoCompletionEx with a packet, which has to be idle
NtSetIoCompletionEx(p, k) ==
    /\ Call("post_packet")
    /\ Owns(p) /\ Owns(k) /\ Room(p)
    /\ ~packet[k].associated /\ ~packet[k].queued
    /\ refs' = Retain(refs, {p, k})
    /\ packet' = [packet EXCEPT ![k] = [IdlePacket EXCEPT !.port = p, !.queued = TRUE]]
    /\ queue' = [queue EXCEPT ![p] = Append(@, OfPacket(k))]
    /\ UNCHANGED <<handles, signal, factory, thread, wait, drain, dangling>>

\* NtAssociateWaitCompletionPacket
NtAssociateWaitCompletionPacket(k, p, x) ==
    LET pk == [packet EXCEPT ![k] = [IdlePacket EXCEPT !.port = p, !.target = x, !.associated = TRUE]]
        m  == Materialize(pk, Retain(refs, {p, x}), queue, p)
    IN  /\ Call("associate")
        /\ Owns(k) /\ Owns(p) /\ Owns(x) /\ Room(p)
        /\ ~packet[k].associated /\ ~packet[k].queued
        /\ packet' = m.packet
        /\ refs' = m.refs
        /\ queue' = m.queue
        /\ signal' = m.signal
        /\ UNCHANGED <<handles, factory, thread, wait, drain, dangling>>

\* Mutant: the message of a cancelled packet stays in the queue.
CancelKeepingMessage(k, remove) ==
    LET r == Erase(refs, {packet[k].port, packet[k].target})
    IN  /\ Call("cancel")
        /\ Owns(k)
        /\ refs' = r
        /\ queue' = Queues(queue, r)
        /\ packet' = [packet EXCEPT ![k] = IdlePacket]
        /\ UNCHANGED <<handles, signal, factory, thread, wait, drain, dangling>>

\* NtCancelWaitCompletionPacket
NtCancelWaitCompletionPacket(k, remove) ==
    LET port    == packet[k].port
        message == remove /\ packet[k].queued /\ Exists(port) /\ HasMessage(queue[port], k)
        r       == Erase(IF message THEN Erase(refs, {k}) ELSE refs, {port, packet[k].target})
    IN  /\ Call(IF remove THEN "cancel" ELSE "cancel_keep")
        /\ Owns(k)
        /\ refs' = r
        /\ queue' = Queues([p \in Ports |-> IF message /\ p = port THEN RemoveByPacket(queue[p], k) ELSE queue[p]], r)
        /\ packet' = [packet EXCEPT ![k] = IdlePacket]
        /\ UNCHANGED <<handles, signal, factory, thread, wait, drain, dangling>>

----------------------------------------------------------------------------
(* Taking messages.                                                        *)

\* Mutant: the signaled targets are not looked at.
StartDrainUnmaterialized(t, w, polled) ==
    /\ drain' = [thread |-> t, wait |-> w, left |-> w.max, removed |-> 0, polled |-> polled]
    /\ UNCHANGED <<packet, refs, queue, signal>>

\* dequeue_io_completion_message (max = 1) and dequeue_io_completion_entries
\* start with the packets whose targets are signaled.
StartDrain(t, w, polled) ==
    LET m == Materialize(packet, refs, queue, w.port)
    IN  /\ packet' = m.packet
        /\ refs' = m.refs
        /\ queue' = m.queue
        /\ signal' = m.signal
        /\ drain' = [thread |-> t, wait |-> w, left |-> w.max, removed |-> 0, polled |-> polled]

\* NtRemoveIoCompletion and NtRemoveIoCompletionEx
NtRemoveIoCompletion(t, p, w) ==
    /\ Call("remove")
    /\ Running(t)
    /\ Owns(p)
    /\ StartDrain(t, [port |-> p, max |-> w.max, timeout |-> w.timeout, alertable |-> w.alertable], FALSE)
    /\ UNCHANGED <<handles, factory, thread, wait, dangling>>

\* NtWaitForWorkViaWorkerFactory
NtWaitForWorkViaWorkerFactory(t, f, max) ==
    /\ Call("work")
    /\ Running(t)
    /\ Owns(f) /\ Exists(factory[f].port)
    /\ StartDrain(t, [port |-> factory[f].port, max |-> max, alertable |-> FALSE,
                      timeout |-> IF factory[f].timeout THEN "later" ELSE "none"], FALSE)
    /\ UNCHANGED <<handles, factory, thread, wait, dangling>>

\* is_thread_ready for a thread that waits for a message
IsThreadReady(t) ==
    /\ Idle
    /\ thread[t] = "live" /\ wait[t] # NoWait
    /\ IF Exists(wait[t].port)
       THEN /\ StartDrain(t, wait[t], TRUE)
            /\ UNCHANGED <<handles, factory, thread, wait, dangling>>
       ELSE /\ wait' = [wait EXCEPT ![t] = NoWait]
            /\ UNCHANGED <<refs, handles, signal, queue, packet, factory, thread, drain, dangling>>

\* Mutant: the next release is not posted.
DequeuedOnce(q, f) ==
    /\ queue' = Queues(q, refs')
    /\ factory' = [g \in Factories |->
                      IF g = f THEN [factory[g] EXCEPT !.releases = Max({@ - 1, 0}), !.pending = FALSE] ELSE factory[g]]

\* on_io_completion_message_dequeued: a release counts down and is repeated
\* while there are more.  q are the queues without the message.
Dequeued(q, f) ==
    LET left == Max({factory[f].releases - 1, 0})
        more == left > 0 /\ ~factory[f].shutdown /\ Exists(factory[f].port)
    IN  IF Exists(f)
        THEN /\ factory' = [factory EXCEPT ![f].releases = left,
                                           ![f].pending = IF more THEN @ ELSE FALSE]
             /\ queue' = Queues(IF more THEN EnqueueRelease(q, f) ELSE q, refs')
        ELSE /\ queue' = Queues(q, refs')
             /\ UNCHANGED factory

\* One turn of the loop: the first message leaves the queue, and a packet's
\* message takes the packet's references with it
\* (clear_wait_packet_completion_state).
TakeMessage ==
    LET p == drain.wait.port
        m == Head(queue[p])
        k == m.packet
    IN  /\ drain # NoDrain /\ ~dangling
        /\ drain.left > 0 /\ Exists(p) /\ queue[p] # <<>>
        /\ refs' = IF Exists(k) THEN Erase(refs, {k, packet[k].port, packet[k].target}) ELSE refs
        /\ packet' = [j \in Packets |-> IF j = k THEN IdlePacket ELSE packet[j]]
        /\ Dequeued([queue EXCEPT ![p] = Tail(@)], m.release)
        /\ drain' = [drain EXCEPT !.left = @ - 1, !.removed = @ + 1]
        /\ UNCHANGED <<handles, signal, thread, wait, dangling>>

\* The loop goes on with a port whose last reference went with a packet: it
\* reads the queue of an object that was destroyed.
ReadErasedQueue ==
    /\ drain # NoDrain /\ ~dangling
    /\ drain.left > 0 /\ ~Exists(drain.wait.port)
    /\ dangling' = TRUE
    /\ UNCHANGED <<refs, handles, signal, queue, packet, factory, thread, wait, drain>>

\* The loop ends: the thread has messages, or its time-out is over, or it
\* waits (on).  A poll that finds nothing delivers an APC to an alertable
\* thread instead (switch_to_thread).  (What is read of a destroyed queue may
\* look empty.)
EndDrain ==
    LET t == drain.thread
        p == drain.wait.port
    IN  /\ drain # NoDrain /\ ~dangling
        /\ drain.left = 0 \/ ~Exists(p) \/ queue[p] = <<>>
        /\ \/ drain.removed = 0 /\ drain.wait.timeout # "zero" /\ wait' = [wait EXCEPT ![t] = drain.wait]
           \/ /\ \/ drain.removed > 0
                 \/ drain.wait.timeout # "none"
                 \/ drain.polled /\ drain.wait.alertable
              /\ wait' = [wait EXCEPT ![t] = NoWait]
        /\ drain' = NoDrain
        /\ UNCHANGED <<refs, handles, signal, queue, packet, factory, thread, dangling>>

\* A wait for the port itself (NtWaitForSingleObject) looks at its queue
\* after materializing.
ObservePort(p) ==
    LET m == Materialize(packet, refs, queue, p)
    IN  /\ Call("observe")
        /\ Owns(p)
        /\ packet' = m.packet
        /\ refs' = m.refs
        /\ queue' = m.queue
        /\ signal' = m.signal
        /\ UNCHANGED <<handles, factory, thread, wait, drain, dangling>>

----------------------------------------------------------------------------
(* Calls on worker factories, targets and threads.                         *)

\* Mutant: the factory does not retain its port.
CreateUnretained(f, p, max) ==
    /\ Call("factory")
    /\ Owns(p)
    /\ refs[f] = 0 /\ f = FreeSlot(Factories)
    /\ refs' = [refs EXCEPT ![f] = 1]
    /\ handles' = [handles EXCEPT ![f] = 1]
    /\ Ensure(f, [NoFactory EXCEPT !.port = p, !.maxCount = max, !.maximum = max])
    /\ UNCHANGED <<signal, queue, packet, wait, drain, dangling>>

\* NtCreateWorkerFactory
NtCreateWorkerFactory(f, p, max) ==
    /\ Call("factory")
    /\ Owns(p)
    /\ refs[f] = 0 /\ f = FreeSlot(Factories)
    /\ refs' = [Retain(refs, {p}) EXCEPT ![f] = 1]
    /\ handles' = [handles EXCEPT ![f] = 1]
    /\ Ensure(f, [NoFactory EXCEPT !.port = p, !.maxCount = max, !.maximum = max])
    /\ UNCHANGED <<signal, queue, packet, wait, drain, dangling>>

\* NtWorkerFactoryWorkerReady
NtWorkerFactoryWorkerReady(f) ==
    /\ Call("ready")
    /\ Owns(f)
    /\ Ensure(f, factory[f])
    /\ UNCHANGED <<refs, handles, signal, queue, packet, wait, drain, dangling>>

\* NtSetInformationWorkerFactory with one of the values that matter: the
\* binding count changes by one, the others are set.
Configured(fr, class, n) ==
    CASE class = "binding_up"   -> [fr EXCEPT !.binding = Min({@ + 1, MaxWorkers})]
      [] class = "binding_down" -> [fr EXCEPT !.binding = Max({@ - 1, 0})]
      [] class = "minimum"      -> [fr EXCEPT !.minimum = n]
      [] class = "maximum"      -> [fr EXCEPT !.maximum = n]
      [] class = "soft"         -> [fr EXCEPT !.soft = n]
      [] class = "paused"       -> [fr EXCEPT !.paused = n # 0]

InfoClasses == {"binding_up", "binding_down", "minimum", "maximum", "soft", "paused"}

NtSetInformationWorkerFactory(f, class, n) ==
    /\ Call(class)
    /\ Owns(f)
    /\ Ensure(f, Configured(factory[f], class, n))
    /\ UNCHANGED <<refs, handles, signal, queue, packet, wait, drain, dangling>>

\* ... and WorkerFactoryTimeout, which returns without looking at the threads.
SetFactoryTimeout(f, timed) ==
    /\ Call("timeout")
    /\ Owns(f)
    /\ factory' = [factory EXCEPT ![f].timeout = timed]
    /\ UNCHANGED <<refs, handles, signal, queue, packet, thread, wait, drain, dangling>>

\* NtShutdownWorkerFactory
NtShutdownWorkerFactory(f) ==
    /\ Call("shutdown")
    /\ Owns(f)
    /\ factory' = [factory EXCEPT ![f].shutdown = TRUE, ![f].workers = {}]
    /\ UNCHANGED <<refs, handles, signal, queue, packet, thread, wait, drain, dangling>>

\* NtReleaseWorkerFactoryWorker
NtReleaseWorkerFactoryWorker(f) ==
    LET released == [factory[f] EXCEPT !.releases = @ + 1, !.pending = TRUE]
    IN  /\ Call("release")
        /\ Owns(f)
        /\ factory[f].releases < MaxReleases
        /\ factory[f].pending \/ (Exists(factory[f].port) /\ Room(factory[f].port))
        /\ queue' = IF factory[f].pending THEN queue ELSE EnqueueRelease(queue, f)
        /\ Ensure(f, released)
        /\ UNCHANGED <<refs, handles, signal, packet, wait, drain, dangling>>

\* NtSetEvent, NtReleaseSemaphore and whatever signals a target
SignalTarget(x) ==
    /\ Call("signal")
    /\ Exists(x)
    /\ signal[x] < IF x \in Semaphores THEN MaxSignal ELSE 1
    /\ signal' = [signal EXCEPT ![x] = @ + 1]
    /\ UNCHANGED <<refs, handles, queue, packet, factory, thread, wait, drain, dangling>>

\* A thread's own wait takes the signal, or NtResetEvent does.
TakeSignal(x) ==
    /\ Call("take")
    /\ TargetSignaled(x)
    /\ signal' = [signal EXCEPT ![x] = @ - 1]
    /\ UNCHANGED <<refs, handles, queue, packet, factory, thread, wait, drain, dangling>>

\* NtCreateThreadEx
CreateThread(t) ==
    /\ Call("thread")
    /\ t \in NewThreads(1)
    /\ thread' = [thread EXCEPT ![t] = "live"]
    /\ UNCHANGED <<refs, handles, signal, queue, packet, factory, wait, drain, dangling>>

\* A thread ends or is terminated; its object stays in the store.  (Bound:
\* one thread is left to make calls.)
ExitThread(t) ==
    /\ Call("exit")
    /\ thread[t] = "live"
    /\ \E u \in Threads \ {t} : Running(u)
    /\ thread' = [thread EXCEPT ![t] = "dead"]
    /\ wait' = [wait EXCEPT ![t] = NoWait]
    /\ UNCHANGED <<refs, handles, signal, queue, packet, factory, drain, dangling>>

----------------------------------------------------------------------------

\* The first thread runs; the targets exist and the guest has a handle to each.
Init ==
    /\ refs = [o \in Objects |-> IF o \in Targets THEN 1 ELSE 0]
    /\ handles = refs
    /\ signal = [x \in Targets |-> 0]
    /\ queue = [p \in Ports |-> <<>>]
    /\ packet = [k \in Packets |-> IdlePacket]
    /\ factory = [f \in Factories |-> NoFactory]
    /\ thread = [t \in Threads |-> IF t = 1 THEN "live" ELSE "absent"]
    /\ wait = [t \in Threads |-> NoWait]
    /\ drain = NoDrain
    /\ dangling = FALSE

Loop == TakeMessage \/ ReadErasedQueue \/ EndDrain

ObjectCalls ==
    \/ \E h \in Ports \cup Packets \cup Targets : Create(h)
    \/ \E h \in Objects : Duplicate(h)
    \/ \E h \in Objects : NtClose(h)
    \/ \E x \in Targets : SignalTarget(x)
    \/ \E x \in Targets : TakeSignal(x)
    \/ \E t \in Threads : CreateThread(t)
    \/ \E t \in Threads : ExitThread(t)

PortCalls ==
    \/ \E p \in Ports : NtSetIoCompletion(p)
    \/ \E p \in Ports : ObservePort(p)
    \/ \E p \in Ports, k \in Packets : NtSetIoCompletionEx(p, k)
    \/ \E k \in Packets, p \in Ports, x \in Targets : NtAssociateWaitCompletionPacket(k, p, x)
    \/ \E k \in Packets, remove \in BOOLEAN : NtCancelWaitCompletionPacket(k, remove)
    \/ \E t \in Threads, p \in Ports, w \in Waits : NtRemoveIoCompletion(t, p, w)

FactoryCalls ==
    \/ \E f \in Factories, p \in Ports, max \in Numbers : NtCreateWorkerFactory(f, p, max)
    \/ \E f \in Factories : NtWorkerFactoryWorkerReady(f)
    \/ \E f \in Factories, class \in InfoClasses, n \in Numbers : NtSetInformationWorkerFactory(f, class, n)
    \/ \E f \in Factories, timed \in BOOLEAN : SetFactoryTimeout(f, timed)
    \/ \E f \in Factories : NtShutdownWorkerFactory(f)
    \/ \E f \in Factories : NtReleaseWorkerFactoryWorker(f)
    \/ \E t \in Threads, f \in Factories, max \in {1, 2} : NtWaitForWorkViaWorkerFactory(t, f, max)

Next ==
    \/ Loop
    \/ \E t \in Threads : IsThreadReady(t)
    \/ ObjectCalls
    \/ PortCalls
    \/ FactoryCalls

Spec == Init /\ [][Next]_vars

\* The scheduler polls every waiting thread again and again
\* (switch_to_next_thread), and a loop under the kernel lock ends.
FairSpec == Spec /\ WF_vars(Loop) /\ \A t \in Threads : SF_vars(IsThreadReady(t))

----------------------------------------------------------------------------
(* Properties.                                                             *)

\* Type invariant: what the objects, queues and waits hold; in particular
\* consume_wait_completion_target never takes a signal that is not there.
TypeOK ==
    /\ refs \in [Objects -> Nat]
    /\ handles \in [Objects -> 0 .. MaxHandles]
    /\ signal \in [Targets -> 0 .. MaxSignal] /\ \A x \in Targets \ Semaphores : signal[x] <= 1
    /\ queue \in [Ports -> Seq(Messages)]
    /\ packet \in [Packets -> PacketType]
    /\ factory \in [Factories -> FactoryType]
    /\ thread \in [Threads -> {"absent", "live", "dead"}]
    /\ wait \in [Threads -> [port : Ports \cup {NoHandle}, max : Nat,
                            timeout : {"none", "later"}, alertable : BOOLEAN]]
    /\ drain \in [thread : Threads \cup {0}, left : Nat, removed : Nat, polled : BOOLEAN,
                  wait : [port : Ports \cup {NoHandle}, max : Nat,
                          timeout : {"none", "zero", "later"}, alertable : BOOLEAN]]
    /\ drain # NoDrain => drain.thread \in Threads
    /\ dangling \in BOOLEAN

\* How often the emulator itself refers to an object: for a packet's
\* association, for a queued completion, for a factory.
Retained(o) ==
    Cardinality({k \in Packets : Exists(k) /\ packet[k].port = o})
      + Cardinality({k \in Packets : Exists(k) /\ packet[k].target = o})
      + Cardinality({f \in Factories : Exists(f) /\ factory[f].port = o})
      + Cardinality({m \in UNION {{p} \X (1 .. Len(queue[p])) : p \in Ports} :
                        queue[m[1]][m[2]].packet = o})

\* Every reference is counted (retain_handle_reference against
\* release_handle_reference and erase): an object is destroyed when, and only
\* when, the guest has closed its handles and the emulator has let go of it.
RefsBalanced == \A o \in Objects : refs[o] = handles[o] + Retained(o)

\* A packet whose queued_completion is set has exactly one message, and only
\* in the queue of its port; one whose flag is clear has none, however it was
\* completed, cancelled or closed.
QueuedOnce ==
    \A k \in Packets, p \in Ports :
        Occurrences(queue[p], OfPacket(k)) = IF packet[k].queued /\ packet[k].port = p THEN 1 ELSE 0

\* NtReleaseWorkerFactoryWorker is not lost: while pending_release_count is
\* positive, a release message of the factory is under way, until the factory
\* is shut down.
ReleaseUnderWay ==
    \A f \in Factories : Exists(f) =>
        /\ factory[f].pending => Occurrences(queue[factory[f].port], Release(f)) > 0
        /\ factory[f].releases > 0 /\ ~factory[f].shutdown => factory[f].pending

\* What an erased object leaves behind, and what a packet or a factory that is
\* in its store refers to.
ErasedIsEmpty ==
    /\ \A p \in Ports : ~Exists(p) => queue[p] = <<>>
    /\ \A k \in Packets :
          /\ ~Exists(k) => packet[k] = IdlePacket
          /\ packet[k].port # NoHandle <=> packet[k].associated \/ packet[k].queued
          /\ packet[k].target # NoHandle <=> packet[k].associated
    /\ \A f \in Factories :
          IF Exists(f) THEN factory[f].port \in Ports ELSE factory[f] = NoFactory

\* The inductive invariant: the counts, the messages and the objects agree.
\* None of its parts is inductive without the others: a packet's message is
\* safe in its queue because the packet keeps the port (RefsBalanced), and the
\* references are given up once because the message is there once.
IoInv == TypeOK /\ ErasedIsEmpty /\ QueuedOnce /\ RefsBalanced /\ ReleaseUnderWay

\* Queuing a packet's completion is a wait for its target: it uses up one
\* signal ("it must consume the target's signal exactly like
\* NtWaitForSingleObject would", io_completion_wait.cpp).
CompletionTakesSignal ==
    [][\A x \in Consumed :
          LET completed == {k \in Packets : packet'[k].queued /\ ~packet[k].queued /\ packet'[k].target = x}
          IN  completed # {} => signal'[x] = signal[x] - Cardinality(completed)]_vars

\* ensure_worker_factory_threads never creates more threads than any of the
\* factory's limits allows.
WorkersWithinLimits ==
    [][\A f \in Factories :
          ~(factory'[f].workers \subseteq factory[f].workers) =>
              \A n \in {factory'[f].maxCount, factory'[f].maximum, factory'[f].soft} \ {0} :
                  Cardinality(factory'[f].workers) <= n]_vars

\* A thread in NtRemoveIoCompletion gets a message that is there, or one a
\* signaled target stands for, unless somebody else takes it: is_thread_ready
\* materializes the packets nobody was told about.
WaiterServed ==
    \A t \in Threads, p \in Ports :
        (thread[t] = "live" /\ wait[t].port = p /\ Exists(p) /\ (queue[p] # <<>> \/ Due(packet, p) # {}))
           ~> (thread[t] = "dead" \/ wait[t] = NoWait \/ ~Exists(p) \/ dangling
               \/ (queue[p] = <<>> /\ Due(packet, p) = {}))
=============================================================================
