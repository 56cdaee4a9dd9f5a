-------------------------- MODULE MCVcpuScheduler --------------------------
(* Instances of VcpuScheduler for TLC.                                     *)
EXTENDS VcpuScheduler

\* Everything a guest and the host may do.
MCAllOps == AllOps

\* Threads come, wait, remap code, are woken, terminated and reaped; no guest
\* closes the handle of a thread that has already terminated.
MCLifecycle == {"wait", "create", "terminate", "detach", "remap"}

\* Handles of threads are closed at any time.
MCLateClose == {"create", "terminate", "close"}

\* A guest whose threads end each other while the rest compute.
MCEnd == {"create", "terminate"}

\* A guest that ends its process.
MCExit == {"create", "exit"}
============================================================================
