-------------------------- MODULE MCMemoryManager --------------------------
(***************************************************************************)
(* MemoryManager on a handful of pages.                                    *)
(***************************************************************************)
EXTENDS MemoryManager

Guarded_rw == [access |-> {"r", "w"}, guard |-> TRUE]
Plain_rw == [access |-> {"r", "w"}, guard |-> FALSE]
MCProtections == {Guarded_rw, Plain_rw}
=============================================================================
