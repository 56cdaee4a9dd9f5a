--------------------------- MODULE MCLinuxMemory ---------------------------
(***************************************************************************)
(* LinuxMemory on a handful of pages.                                      *)
(***************************************************************************)
EXTENDS LinuxMemory

MCProtections == {{"r"}, ReadWrite}
=============================================================================
