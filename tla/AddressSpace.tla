--------------------------- MODULE AddressSpace ---------------------------
(***************************************************************************)
(* What a memory manager promises its guest, page by page.                 *)
(*                                                                         *)
(* A page is free, or it belongs to an allocation.  An allocated page is   *)
(* reserved (perm = {}) or committed with one protection (perm = {q}).     *)
(* There are no maps of regions here, no splitting and no merging:         *)
(* memory_manager (module MemoryManager) and linux_memory_manager (module  *)
(* LinuxMemory) are shown to implement this.                               *)
(***************************************************************************)
EXTENDS Integers

CONSTANTS N,            \* pages of the address space
          Kinds,        \* kinds of allocations: memory_region_kind
          Protections,  \* protections a committed page may have
          BaseKept,     \* a page knows where its allocation starts
          Replaceable   \* kinds that a new allocation may take the place of

VARIABLE space          \* [Pages -> what the guest can observe of the page]

Pages == 0 .. N - 1

Free == [base |-> 0, kind |-> "free", perm |-> {}]

Perms == {{}} \cup {{q} : q \in Protections}

PageStates == [base : Pages, kind : Kinds \cup {"free"}, perm : Perms]

\* the pages from a up to, but not including, b
Span(a, b) == a .. b - 1

Base(a) == IF BaseKept THEN a ELSE 0

-----------------------------------------------------------------------------
(* The operations, each as the steps that it may take from an address      *)
(* space s to an address space t.                                          *)

\* Nothing outside of [a, b) changes.
Within(s, t, a, b) == \A p \in Pages \ Span(a, b) : t[p] = s[p]

\* A page of s once [a, b) is given back: what lay above it in the same
\* allocation is an allocation of its own.
Left(s, p, a, b) ==
    IF p \in Span(a, b) THEN Free
    ELSE IF p >= b /\ s[p].kind # "free" /\ s[p].base < Base(b) THEN [s[p] EXCEPT !.base = b]
    ELSE s[p]

\* The pages are one allocation now, where there were free pages or pages
\* that may be replaced.
Allocate(s, t, a, b, k, perm) ==
    \A p \in Pages :
        IF p \in Span(a, b)
        THEN /\ s[p].kind \in Replaceable \cup {"free"}
             /\ t[p] = [base |-> Base(a), kind |-> k, perm |-> perm]
        ELSE t[p] = Left(s, p, a, b)

\* A range that lies in one allocation is committed, or decommitted.
Commit(s, t, a, b, perm) ==
    /\ Within(s, t, a, b)
    /\ \A p \in Span(a, b) : /\ s[p].kind # "free" /\ s[p].base = s[a].base
                             /\ t[p] = [s[p] EXCEPT !.perm = perm]

\* Committed pages of the range change, reserved ones stay reserved.
Protect(s, t, a, b, q) ==
    /\ Within(s, t, a, b)
    /\ \A p \in Span(a, b) : /\ s[p].kind # "free"
                             /\ t[p] = IF s[p].perm = {} THEN s[p] ELSE [s[p] EXCEPT !.perm = {q}]

Release(s, t, a, b) == \A p \in Pages : t[p] = Left(s, p, a, b)

\* A range is given back once another has taken free pages.
Move(s, t, a, b, c, d, k, perm) ==
    \A p \in Pages :
        IF p \in Span(c, d)
        THEN /\ s[p] = Free
             /\ t[p] = IF p \in Span(a, b) THEN Free
                       ELSE [base |-> Base(c), kind |-> k, perm |-> perm]
        ELSE t[p] = Left(s, p, a, b)

\* Some of what was reserved for the host is forgotten, and runs of free pages
\* are reserved for it.
Rescan(s, t, B) ==
    LET gone == {p \in Pages : s[p].kind = "host_reserved" /\ s[p].base \in B}
        new == {p \in Pages : (s[p] = Free \/ p \in gone) /\ t[p] # Free}
    IN  \A p \in Pages :
            IF p \in new
            THEN t[p] = [base |-> CHOOSE a \in new : a - 1 \notin new /\ a .. p \subseteq new,
                         kind |-> "host_reserved", perm |-> {}]
            ELSE t[p] = IF p \in gone THEN Free ELSE s[p]

\* The guest of a new process has lost what was mapped from the host; its
\* devices are mapped anew, with the protection q.
Resume(s, t, B, q) ==
    \A p \in Pages :
        t[p] = IF s[p].kind # "mmio" THEN s[p]
               ELSE IF s[p].base \in B THEN Free
               ELSE [s[p] EXCEPT !.perm = {q}]

\* where the allocations of kind k start
Bases(s, k) == {s[p].base : p \in {p \in Pages : s[p].kind = k}}

\* One operation on the range [a, b).  What is allocated has the kind and the
\* protection that its first page has in t.
Operation(s, t, a, b) ==
    \/ \E k \in Kinds \cap {t[a].kind}, perm \in Perms \cap {t[a].perm} :
          Allocate(s, t, a, b, k, perm)
    \/ \E perm \in Perms : Commit(s, t, a, b, perm)
    \/ \E q \in Protections : Protect(s, t, a, b, q)
    \/ Release(s, t, a, b)
    \/ \E c \in Pages : \E k \in Kinds \cap {t[c].kind}, perm \in Perms \cap {t[c].perm} :
          s[c] = Free /\ \E d \in c + 1 .. N : Move(s, t, a, b, c, d, k, perm)

Step(s, t) ==
    \/ \E a \in Pages : \E b \in a + 1 .. N : Operation(s, t, a, b)
    \/ \E B \in SUBSET Bases(s, "host_reserved") : Rescan(s, t, B)
    \/ \E B \in SUBSET Bases(s, "mmio"), q \in Protections : Resume(s, t, B, q)

-----------------------------------------------------------------------------
TypeOK == space \in [Pages -> PageStates]

Init == space = [p \in Pages |-> Free]

Next == \E s \in {space}, t \in {space'} : s # t /\ Step(s, t)

Spec == Init /\ [][Next]_space
=============================================================================
