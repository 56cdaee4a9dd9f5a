---------------------------- MODULE LinuxMemory ----------------------------
(***************************************************************************)
(* linux_memory_manager and the memory system calls of the Linux emulator. *)
(*                                                                         *)
(* An address is a page number and 0 is "no address".  The map of regions  *)
(* is the set of its entries, each with the pages [lo, hi).  The guest     *)
(* runs on one vCPU and a system call runs to its end, so an action is a   *)
(* whole system call.  A page's content is one value; it is Zero when the  *)
(* page is fresh, and lost when the page is unmapped.                      *)
(***************************************************************************)
EXTENDS Integers

CONSTANTS N,            \* LINUX_MAX_MMAP_END_EXCL; no call names a page beyond it
          MmapBase,     \* mmap_base_, at or above LINUX_MIN_MMAP_ADDRESS
          BrkBase,      \* brk_base
          Sizes,        \* lengths of the ranges that are asked for
          Hints,        \* hints of mmap, 0 for none
          Protections,  \* memory_permission values that are asked for
          Values        \* what the guest writes and files hold

ASSUME NAssumption == N \in Nat /\ MmapBase \in 1 .. N /\ BrkBase \in 1 .. N
ASSUME InputsAssumption == Sizes \subseteq Nat \ {0} /\ Hints \subseteq Nat

ReadWrite == {"r", "w"}
Zero == 0

VARIABLES regions,   \* mapped_regions_
          mapped,    \* the backend: {} or the one protection of a page
          content,   \* what a mapped page holds
          brk,       \* brk_current
          failed     \* an exception ended the emulation

vars == <<regions, mapped, content, brk, failed>>

Pages == 0 .. N - 1

Span(r) == r.lo .. r.hi - 1
Covered(S) == UNION {Span(r) : r \in S}
Window(a, b) == a .. b - 1

\* the protection of the page p on record, {} when it is in no region
PermAt(S, p) == {r.perm : r \in {r \in S : p \in Span(r)}}

Larger(a, b) == IF a < b THEN b ELSE a
Smaller(a, b) == IF a < b THEN a ELSE b

Region(a, b, q) == [lo |-> a, hi |-> b, perm |-> q]

-----------------------------------------------------------------------------
(* What the operations of the manager make of the set of regions.          *)

Overlapping(S, a, b) == {r \in S : r.lo < b /\ a < r.hi}

\* release_memory(a, b - a): what sticks out on either side stays.
Released(S, a, b) ==
    LET hit == Overlapping(S, a, b)
    IN  (S \ hit) \cup {Region(r.lo, a, r.perm) : r \in {r \in hit : r.lo < a}}
                  \cup {Region(b, r.hi, r.perm) : r \in {r \in hit : b < r.hi}}

\* Mutant: the part after the range is lost from the record.
ProtectedLosesTail(S, a, b, q) ==
    {r \in Released(S, a, b) : r.lo # b \/ r \in S} \cup
        {Region(Larger(r.lo, a), Smaller(r.hi, b), q) : r \in Overlapping(S, a, b)}

\* protect_memory on a range that is mapped throughout
Protected(S, a, b, q) ==
    Released(S, a, b) \cup
        {Region(Larger(r.lo, a), Smaller(r.hi, b), q) : r \in Overlapping(S, a, b)}

\* Mutant: a mapping cannot end at the end of the address space.
FindFreeShort(S, n, start) ==
    LET first(T) == CHOOSE r \in T : \A s \in T : r.lo <= s.lo
        scan[a \in 0 .. N] ==
            IF a + n >= N THEN 0
            ELSE IF Overlapping(S, a, a + n) = {} THEN a
            ELSE scan[first(Overlapping(S, a, a + n)).hi]
    IN  scan[start]

\* find_free_allocation_base: past the first region in the way, and again
FindFree(S, n, start) ==
    LET first(T) == CHOOSE r \in T : \A s \in T : r.lo <= s.lo
        scan[a \in 0 .. N] ==
            IF a + n > N THEN 0
            ELSE IF Overlapping(S, a, a + n) = {} THEN a
            ELSE scan[first(Overlapping(S, a, a + n)).hi]
    IN  scan[start]

\* ... and of the backend and of what the pages hold
Unmapped(f, P) == [p \in Pages |-> IF p \in P THEN {} ELSE f[p]]
Applied(f, P, q) == [p \in Pages |-> IF p \in P THEN {q} ELSE f[p]]
Filled(f, P, v) == [p \in Pages |-> IF p \in P THEN v ELSE f[p]]

\* Mutant: the last page is not copied.
CopiedShort(f, a, to, m) ==
    [p \in Pages |-> IF p \in Window(to, to + m - 1) THEN f[a + (p - to)] ELSE f[p]]

\* m pages are read from a and written to `to'.
Copied(f, a, to, m) ==
    [p \in Pages |-> IF p \in Window(to, to + m) THEN f[a + (p - to)] ELSE f[p]]

-----------------------------------------------------------------------------
TypeOK ==
    /\ regions \subseteq [lo : 1 .. N - 1, hi : 1 .. N, perm : Protections \cup {ReadWrite}]
    /\ \A r \in regions : r.lo < r.hi
    /\ mapped \in [Pages -> {{}} \cup {{q} : q \in Protections \cup {ReadWrite}}]
    /\ content \in [Pages -> Values \cup {Zero}]
    /\ brk \in 1 .. N
    /\ failed \in BOOLEAN

Init ==
    /\ regions = {}
    /\ mapped = [p \in Pages |-> {}]
    /\ content = [p \in Pages |-> Zero]
    /\ brk = BrkBase
    /\ failed = FALSE

-----------------------------------------------------------------------------
(* mmap.  A mapping is made readable and writable, filled from the file,   *)
(* and protected as asked for in the end.                                  *)

\* Pages [a, b) are mapped with protection q in the place of what S1 lacks.
Place(S, f, a, b, q, v) ==
    LET fresh == S \cup {Region(a, b, ReadWrite)}
    IN  /\ regions' = IF q = ReadWrite THEN fresh ELSE Protected(fresh, a, b, q)
        /\ mapped' = Applied(f, Window(a, b), q)
        /\ content' = Filled(content, Window(a, b), v)
        /\ UNCHANGED <<brk, failed>>

\* the file that a mapping is filled from, by what it holds, or Zero when the
\* mapping is anonymous; a descriptor may not be open
Missing == -1
Sources == Values \cup {Zero, Missing}

\* MAP_FIXED unmaps the range first, also when the file then turns out to be
\* missing.
MmapFixed(a, n, q, from) ==
    LET rest == Released(regions, a, a + n)
        cleared == Unmapped(mapped, Window(a, a + n) \cap Covered(regions))
    IN  /\ ~ failed
        /\ \/ /\ from # Missing
              /\ Place(rest, cleared, a, a + n, q, from)
           \/ /\ from = Missing
              /\ regions' = rest
              /\ mapped' = cleared
              /\ content' = Filled(content, Window(a, a + n), Zero)
              /\ UNCHANGED <<brk, failed>>

\* allocate_memory(a, n) succeeds.
CanAllocate(a, n) == a \in 1 .. N - n /\ Overlapping(regions, a, a + n) = {}

\* A hint, or none, and MAP_FIXED_NOREPLACE; what fails changes nothing.
Mmap(a, n, q, from) ==
    /\ ~ failed
    /\ CanAllocate(a, n) /\ from # Missing
    /\ Place(regions, mapped, a, a + n, q, from)

MmapNoReplace(a, n, q, from) == Mmap(a, n, q, from)

MmapAnywhere(hint, n, q, from) ==
    Mmap(FindFree(regions, n, IF hint = 0 THEN MmapBase ELSE hint), n, q, from)

-----------------------------------------------------------------------------
Munmap(a, n) ==
    /\ ~ failed
    /\ regions' = Released(regions, a, a + n)
    /\ mapped' = Unmapped(mapped, Window(a, a + n) \cap Covered(regions))
    /\ content' = Filled(content, Window(a, a + n), Zero)
    /\ UNCHANGED <<brk, failed>>

\* A range with a hole in it is refused before anything is changed.
Mprotect(a, n, q) ==
    /\ ~ failed
    /\ Window(a, a + n) \subseteq Covered(regions)
    /\ regions' = Protected(regions, a, a + n, q)
    /\ mapped' = Applied(mapped, Window(a, a + n), q)
    /\ UNCHANGED <<content, brk, failed>>

\* The break moves; the pages in between are mapped or released.
Brk(new) ==
    /\ ~ failed
    /\ \/ /\ brk < new
          /\ Overlapping(regions, brk, new) = {}
          /\ regions' = regions \cup {Region(brk, new, ReadWrite)}
          /\ mapped' = Applied(mapped, Window(brk, new), ReadWrite)
          /\ content' = Filled(content, Window(brk, new), Zero)
       \/ /\ new < brk
          /\ regions' = Released(regions, new, brk)
          /\ mapped' = Unmapped(mapped, Window(new, brk) \cap Covered(regions))
          /\ content' = Filled(content, Window(new, brk), Zero)
    /\ brk' = new
    /\ UNCHANGED failed

\* mremap: the tail is given back, or the mapping grows where it is ...
MremapInPlace(a, m, n) ==
    /\ ~ failed
    /\ \/ /\ n < m
          /\ regions' = Released(regions, a + n, a + m)
          /\ mapped' = Unmapped(mapped, Window(a + n, a + m) \cap Covered(regions))
          /\ content' = Filled(content, Window(a + n, a + m), Zero)
       \/ /\ m < n
          /\ Overlapping(regions, a + m, a + n) = {}
          /\ regions' = regions \cup {Region(a + m, a + n, ReadWrite)}
          /\ mapped' = Applied(mapped, Window(a + m, a + n), ReadWrite)
          /\ content' = Filled(content, Window(a + m, a + n), Zero)
    /\ UNCHANGED <<brk, failed>>

\* ... or it is copied to a new place.  The old pages are read after the new
\* ones are mapped; reading a page that is not mapped throws, with the new
\* mapping in place.  release_memory with size 0 gives back the whole region
\* that starts at a.
MremapMove(a, m, n) ==
    LET to == FindFree(regions, n, MmapBase)
        grown == regions \cup {Region(to, to + n, ReadWrite)}
        fresh == Filled(content, Window(to, to + n), Zero)
        rest == IF m > 0 THEN Released(grown, a, a + m) ELSE {r \in grown : r.lo # a}
        gone == Covered(grown) \ Covered(rest)
    IN  /\ ~ failed
        /\ m < n /\ Overlapping(regions, a + m, a + n) # {} /\ CanAllocate(to, n)
        /\ \/ /\ Window(a, a + m) \subseteq Covered(grown)
              /\ regions' = rest
              /\ mapped' = Unmapped(Applied(mapped, Window(to, to + n), ReadWrite), gone)
              /\ content' = Filled(Copied(fresh, a, to, m), gone, Zero)
              /\ UNCHANGED failed
           \/ /\ ~ (Window(a, a + m) \subseteq Covered(grown))
              /\ regions' = grown
              /\ mapped' = Applied(mapped, Window(to, to + n), ReadWrite)
              /\ content' = fresh
              /\ failed' = TRUE
        /\ UNCHANGED brk

\* madvise(MADV_DONTNEED): zeros are written over a range that is mapped.
Madvise(a, n) ==
    /\ ~ failed
    /\ Window(a, a + n) \subseteq Covered(regions)
    /\ content' = Filled(content, Window(a, a + n), Zero)
    /\ UNCHANGED <<regions, mapped, brk, failed>>

\* A guest instruction
Write(p, v) ==
    /\ ~ failed
    /\ \E q \in mapped[p] : "w" \in q
    /\ content' = [content EXCEPT ![p] = v]
    /\ UNCHANGED <<regions, mapped, brk, failed>>

-----------------------------------------------------------------------------
Next ==
    \/ \E a \in 1 .. N - 1 : \E n \in {n \in Sizes : a + n <= N} :
        \/ \E q \in Protections, from \in Sources :
              MmapFixed(a, n, q, from) \/ MmapNoReplace(a, n, q, from)
        \/ \E q \in Protections : Mprotect(a, n, q)
        \/ Munmap(a, n)
        \/ Madvise(a, n)
        \/ \E m \in {m \in Sizes \cup {0} : a + m <= N} :
              MremapInPlace(a, m, n) \/ MremapMove(a, m, n)
    \/ \E hint \in Hints, n \in Sizes, q \in Protections, from \in Sources :
          MmapAnywhere(hint, n, q, from)
    \/ \E new \in 1 .. N : Brk(new)
    \/ \E p \in Pages, v \in Values : Write(p, v)

Spec == Init /\ [][Next]_vars

-----------------------------------------------------------------------------
(* Properties.                                                             *)

\* No page is in two regions, and the backend maps exactly the pages of the
\* regions, with the protection on record.
BackendAgrees ==
    /\ \A r, s \in regions : r # s => Span(r) \cap Span(s) = {}
    /\ mapped = [p \in Pages |-> PermAt(regions, p)]

\* find_free_allocation_base returns the lowest base that fits.
FindFreeLowest ==
    \A n \in Sizes, start \in 1 .. N :
        LET fits == {a \in start .. N - n : Window(a, a + n) \cap Covered(regions) = {}}
        IN  FindFree(regions, n, start) =
                IF fits = {} THEN 0 ELSE CHOOSE a \in fits : \A x \in fits : a <= x

\* A mapping that mremap moves keeps what it held, wherever it is moved to.
MoveKeepsContents ==
    [][\A a \in 1 .. N - 1, m, n \in Sizes :
          a + m <= N /\ Window(a, a + m) \subseteq Covered(regions) /\ MremapMove(a, m, n) =>
              \E to \in 1 .. N - m : \A i \in 0 .. m - 1 :
                  /\ mapped[to + i] = {} /\ mapped'[to + i] # {}
                  /\ content'[to + i] = content[a + i]]_vars

-----------------------------------------------------------------------------
(* linux_memory_manager implements AddressSpace.                           *)

Space ==
    [p \in Pages |-> [base |-> 0, perm |-> PermAt(regions, p),
                      kind |-> IF PermAt(regions, p) = {} THEN "free" ELSE "mapping"]]

AS == INSTANCE AddressSpace
        WITH space <- Space, Kinds <- {"mapping"}, Replaceable <- {"mapping"},
             BaseKept <- FALSE, Protections <- Protections \cup {ReadWrite}

\* Page by page, the regions that are split and put together do what the
\* abstract address space does.
ImplementsAddressSpace == AS!Spec
=============================================================================
