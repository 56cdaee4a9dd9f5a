--------------------------- MODULE MemoryManager ---------------------------
(***************************************************************************)
(* memory_manager: the Windows guest's address space, over a backend that  *)
(* shares its address space with the guest (FEX on Android).               *)
(*                                                                         *)
(* An address is a page number and 0 is "no address".  A std::map keyed by *)
(* start address is the set of its entries, each with the pages [lo, hi).  *)
(* Every operation of the manager runs under the kernel lock, so the only  *)
(* steps that fall between two of its own are those of the host process,   *)
(* which maps and unmaps memory of its own at any time.                    *)
(***************************************************************************)
EXTENDS Integers, FiniteSets

CONSTANTS N,            \* MAX_ALLOCATION_END_EXCL
          Granularity,  \* ALLOCATION_GRANULARITY, and MIN_ALLOCATION_ADDRESS
          Default,      \* default_allocation_address_
          Sizes,        \* lengths of the ranges that are asked for
          Protections,  \* nt_memory_permission values that are asked for
          Kusd,         \* KUSD_ADDRESS, the page of the one MMIO device
          MaxForeign,   \* bound on the pages the host process maps for itself
          Ops           \* the operations the guest and the host perform

ASSUME NAssumption == N \in Nat /\ Granularity \in 1 .. N /\ Default \in Granularity .. N
ASSUME SizesAssumption == Sizes \subseteq Nat \ {0}
ASSUME KusdAssumption == Kusd \in 1 .. N - 1

VARIABLES regions,   \* reserved_regions_
          mapped,    \* what the backend maps at a page
          dep,       \* dep_enabled_
          claims,    \* claimed_host_ranges_: pages the backend holds for the guest
          foreign,   \* pages the host process has mapped for itself
          pending,   \* the allocation under way, if any
          phase,     \* "new", "setup" (modules are mapped), "running" (the guest runs)
          restored,  \* this process was restored from a saved state
          stopped    \* "no", or why an exception ended the emulation

vars == <<regions, mapped, dep, claims, foreign, pending, phase,
          restored, stopped>>

Pages == 0 .. N - 1

Least(S) == CHOOSE x \in S : \A y \in S : x <= y

Accesses == SUBSET {"r", "w", "x"}
Read_write == [access |-> {"r", "w"}, guard |-> FALSE]

SectionKinds == {"file_section_view", "pagefile_section_view", "section_image"}
GuestKinds == SectionKinds \cup {"private_allocation"}
Kinds == GuestKinds \cup {"mmio", "host_reserved"}

\* the pages of an entry, of a set of entries, and from a up to b
Span(r) == r.lo .. r.hi - 1
Covered(S) == UNION {Span(r) : r \in S}
Window(a, b) == a .. b - 1

Region(a, b, k, C) == [lo |-> a, hi |-> b, kind |-> k, committed |-> C]
Piece(a, b, q) == [lo |-> a, hi |-> b, perm |-> q]

\* backend entries
Nothing == [by |-> "none", access |-> {}]
Device == [by |-> "device", access |-> {}]
Memory(x) == [by |-> "memory", access |-> x]
Alias(x) == [by |-> "alias", access |-> x]

-----------------------------------------------------------------------------
(* Looking regions up.                                                     *)

\* std::prev(upper_bound(a))
Before(S, a) == {r \in S : r.lo <= a /\ \A s \in S : s.lo <= a => s.lo <= r.lo}

FindReserved(S, a) == {r \in Before(S, a) : a < r.hi}

\* Mutant: the entries that start inside [a, b) are not looked at.
OverlapsReservedBefore(S, a, b) == FindReserved(S, a) # {}

\* Only the entry before a and the entries that start inside [a, b) are looked at.
OverlapsReserved(S, a, b) ==
    \E r \in Before(S, a) \cup {r \in S : a < r.lo /\ r.lo < b} :
        a < r.hi /\ r.lo < b

\* get_region_info: the end of the range it reports for the page a.
QueryEnd(S, a) ==
    LET above == {r.lo : r \in {r \in S : a < r.lo}} \cup {N}
        inside(r) == {c \in r.committed : a \in Span(c)}
        next(r) == {c.lo : c \in {c \in r.committed : a < c.lo}} \cup {r.hi}
    IN  IF FindReserved(S, a) = {} THEN Least(above)
        ELSE Least(UNION {IF inside(r) = {} THEN next(r) ELSE {c.hi : c \in inside(r)} :
                            r \in FindReserved(S, a)})

\* Mutant: an aligned address is moved up, too.
AlignUpPast(a) == (a \div Granularity + 1) * Granularity

AlignUp(a) == ((a + Granularity - 1) \div Granularity) * Granularity

\* The scan over the sorted map, from the aligned start upwards: it steps past
\* the first region in the way and looks again.
FindFree(S, n, start) ==
    LET inWay(a) == {r \in S : a < r.hi /\ r.lo < a + n}
        first(T) == CHOOSE r \in T : \A s \in T : r.lo <= s.lo
        scan[a \in 0 .. N + Granularity] ==
            IF a + n > N THEN 0
            ELSE IF inWay(a) = {} THEN a
            ELSE scan[AlignUp(first(inWay(a)).hi)]
    IN  scan[AlignUp(start)]

-----------------------------------------------------------------------------
(* Committed pieces of one region.                                         *)

SplitAt(C, q) ==
    LET cut == {c \in C : c.lo < q /\ q < c.hi}
    IN  (C \ cut) \cup {[c EXCEPT !.hi = q] : c \in cut}
                  \cup {[c EXCEPT !.lo = q] : c \in cut}

Split(C, a, b) == SplitAt(SplitAt(C, a), b)

\* Mutant: neighbours stay apart.
MergeNothing(C) == C

\* merge_regions: neighbours with the same protection become one piece.
Merge(C) ==
    {x \in [lo : Pages, hi : 1 .. N, perm : {c.perm : c \in C}] :
        LET alike == Covered({c \in C : c.perm = x.perm})
        IN  /\ x.lo < x.hi /\ Span(x) \subseteq alike
            /\ x.lo - 1 \notin alike /\ x.hi \notin alike}

Inside(C, a, b) == {c \in C : a <= c.lo /\ c.hi <= b}

\* The holes between the pieces inside [a, b), as the commit loop finds them.
Holes(C, a, b) ==
    LET in == Inside(C, a, b)
        from == {a} \cup {c.hi : c \in in}
        to == {b} \cup {c.lo : c \in in}
    IN  {h \in from \X to : h[1] < h[2] /\ \A c \in in : c.hi <= h[1] \/ h[2] <= c.lo}

Effective(q, d) ==
    IF q.guard THEN {} ELSE IF d \/ q.access = {} THEN q.access ELSE q.access \cup {"x"}

-----------------------------------------------------------------------------
(* The host.                                                               *)

\* what /proc/self/maps shows
HostMapped == foreign \cup claims

HostWindowIsFree(a, b) == Window(a, b) \cap HostMapped = {}

\* reserve_host_range_gaps for the host's pages P: every run of pages that no
\* region covers becomes a region of its own.
HostGaps(S, P) ==
    LET open == P \ Covered(S)
        runs == {g \in Pages \X (1 .. N) :
                    /\ g[1] < g[2] /\ Window(g[1], g[2]) \subseteq open
                    /\ g[1] - 1 \notin open /\ g[2] \notin open}
    IN  {Region(g[1], g[2], "host_reserved", {}) : g \in runs}

\* Mutant: the region below the released range is not looked at.
GapAbove(S, e) == {p \in Pages : \A r \in S : e <= r.lo => p < r.lo}

\* release_host_claims: the gap between the regions around e.
GapAround(S, e) ==
    {p \in Pages : \A r \in S : IF r.lo < e THEN r.hi <= p ELSE p < r.lo}

\* Mutant: what is left of a host range on either side of the hole is lost.
CarvedWhole(S, a, b) == {r \in S : r.kind # "host_reserved" \/ r.hi <= a \/ b <= r.lo}

\* carve_host_reserved_hole
Carved(S, a, b) ==
    LET hit == {r \in S : r.kind = "host_reserved" /\ a < r.hi /\ r.lo < b}
    IN  (S \ hit) \cup {Region(r.lo, a, "host_reserved", {}) : r \in {r \in hit : r.lo < a}}
                  \cup {Region(b, r.hi, "host_reserved", {}) : r \in {r \in hit : b < r.hi}}

\* find_free_host_allocation_base: a pick that the host occupies makes the
\* manager record what the host has mapped and pick again.
PickBase(n) ==
    LET a == FindFree(regions, n, Default)
        new == IF a = 0 \/ HostWindowIsFree(a, a + n) THEN {} ELSE HostGaps(regions, HostMapped)
    IN  [base |-> FindFree(regions \cup new, n, Default), new |-> new]

Unmapped(f, P) == [p \in Pages |-> IF p \in P THEN Nothing ELSE f[p]]

\* apply_memory_protection, and map_memory where nothing is mapped
Applied(f, P, x) ==
    [p \in Pages |-> IF p \in P /\ f[p].by # "device"
                     THEN [by |-> IF f[p].by = "alias" THEN "alias" ELSE "memory", access |-> x]
                     ELSE f[p]]

\* Mutant: the protections are left as they were.
ReappliedNever(f, S, d) == f

\* The backend's view of the committed pages of the regions S that are not MMIO.
Reapplied(f, S, d) ==
    [p \in Pages |->
        LET at == {c \in UNION {r.committed : r \in {r \in S : r.kind # "mmio"}} : p \in Span(c)}
        IN  IF at = {} THEN f[p] ELSE Memory(UNION {Effective(c.perm, d) : c \in at})]

\* The device is not mapped at the host, so its protection cannot be changed
\* unless the host has memory of its own there.
CannotProtect(P) == \E p \in P : mapped[p].by = "device" /\ p \notin HostMapped

\* Mutant: MAP_FIXED in place of MAP_FIXED_NOREPLACE.
ClaimsAnything(a, b) == FALSE

\* map_memory claims a range that is not claimed; part of it must not be mapped yet.
CannotClaim(a, b) == ~ Window(a, b) \subseteq claims /\ Window(a, b) \cap HostMapped # {}

-----------------------------------------------------------------------------
TypeOK ==
    /\ \A r \in regions :
          /\ r.lo \in Pages /\ r.hi \in 1 .. N /\ r.lo < r.hi /\ r.kind \in Kinds
          /\ \A c \in r.committed : c.lo < c.hi /\ c.perm.access \in Accesses /\ c.perm.guard \in BOOLEAN
    /\ mapped \in [Pages -> [by : {"none", "memory", "alias", "device"}, access : Accesses]]
    /\ dep \in BOOLEAN /\ restored \in BOOLEAN /\ phase \in {"new", "setup", "running"}
    /\ claims \subseteq Pages /\ foreign \subseteq Pages
    /\ stopped \in {"no", "request", "host"}

Init ==
    /\ regions = {}
    /\ mapped = [p \in Pages |-> Nothing]
    /\ dep = TRUE
    /\ claims = {}
    /\ foreign = {}
    /\ pending = <<>>
    /\ phase = "new"
    /\ restored = FALSE
    /\ stopped = "no"

\* No operation is under way and the emulation goes on.
Idle == pending = <<>> /\ stopped = "no"

-----------------------------------------------------------------------------
(* The host process maps memory where nothing is mapped, and unmaps what no *)
(* alias in the guest needs.                                               *)

HostMap(p) ==
    /\ "host" \in Ops /\ stopped = "no"
    /\ p \notin HostMapped /\ Cardinality(foreign) < MaxForeign
    /\ foreign' = foreign \cup {p}
    /\ UNCHANGED <<regions, mapped, dep, claims, pending, phase, restored, stopped>>

HostUnmap(p) ==
    /\ "host" \in Ops /\ stopped = "no"
    /\ p \in foreign /\ mapped[p].by # "alias"
    /\ foreign' = foreign \ {p}
    /\ UNCHANGED <<regions, mapped, dep, claims, pending, phase, restored, stopped>>

\* reset_host_memory_ranges, before the first module is mapped: nothing is
\* recorded yet that it would have to release first.
ResetHostRanges ==
    /\ Idle /\ phase = "new"
    /\ regions' = HostGaps(regions, HostMapped)
    /\ phase' = "setup"
    /\ UNCHANGED <<mapped, dep, claims, foreign, pending, restored, stopped>>

-----------------------------------------------------------------------------
(* Allocation.  A fixed address is checked against the host first, then    *)
(* against the regions; the claim at the host comes last.  An address the  *)
(* manager picks is claimed before it is recorded.                         *)

Request(how, a, n, k, perm) ==
    [how |-> how, scanned |-> FALSE, lo |-> a, hi |-> a + n, kind |-> k, perm |-> perm]

\* The pick of NtAllocateVirtualMemoryEx for a NULL base, and of
\* allocate_memory(size, ...).
Pick(how, n, k, perm) ==
    LET pick == PickBase(n)
    IN  /\ Idle
        /\ regions' = regions \cup pick.new
        /\ pending' = IF pick.base = 0 THEN <<>> ELSE <<Request(how, pick.base, n, k, perm)>>
        /\ UNCHANGED <<mapped, dep, claims, foreign, phase, restored, stopped>>

\* allocate_memory(address, ...) for the request q: reserve_host_memory_ranges_in,
\* then the overlap check of allocate_memory_raw.
ScanFor(q) ==
    LET new == HostGaps(regions, HostMapped \cap Window(q.lo, q.hi))
        taken == OverlapsReserved(regions \cup new, q.lo, q.hi)
    IN  /\ regions' = regions \cup new
        /\ pending' = IF taken THEN <<>> ELSE <<[q EXCEPT !.scanned = TRUE]>>
        /\ UNCHANGED <<mapped, dep, claims, foreign, phase, restored, stopped>>

\* The address that was picked is passed to allocate_memory(address, ...).
Scan ==
    \E q \in {pending[i] : i \in DOMAIN pending} :
        stopped = "no" /\ q.how = "fixed" /\ ~ q.scanned /\ ScanFor(q)

\* The host range is claimed and the region recorded; an uncommitted one is
\* not mapped.  Where the host was faster the claim throws.
Claim ==
    \E q \in {pending[i] : i \in DOMAIN pending} :
        LET window == Window(q.lo, q.hi)
            raced == window \cap foreign # {}
            pieces == {Piece(q.lo, q.hi, p) : p \in q.perm}
        IN  /\ stopped = "no" /\ (q.how = "fixed" => q.scanned)
            /\ regions' = IF ~ raced THEN regions \cup {Region(q.lo, q.hi, q.kind, pieces)}
                          ELSE IF q.how = "fixed" THEN regions \cup {Region(q.lo, q.hi, q.kind, {})}
                          ELSE regions
            /\ mapped' = IF raced THEN mapped
                         ELSE Applied(mapped, Covered(pieces), UNION {Effective(x, dep) : x \in q.perm})
            /\ claims' = IF raced THEN claims ELSE claims \cup window
            /\ stopped' = IF raced THEN "host" ELSE "no"
            /\ pending' = <<>>
            /\ UNCHANGED <<dep, foreign, phase, restored>>

\* NtAllocateVirtualMemoryEx with a NULL base: MEM_RESERVE or MEM_COMMIT.
AllocateAnywhere(n, perm) ==
    /\ "allocate" \in Ops /\ phase = "running"
    /\ Pick("fixed", n, "private_allocation", perm)

\* allocate_memory(address, ...): NtAllocateVirtualMemoryEx with MEM_RESERVE at
\* an address, and modules at their preferred base.
AllocateAt(a, n, perm) ==
    /\ "allocate" \in Ops /\ phase # "new" /\ Idle
    /\ ScanFor(Request("fixed", a, n, "private_allocation", perm))

\* allocate_memory(size, ...): stacks, heaps, section views.
AllocateInternal(n, k, perm) ==
    /\ "internal" \in Ops /\ phase # "new"
    /\ Pick("claimed", n, k, perm)

\* commit_memory on the region r that holds a
CommitInto(r, a, b, q) ==
    LET pieces == Split(r.committed, a, b)
        inside == Inside(pieces, a, b)
        filled == {Piece(h[1], h[2], q) : h \in Holes(pieces, a, b)}
        set == {[c EXCEPT !.perm = q] : c \in inside}
    IN  /\ regions' = (regions \ {r}) \cup
                      {[r EXCEPT !.committed = Merge((pieces \ inside) \cup set \cup filled)]}
        /\ mapped' = Applied(mapped, Covered(inside \cup filled), Effective(q, dep))
        /\ claims' = claims \cup Covered(filled)
        /\ UNCHANGED <<dep, foreign, pending, phase, restored, stopped>>

\* An exception that nothing in the handler catches stops the emulation.
Throw(why) ==
    /\ stopped' = why
    /\ UNCHANGED <<regions, mapped, dep, claims, foreign, pending, phase, restored>>

\* NtAllocateVirtualMemoryEx with MEM_COMMIT alone: commit_memory, and where
\* that refuses, an allocation at the address.
CommitAt(a, n, q) ==
    LET found == FindReserved(regions, a)
        open == {r \in found : r.kind \notin SectionKinds \cup {"host_reserved"}}
        bad(r) == a + n > r.hi \/ CannotProtect(Window(a, a + n))
        lost(r) == \E h \in Holes(Split(r.committed, a, a + n), a, a + n) : CannotClaim(h[1], h[2])
    IN  /\ "commit" \in Ops /\ phase = "running" /\ Idle
        /\ \/ open = {} /\ ScanFor(Request("fixed", a, n, "private_allocation", {q}))
           \/ \E r \in open : ~ bad(r) /\ ~ lost(r) /\ CommitInto(r, a, a + n, q)
           \/ (\E r \in open : bad(r)) /\ Throw("request")
           \/ (\E r \in open : ~ bad(r) /\ lost(r)) /\ Throw("host")

-----------------------------------------------------------------------------
(* Protection.                                                             *)

ProtectIn(r, a, b, q) ==
    LET pieces == Split(r.committed, a, b)
        inside == Inside(pieces, a, b)
        set == {[c EXCEPT !.perm = q] : c \in inside}
    IN  /\ regions' = (regions \ {r}) \cup
                      {[r EXCEPT !.committed = Merge((pieces \ inside) \cup set)]}
        /\ mapped' = Applied(mapped, Covered(inside), Effective(q, dep))
        /\ UNCHANGED <<dep, claims, foreign, pending, phase, restored, stopped>>

\* The handler catches what protect_memory throws: a range that leaves the
\* region, a device that cannot be protected.
NtProtectVirtualMemory(a, n, q) ==
    /\ "protect" \in Ops /\ phase = "running" /\ Idle
    /\ \E r \in FindReserved(regions, a) :
        /\ a + n <= r.hi /\ ~ CannotProtect(Window(a, a + n))
        /\ ProtectIn(r, a, a + n, q)

\* The memory violation hook, for an access to a guarded page p.
GuardFault(p) ==
    /\ "guard" \in Ops /\ phase = "running" /\ Idle
    /\ \E r \in FindReserved(regions, p) : \E c \in r.committed :
        /\ p \in Span(c) /\ c.perm.guard /\ mapped[p].by # "device"
        /\ ProtectIn(r, r.lo, r.lo + (c.hi - p), [c.perm EXCEPT !.guard = FALSE])

\* set_dep_enabled(false), once the executable is mapped
DisableDep ==
    /\ "dep" \in Ops /\ phase = "setup" /\ Idle /\ dep
    /\ dep' = FALSE
    /\ mapped' = Reapplied(mapped, regions, FALSE)
    /\ UNCHANGED <<regions, claims, foreign, pending, phase, restored, stopped>>

-----------------------------------------------------------------------------
(* Decommit and release.                                                   *)

\* NtFreeVirtualMemory with MEM_DECOMMIT
Decommit(a, n) ==
    LET found == FindReserved(regions, a)
        open == {r \in found : r.kind \notin SectionKinds \cup {"mmio"}}
    IN  /\ "free" \in Ops /\ phase = "running" /\ Idle
        /\ \/ \E r \in open :
                LET pieces == Split(r.committed, a, a + n)
                    inside == Inside(pieces, a, a + n)
                IN  /\ a + n <= r.hi
                    /\ regions' = (regions \ {r}) \cup {[r EXCEPT !.committed = pieces \ inside]}
                    /\ mapped' = Unmapped(mapped, Covered(inside))
                    /\ UNCHANGED <<dep, claims, foreign, pending, phase, restored, stopped>>
           \/ /\ \E r \in open : r.hi < a + n
              /\ Throw("request")

\* release_memory(r.lo, 0)
ReleaseRegion(r) ==
    /\ regions' = regions \ {r}
    /\ mapped' = Unmapped(mapped, Covered(r.committed))
    /\ claims' = claims \ GapAround(regions', r.hi)
    /\ UNCHANGED <<dep, foreign, pending, phase, restored, stopped>>

\* release_memory(a, b - a) inside the region r
ReleasePart(r, a, b) ==
    LET pieces == Split(r.committed, a, b)
        inside == Inside(pieces, a, b)
        kept == pieces \ inside
        left == [r EXCEPT !.hi = a, !.committed = {c \in kept : c.lo < a}]
        right == [r EXCEPT !.lo = b, !.committed = {c \in kept : b <= c.lo}]
    IN  /\ regions' = (regions \ {r}) \cup (IF r.lo < a THEN {left} ELSE {})
                                      \cup (IF b < r.hi THEN {right} ELSE {})
        /\ mapped' = Unmapped(mapped, Covered(inside))
        /\ claims' = claims \ GapAround(regions', b)
        /\ UNCHANGED <<dep, foreign, pending, phase, restored, stopped>>

\* NtFreeVirtualMemory with MEM_RELEASE, at the base of a region
NtRelease(a) ==
    /\ "free" \in Ops /\ phase = "running" /\ Idle
    /\ \E r \in FindReserved(regions, a) :
        /\ r.lo = a /\ r.kind \notin SectionKinds \cup {"mmio"}
        /\ ReleaseRegion(r)

\* release_memory(address, size) by the emulator: stacks, shared buffers,
\* aliases of host memory
ReleaseInternal(a, n) ==
    /\ "internal" \in Ops /\ phase = "running" /\ Idle
    /\ \E r \in FindReserved(regions, a) :
        /\ r.kind # "host_reserved" /\ mapped[a].by # "device" /\ a + n <= r.hi
        /\ ReleasePart(r, a, a + n)

-----------------------------------------------------------------------------
(* Devices and host memory in the guest.                                   *)

\* Only what is reserved for the host may be in the way.
CanPlace(a, b) == ~ OverlapsReserved({r \in regions : r.kind # "host_reserved"}, a, b)

Place(a, b, backing) ==
    /\ regions' = Carved(regions, a, b) \cup {Region(a, b, "mmio", {Piece(a, b, Read_write)})}
    /\ mapped' = [p \in Pages |-> IF p \in Window(a, b) THEN backing ELSE mapped[p]]

\* kusd_mmio::register_mmio, the last step of the setup; whether the device
\* could be placed is not looked at.
AllocateMmio ==
    /\ phase = "setup" /\ Idle
    /\ phase' = "running"
    /\ IF CanPlace(Kusd, Kusd + 1)
       THEN Place(Kusd, Kusd + 1, Device)
       ELSE UNCHANGED <<regions, mapped>>
    /\ UNCHANGED <<dep, claims, foreign, pending, restored, stopped>>

\* allocate_host_memory: the guest address is the host's own.
AliasHostMemory(a, n) ==
    /\ "alias" \in Ops /\ phase = "running" /\ Idle
    /\ a >= Granularity /\ Window(a, a + n) \subseteq foreign
    /\ CanPlace(a, a + n)
    /\ Place(a, a + n, Alias(Effective(Read_write, dep)))
    /\ UNCHANGED <<dep, claims, foreign, pending, phase, restored, stopped>>

-----------------------------------------------------------------------------
(* A saved state is restored into a new process, where the host has the    *)
(* pages F.  Aliases of host memory are not saved; the device is mapped    *)
(* again.  Only committed pages are mapped, and so claimed.                *)

Restore(F) ==
    LET lost == {r \in regions : r.kind = "mmio" /\ mapped[r.lo].by = "alias"}
        device == {r \in regions : r.kind = "mmio" /\ mapped[r.lo].by = "device"}
        used == UNION {Covered(r.committed) : r \in {r \in regions : r.kind # "mmio"}}
    IN  /\ "restore" \in Ops /\ phase = "running" /\ Idle /\ ~ restored
        /\ F \cap used = {} /\ Cardinality(F) <= MaxForeign
        /\ regions' = (regions \ (lost \cup device)) \cup
                      {[r EXCEPT !.committed = {Piece(r.lo, r.hi, Read_write)}] : r \in device}
        /\ mapped' = Reapplied(Unmapped(mapped, Covered(lost)), regions', dep)
        /\ claims' = used
        /\ foreign' = F
        /\ restored' = TRUE
        /\ UNCHANGED <<dep, pending, phase, stopped>>

-----------------------------------------------------------------------------
\* a reserved range, or a range committed with one protection
Perms == {{}} \cup {{q} : q \in Protections}

\* what the emulator allocates for the guest, and for the views it maps
InternalKinds == {"private_allocation", "pagefile_section_view"}

Next ==
    \/ \E p \in Pages \ {0} : HostMap(p) \/ HostUnmap(p)
    \/ ResetHostRanges \/ Scan \/ Claim \/ DisableDep \/ AllocateMmio
    \/ \E n \in Sizes, perm \in Perms :
          \/ AllocateAnywhere(n, perm)
          \/ \E k \in InternalKinds : AllocateInternal(n, k, perm)
    \/ \E a \in 1 .. N - 1 : \E n \in {n \in Sizes : a + n <= N} :
          \/ \E perm \in Perms : AllocateAt(a, n, perm)
          \/ \E q \in Protections : CommitAt(a, n, q) \/ NtProtectVirtualMemory(a, n, q)
          \/ Decommit(a, n) \/ ReleaseInternal(a, n) \/ AliasHostMemory(a, n)
    \/ \E a \in 1 .. N - 1 : NtRelease(a) \/ GuardFault(a)
    \/ \E F \in SUBSET (Pages \ {0}) : Restore(F)

Spec == Init /\ [][Next]_vars

-----------------------------------------------------------------------------
(* Properties.                                                             *)

\* The comment of overlaps_reserved_region: the entries are pairwise disjoint,
\* on which its fast path rests; and so are the committed pieces, which lie
\* within their region.
RegionsDisjoint ==
    /\ \A r, s \in regions : r # s => Span(r) \cap Span(s) = {}
    /\ \A r \in regions :
          /\ Covered(r.committed) \subseteq Span(r)
          /\ \A c, d \in r.committed : c # d => Span(c) \cap Span(d) = {}

\* What the guest can reach through the backend is what the manager has on
\* record: committed pages with their effective protection, no other page.
BackendAgrees ==
    \A p \in Pages :
        LET at == {c \in UNION {r.committed : r \in regions} : p \in Span(c)}
        IN  \/ at = {} /\ mapped[p] = Nothing
            \/ at # {} /\ mapped[p] = Device /\ p = Kusd
            \/ \E c \in at : /\ mapped[p].by \in {"memory", "alias"}
                             /\ mapped[p].access = Effective(c.perm, dep)

\* map_memory and remap_host_claim never lay a guest page over memory of the
\* host process, however its mappings come and go between the manager's steps.
NothingClobbered ==
    \A p \in Pages : mapped[p].by = "memory" => p \in claims /\ p \notin foreign

\* Every guest reservation is held at the host, a bare MEM_RESERVE included, so
\* that it can be committed later; what is released is handed back.
ReservationsClaimed ==
    stopped = "no" /\ ~ restored =>
        claims = Covered({r \in regions : r.kind \in GuestKinds})

\* find_free_allocation_base returns the lowest base that fits.
FindFreeLowest ==
    \A n \in Sizes :
        LET fits == {a \in Default .. N - n : a % Granularity = 0 /\ Window(a, a + n) \cap Covered(regions) = {}}
        IN  FindFree(regions, n, Default) = IF fits = {} THEN 0 ELSE Least(fits)

-----------------------------------------------------------------------------
(* memory_manager implements AddressSpace.                                 *)

PageAt(p) ==
    LET at == {r \in regions : r.lo <= p /\ p < r.hi}
    IN  IF at = {} THEN [base |-> 0, kind |-> "free", perm |-> {}]
        ELSE LET r == CHOOSE r \in at : TRUE
             IN  [base |-> r.lo, kind |-> r.kind,
                  perm |-> {c.perm : c \in {c \in r.committed : p \in Span(c)}}]

Space == [p \in Pages |-> PageAt(p)]

AS == INSTANCE AddressSpace
        WITH space <- Space, BaseKept <- TRUE, Replaceable <- {"host_reserved"},
             Protections <- Protections \cup {[q EXCEPT !.guard = FALSE] : q \in Protections}
                                        \cup {Read_write}

\* Page by page, the maps of regions and pieces do what the abstract address
\* space does: an operation touches the pages it was asked for and no others.
ImplementsAddressSpace == AS!Spec

\* get_region_info reports the longest run of pages that are alike: splitting
\* and merging pieces leaves no trace that NtQueryVirtualMemory could show.
QueryExact ==
    \A p \in Pages :
        LET e == QueryEnd(regions, p)
        IN  /\ \A x \in Window(p, e) : PageAt(x) = PageAt(p)
            /\ e < N => PageAt(e) # PageAt(p)
=============================================================================
