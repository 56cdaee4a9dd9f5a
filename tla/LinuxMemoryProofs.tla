------------------------- MODULE LinuxMemoryProofs -------------------------
(***************************************************************************)
(* Proofs about LinuxMemory, for every size of the address space.          *)
(*                                                                         *)
(* The lemmas of the first part say what release_memory, protect_memory    *)
(* and allocate_memory make of the protection that is on record for a page *)
(* (PermAt).  The invariant and the refinement follow page by page.        *)
(***************************************************************************)
EXTENDS LinuxMemory, TLAPS

Perm == Protections \cup {ReadWrite}
RegionSet == [lo : 1 .. N - 1, hi : 1 .. N, perm : Perm]

\* The regions of S are ranges of pages, no two of which share a page.
Wf(S) ==
    /\ S \subseteq RegionSet
    /\ \A r \in S : r.lo < r.hi
    /\ \A r, s \in S : r # s => Span(r) \cap Span(s) = {}

\* Two regions share no page exactly when one ends before the other starts.
LEMMA Apart ==
    ASSUME NEW r \in RegionSet, NEW s \in RegionSet, r.lo < r.hi, s.lo < s.hi
    PROVE  Span(r) \cap Span(s) = {} <=> r.hi <= s.lo \/ s.hi <= r.lo
<1>1. ASSUME Span(r) \cap Span(s) = {} PROVE r.hi <= s.lo \/ s.hi <= r.lo
  <2>1. r.lo \notin Span(s) /\ s.lo \notin Span(r)
    BY <1>1, NAssumption DEF Span, RegionSet
  <2> QED  BY <2>1, NAssumption DEF Span, RegionSet
<1>2. ASSUME r.hi <= s.lo \/ s.hi <= r.lo PROVE Span(r) \cap Span(s) = {}
  BY <1>2, NAssumption DEF Span, RegionSet
<1> QED  BY <1>1, <1>2

\* Wf, without sets of pages.
LEMMA WfApart ==
    ASSUME NEW S, S \subseteq RegionSet, \A r \in S : r.lo < r.hi
    PROVE  Wf(S) <=> \A r, s \in S : r # s => r.hi <= s.lo \/ s.hi <= r.lo
BY Apart DEF Wf

\* A page is in at most one region, and its protection on record is the one of
\* that region.
LEMMA PermOfRegion ==
    ASSUME NEW S, Wf(S), NEW r \in S, NEW p \in Span(r)
    PROVE  PermAt(S, p) = {r.perm}
BY DEF Wf, PermAt

\* Memory that is mapped where no region is in the way.
LEMMA AddedRegion ==
    ASSUME NEW S, Wf(S), NEW a \in 1 .. N - 1, NEW b \in 1 .. N, a < b, NEW q \in Perm,
           Overlapping(S, a, b) = {}
    PROVE  /\ Wf(S \cup {Region(a, b, q)})
           /\ \A p \in Pages : PermAt(S \cup {Region(a, b, q)}, p) =
                                   IF p \in Window(a, b) THEN {q} ELSE PermAt(S, p)
<1> DEFINE new == Region(a, b, q)
           T == S \cup {new}
<1>1. new \in RegionSet /\ new.lo = a /\ new.hi = b /\ new.perm = q
  BY DEF Region, RegionSet
<1>2. \A r \in S : r.hi <= a \/ b <= r.lo
  BY NAssumption DEF Overlapping, Wf, RegionSet
<1>3. T \subseteq RegionSet /\ \A r \in T : r.lo < r.hi
  BY <1>1 DEF Wf
<1>4. Wf(T)
  <2>1. \A r, s \in S : r # s => r.hi <= s.lo \/ s.hi <= r.lo
    BY WfApart, ZenonT(60) DEF Wf
  <2>2. \A r, s \in T : r # s => r.hi <= s.lo \/ s.hi <= r.lo
    BY <1>1, <1>2, <2>1
  <2> QED  BY <1>3, <2>2, WfApart
<1>5. ASSUME NEW p \in Pages
      PROVE  PermAt(T, p) = IF p \in Window(a, b) THEN {q} ELSE PermAt(S, p)
  <2>1. CASE p \in Window(a, b)
    <3>1. p \in Span(new)
      BY <1>1, <2>1 DEF Span, Window
    <3> QED  BY <1>1, <1>4, <2>1, <3>1, PermOfRegion
  <2>2. CASE p \notin Window(a, b)
    <3>1. p \notin Span(new)
      BY <1>1, <2>2 DEF Span, Window
    <3> QED  BY <2>2, <3>1 DEF PermAt
  <2> QED  BY <2>1, <2>2
<1> QED  BY <1>4, <1>5

\* release_memory(a, b - a) takes the pages of [a, b) out of the record, and
\* no others.
LEMMA ReleasedRange ==
    ASSUME NEW S, Wf(S), NEW a \in 1 .. N, NEW b \in 1 .. N, a < b
    PROVE  /\ Wf(Released(S, a, b))
           /\ \A p \in Pages : PermAt(Released(S, a, b), p) =
                                   IF p \in Window(a, b) THEN {} ELSE PermAt(S, p)
           /\ Overlapping(Released(S, a, b), a, b) = {}
<1> DEFINE hit == Overlapping(S, a, b)
           L == {Region(r.lo, a, r.perm) : r \in {r \in hit : r.lo < a}}
           R == {Region(b, r.hi, r.perm) : r \in {r \in hit : b < r.hi}}
           T == (S \ hit) \cup L \cup R
<1>0. T = Released(S, a, b)
  BY DEF Released
<1>1. \A r \in S : /\ r.lo \in 1 .. N - 1 /\ r.hi \in 1 .. N /\ r.perm \in Perm /\ r.lo < r.hi
                   /\ r \in hit <=> r.lo < b /\ a < r.hi
  BY DEF Wf, RegionSet, Overlapping
\* every region of T is what is left of one of S, on one side of [a, b)
<1>2. ASSUME NEW t \in T
      PROVE  \E r \in S : /\ t.perm = r.perm /\ r.lo <= t.lo /\ t.hi <= r.hi
                          /\ t \in RegionSet /\ t.lo < t.hi
                          /\ \/ t = r /\ (r.hi <= a \/ b <= r.lo)
                             \/ t.lo = r.lo /\ t.hi = a /\ a < r.hi
                             \/ t.lo = b /\ t.hi = r.hi /\ r.lo < b
  <2>1. CASE t \in S \ hit
    BY <1>1, <2>1, NAssumption DEF Wf
  <2>2. CASE t \in L
    <3>1. PICK r \in hit : r.lo < a /\ t = Region(r.lo, a, r.perm)
      BY <2>2
    <3>2. r \in S
      BY DEF Overlapping
    <3>3. t.lo = r.lo /\ t.hi = a /\ t.perm = r.perm /\ t \in RegionSet
      BY <1>1, <3>1, <3>2, NAssumption DEF Region, RegionSet
    <3> QED  BY <1>1, <3>1, <3>2, <3>3, NAssumption
  <2>3. CASE t \in R
    <3>1. PICK r \in hit : b < r.hi /\ t = Region(b, r.hi, r.perm)
      BY <2>3
    <3>2. r \in S
      BY DEF Overlapping
    <3>3. t.lo = b /\ t.hi = r.hi /\ t.perm = r.perm /\ t \in RegionSet
      BY <1>1, <3>1, <3>2, NAssumption DEF Region, RegionSet
    <3> QED  BY <1>1, <3>1, <3>2, <3>3, NAssumption
  <2> QED  BY <2>1, <2>2, <2>3
<1>3. T \subseteq RegionSet /\ \A t \in T : t.lo < t.hi
  BY <1>2
<1>4. Wf(T)
  <2>1. \A r, s \in S : r # s => r.hi <= s.lo \/ s.hi <= r.lo
    BY WfApart, ZenonT(60) DEF Wf
  <2>2. ASSUME NEW t \in T, NEW u \in T, t # u
        PROVE  t.hi <= u.lo \/ u.hi <= t.lo
    <3> HIDE DEF T
    <3>1. PICK r \in S : /\ t.perm = r.perm /\ r.lo <= t.lo /\ t.hi <= r.hi
                         /\ t \in RegionSet /\ t.lo < t.hi
                         /\ \/ t = r /\ (r.hi <= a \/ b <= r.lo)
                            \/ t.lo = r.lo /\ t.hi = a /\ a < r.hi
                            \/ t.lo = b /\ t.hi = r.hi /\ r.lo < b
      BY <1>2
    <3>2. PICK s \in S : /\ u.perm = s.perm /\ s.lo <= u.lo /\ u.hi <= s.hi
                         /\ u \in RegionSet /\ u.lo < u.hi
                         /\ \/ u = s /\ (s.hi <= a \/ b <= s.lo)
                            \/ u.lo = s.lo /\ u.hi = a /\ a < s.hi
                            \/ u.lo = b /\ u.hi = s.hi /\ s.lo < b
      BY <1>2
    <3>3. t.lo # u.lo \/ t.hi # u.hi \/ t.perm # u.perm
      BY <2>2, <3>1, <3>2 DEF RegionSet
    <3>4. /\ t.lo \in Nat /\ t.hi \in Nat /\ u.lo \in Nat /\ u.hi \in Nat
          /\ r.lo \in Nat /\ r.hi \in Nat /\ s.lo \in Nat /\ s.hi \in Nat
      BY <1>1, <3>1, <3>2 DEF RegionSet
    <3>5. CASE r # s
      BY <2>1, <3>1, <3>2, <3>4, <3>5
    <3>6. CASE r = s
      BY <3>1, <3>2, <3>3, <3>4, <3>6
    <3> QED  BY <3>5, <3>6
  <2> QED  BY <1>3, <2>2, WfApart
<1>5. ASSUME NEW p \in Pages
      PROVE  PermAt(T, p) = IF p \in Window(a, b) THEN {} ELSE PermAt(S, p)
  <2>0. p \in Int
    BY DEF Pages
  <2>1. CASE p \in Window(a, b)
    <3>1. \A t \in T : p \notin Span(t)
      <4> SUFFICES ASSUME NEW t \in T PROVE p \notin Span(t)
        OBVIOUS
      <4> HIDE DEF T
      <4>1. PICK r \in S : /\ t \in RegionSet /\ t.lo < t.hi
                           /\ \/ t = r /\ (r.hi <= a \/ b <= r.lo)
                              \/ t.hi = a
                              \/ t.lo = b
        BY <1>2
      <4>2. t.lo \in Nat /\ t.hi \in Nat
        BY <4>1 DEF RegionSet
      <4> QED  BY <2>0, <2>1, <4>1, <4>2 DEF Span, Window
    <3> QED  BY <2>1, <3>1 DEF PermAt
  <2>2. CASE p \notin Window(a, b)
    <3>1. ASSUME NEW t \in T, p \in Span(t) PROVE \E r \in S : p \in Span(r) /\ r.perm = t.perm
      <4> HIDE DEF T
      <4>1. PICK r \in S : /\ t.perm = r.perm /\ r.lo <= t.lo /\ t.hi <= r.hi
                           /\ t \in RegionSet
        BY <1>2
      <4>2. t.lo \in Nat /\ t.hi \in Nat
        BY <4>1 DEF RegionSet
      <4> QED  BY <1>1, <2>0, <3>1, <4>1, <4>2 DEF Span
    <3>2. ASSUME NEW r \in S, p \in Span(r) PROVE \E t \in T : p \in Span(t) /\ t.perm = r.perm
      <4>1. CASE r \notin hit
        BY <3>2, <4>1
      <4>2. CASE r \in hit /\ p < a
        <5> DEFINE t == Region(r.lo, a, r.perm)
        <5>1. t.lo = r.lo /\ t.hi = a /\ t.perm = r.perm
          BY DEF Region
        <5>2. p \in Span(t) /\ r.lo < a
          BY <1>1, <2>0, <3>2, <4>2, <5>1 DEF Span
        <5>3. t \in T
          BY <4>2, <5>2
        <5> QED  BY <5>1, <5>2, <5>3
      <4>3. CASE r \in hit /\ b <= p
        <5> DEFINE t == Region(b, r.hi, r.perm)
        <5>1. t.lo = b /\ t.hi = r.hi /\ t.perm = r.perm
          BY DEF Region
        <5>2. p \in Span(t) /\ b < r.hi
          BY <1>1, <2>0, <3>2, <4>3, <5>1 DEF Span
        <5>3. t \in T
          BY <4>3, <5>2
        <5> QED  BY <5>1, <5>2, <5>3
      <4> QED  BY <2>0, <2>2, <4>1, <4>2, <4>3 DEF Window
    <3> HIDE DEF T
    <3> QED  BY <2>2, <3>1, <3>2 DEF PermAt
  <2> QED  BY <2>1, <2>2
<1>6. Overlapping(T, a, b) = {}
  <2> SUFFICES ASSUME NEW t \in T PROVE t.hi <= a \/ b <= t.lo
    <3> HIDE DEF T
    <3>1. \A t \in T : t.lo \in Nat /\ t.hi \in Nat
      BY <1>3 DEF RegionSet
    <3> QED  BY <3>1 DEF Overlapping
  <2> HIDE DEF T
  <2>1. PICK r \in S : \/ t = r /\ (r.hi <= a \/ b <= r.lo)
                       \/ t.hi = a
                       \/ t.lo = b
    BY <1>2
  <2> QED  BY <2>1
<1> HIDE DEF T
<1> QED  BY <1>0, <1>4, <1>5, <1>6

\* The pages that release_memory unmaps from the backend are the ones that are
\* on record.
LEMMA CoveredPages ==
    ASSUME NEW S, NEW p
    PROVE  p \in Covered(S) <=> PermAt(S, p) # {}
BY DEF Covered, PermAt

\* protect_memory changes the pages of a range that is mapped, and no others.
LEMMA ProtectedRange ==
    ASSUME NEW S, Wf(S), NEW a \in 1 .. N, NEW b \in 1 .. N, a < b, NEW q \in Perm,
           Window(a, b) \subseteq Covered(S)
    PROVE  /\ Wf(Protected(S, a, b, q))
           /\ \A p \in Pages : PermAt(Protected(S, a, b, q), p) =
                                   IF p \in Window(a, b) THEN {q} ELSE PermAt(S, p)
<1> DEFINE hit == Overlapping(S, a, b)
           rest == Released(S, a, b)
           part(r) == Region(Larger(r.lo, a), Smaller(r.hi, b), q)
           M == {part(r) : r \in hit}
           T == rest \cup M
<1>0. T = Protected(S, a, b, q)
  BY DEF Protected
<1>1. \A r \in S : /\ r.lo \in 1 .. N - 1 /\ r.hi \in 1 .. N /\ r.lo < r.hi
                   /\ r \in hit <=> r.lo < b /\ a < r.hi
  BY DEF Wf, RegionSet, Overlapping
<1>2. /\ Wf(rest) /\ Overlapping(rest, a, b) = {}
      /\ \A p \in Pages : p \notin Window(a, b) => PermAt(rest, p) = PermAt(S, p)
  BY ReleasedRange
<1>3. ASSUME NEW r \in hit
      PROVE  /\ part(r) \in RegionSet /\ part(r).lo < part(r).hi /\ part(r).perm = q
             /\ part(r).lo = (IF r.lo < a THEN a ELSE r.lo)
             /\ part(r).hi = (IF r.hi < b THEN r.hi ELSE b)
  <2>1. r \in S
    BY DEF Overlapping
  <2>2. /\ part(r).perm = q /\ part(r).lo = Larger(r.lo, a) /\ part(r).hi = Smaller(r.hi, b)
    BY DEF Region
  <2>3. /\ Larger(r.lo, a) \in 1 .. N - 1 /\ Smaller(r.hi, b) \in 1 .. N
        /\ Larger(r.lo, a) < Smaller(r.hi, b)
    BY <1>1, <2>1, NAssumption DEF Larger, Smaller
  <2>4. part(r) \in RegionSet
    BY <2>3 DEF Region, RegionSet
  <2> QED  BY <2>2, <2>3, <2>4 DEF Larger, Smaller
<1> HIDE DEF part
<1>4. T \subseteq RegionSet /\ \A t \in T : t.lo < t.hi
  BY <1>2, <1>3 DEF Wf
<1>5. Wf(T)
  <2>1. \A r, s \in S : r # s => r.hi <= s.lo \/ s.hi <= r.lo
    BY WfApart, SMTT(60) DEF Wf
  <2>2. \A r, s \in rest : r # s => r.hi <= s.lo \/ s.hi <= r.lo
    BY <1>2, WfApart, ZenonT(60) DEF Wf
  <2>3. ASSUME NEW r \in hit, NEW u \in rest PROVE part(r).hi <= u.lo \/ u.hi <= part(r).lo
    <3>1. u.lo \in Nat /\ u.hi \in Nat
      BY <1>2 DEF Wf, RegionSet
    <3>2. u.hi <= a \/ b <= u.lo
      BY <1>2, <3>1 DEF Overlapping
    <3>3. r \in S
      BY DEF Overlapping
    <3> HIDE DEF rest
    <3> QED  BY <1>1, <1>3, <3>1, <3>2, <3>3
  <2>4. ASSUME NEW r \in hit, NEW s \in hit, part(r) # part(s)
        PROVE  part(r).hi <= part(s).lo \/ part(s).hi <= part(r).lo
    <3>1. r \in S /\ s \in S /\ r # s
      BY <2>4 DEF Overlapping
    <3> QED  BY <1>1, <1>3, <2>1, <3>1
  <2>5. \A t, u \in T : t # u => t.hi <= u.lo \/ u.hi <= t.lo
    <3> HIDE DEF rest, hit
    <3> QED  BY <2>2, <2>3, <2>4
  <2> QED  BY <1>4, <2>5, WfApart
<1>6. ASSUME NEW p \in Pages
      PROVE  PermAt(T, p) = IF p \in Window(a, b) THEN {q} ELSE PermAt(S, p)
  <2>0. p \in Int
    BY DEF Pages
  <2>1. CASE p \in Window(a, b)
    <3>1. PICK r \in S : p \in Span(r)
      BY <2>1 DEF Covered
    <3>2. r \in hit /\ p \in Span(part(r))
      BY <1>1, <1>3, <2>0, <2>1, <3>1 DEF Span, Window
    <3>3. part(r) \in T /\ part(r).perm = q
      BY <1>3, <3>2
    <3>4. PermAt(T, p) = {part(r).perm}
      <4> HIDE DEF T
      <4> QED  BY <1>5, <3>2, <3>3, PermOfRegion
    <3> QED  BY <2>1, <3>3, <3>4
  <2>2. CASE p \notin Window(a, b)
    <3>1. \A r \in hit : p \notin Span(part(r))
      <4> SUFFICES ASSUME NEW r \in hit PROVE p \notin Span(part(r))
        OBVIOUS
      <4>1. r \in S
        BY DEF Overlapping
      <4> QED  BY <1>1, <1>3, <2>0, <2>2, <4>1 DEF Span, Window
    <3>2. PermAt(T, p) = PermAt(rest, p)
      <4> HIDE DEF rest, hit
      <4> QED  BY <3>1 DEF PermAt
    <3> QED  BY <1>2, <2>2, <3>2
  <2> QED  BY <2>1, <2>2
<1> HIDE DEF T
<1> QED  BY <1>0, <1>5, <1>6

\* mmap maps the range readable and writable first; protect_memory then gives
\* it the protection that was asked for.
Fresh(S, a, b) == S \cup {Region(a, b, ReadWrite)}
Placed(S, a, b, q) == IF q = ReadWrite THEN Fresh(S, a, b) ELSE Protected(Fresh(S, a, b), a, b, q)

\* A free range that is mapped readable and writable is on record as that.
LEMMA FreshRange ==
    ASSUME NEW S, Wf(S), NEW a \in 1 .. N - 1, NEW b \in 1 .. N, a < b,
           Overlapping(S, a, b) = {}
    PROVE  /\ Wf(Fresh(S, a, b))
           /\ \A p \in Pages : PermAt(Fresh(S, a, b), p) =
                                   IF p \in Window(a, b) THEN {ReadWrite} ELSE PermAt(S, p)
<1>1. ReadWrite \in Perm
  BY DEF Perm
<1> QED  BY <1>1, AddedRegion, SMTT(60) DEF Fresh

\* A range that mmap maps is on record with the protection asked for.
LEMMA PlacedRange ==
    ASSUME NEW S, Wf(S), NEW a \in 1 .. N - 1, NEW b \in 1 .. N, a < b, NEW q \in Perm,
           Overlapping(S, a, b) = {}
    PROVE  /\ Wf(Placed(S, a, b, q))
           /\ \A p \in Pages : PermAt(Placed(S, a, b, q), p) =
                                   IF p \in Window(a, b) THEN {q} ELSE PermAt(S, p)
<1> DEFINE F == Fresh(S, a, b)
<1>1. /\ Wf(F)
      /\ \A p \in Pages : PermAt(F, p) = IF p \in Window(a, b) THEN {ReadWrite} ELSE PermAt(S, p)
  BY FreshRange
<1>2. Window(a, b) \subseteq Pages
  BY NAssumption DEF Window, Pages
<1>3. Window(a, b) \subseteq Covered(F)
  BY <1>1, <1>2, CoveredPages
<1> HIDE DEF F
<1>4. /\ Wf(Protected(F, a, b, q))
      /\ \A p \in Pages : PermAt(Protected(F, a, b, q), p) =
                              IF p \in Window(a, b) THEN {q} ELSE PermAt(F, p)
  <2>1. a \in 1 .. N
    BY NAssumption
  <2> QED  BY <1>1, <1>3, <2>1, ProtectedRange
<1>5. CASE q = ReadWrite
  BY <1>1, <1>5 DEF Placed, F
<1>6. CASE q # ReadWrite
  BY <1>1, <1>4, <1>6 DEF Placed, F
<1> QED  BY <1>5, <1>6

-----------------------------------------------------------------------------
(* The inductive invariant.  It is TypeOK and BackendAgrees: neither needs *)
(* more than the other.                                                    *)

IInv == TypeOK /\ BackendAgrees

PageMap(S) == [p \in Pages |-> PermAt(S, p)]

\* The invariant in the terms of the lemmas above.
LEMMA InvIsWf ==
    IInv <=> /\ Wf(regions) /\ mapped = PageMap(regions)
             /\ mapped \in [Pages -> {{}} \cup {{q} : q \in Perm}]
             /\ content \in [Pages -> Values \cup {Zero}]
             /\ brk \in 1 .. N
             /\ failed \in BOOLEAN
BY DEF IInv, TypeOK, BackendAgrees, Wf, RegionSet, Perm, PageMap

\* A page has one protection on record, or none.
LEMMA OnePerm ==
    ASSUME NEW S, Wf(S), NEW p
    PROVE  PermAt(S, p) \in {{}} \cup {{q} : q \in Perm}
<1>1. CASE \E r \in S : p \in Span(r)
  <2>1. PICK r \in S : p \in Span(r)
    BY <1>1
  <2>2. PermAt(S, p) = {r.perm} /\ r.perm \in Perm
    BY <2>1, PermOfRegion DEF Wf, RegionSet
  <2> QED  BY <2>2
<1>2. CASE ~ \E r \in S : p \in Span(r)
  BY <1>2 DEF PermAt
<1> QED  BY <1>1, <1>2

\* What is left to show of a step.
LEMMA InvAfter ==
    ASSUME Wf(regions'), mapped' = PageMap(regions'),
           content' \in [Pages -> Values \cup {Zero}], brk' \in 1 .. N, failed' \in BOOLEAN
    PROVE  IInv'
<1>1. mapped' \in [Pages -> {{}} \cup {{q} : q \in Perm}]
  BY OnePerm DEF PageMap
<1> QED  BY <1>1 DEF IInv, TypeOK, BackendAgrees, Wf, RegionSet, Perm, PageMap

\* The backend follows the record when a range is released ...
LEMMA UnmappedMap ==
    ASSUME NEW S, Wf(S), NEW a \in 1 .. N, NEW b \in 1 .. N, a < b
    PROVE  Unmapped(PageMap(S), Window(a, b) \cap Covered(S)) = PageMap(Released(S, a, b))
<1>1. \A p \in Pages : PermAt(Released(S, a, b), p) =
                           IF p \in Window(a, b) THEN {} ELSE PermAt(S, p)
  BY ReleasedRange
<1>2. \A p \in Pages : p \in Covered(S) <=> PermAt(S, p) # {}
  BY CoveredPages
<1> QED  BY <1>1, <1>2 DEF Unmapped, PageMap

\* ... and when the protection of a range becomes q.
LEMMA AppliedMap ==
    ASSUME NEW S, NEW T, NEW P, NEW q,
           \A p \in Pages : PermAt(T, p) = IF p \in P THEN {q} ELSE PermAt(S, p)
    PROVE  Applied(PageMap(S), P, q) = PageMap(T)
BY DEF Applied, PageMap

\* Filling pages leaves every page with a value.
LEMMA FilledType ==
    ASSUME NEW f \in [Pages -> Values \cup {Zero}], NEW P, NEW v \in Values \cup {Zero}
    PROVE  Filled(f, P, v) \in [Pages -> Values \cup {Zero}]
BY DEF Filled

\* mmap with MAP_FIXED, also when the file is missing once the range is cleared
LEMMA MmapFixedInv ==
    ASSUME IInv, NEW a \in 1 .. N - 1, NEW n \in Sizes, a + n <= N, NEW q \in Protections,
           NEW from \in Sources, MmapFixed(a, n, q, from)
    PROVE  IInv'
<1> DEFINE rest == Released(regions, a, a + n)
           cleared == Unmapped(mapped, Window(a, a + n) \cap Covered(regions))
<1>1. n \in Nat /\ a \in 1 .. N /\ a + n \in 1 .. N /\ a < a + n /\ q \in Perm
  BY NAssumption, InputsAssumption DEF Perm
<1>2. /\ Wf(regions) /\ mapped = PageMap(regions) /\ content \in [Pages -> Values \cup {Zero}]
      /\ brk \in 1 .. N /\ failed \in BOOLEAN
  BY InvIsWf
<1>3. Wf(rest) /\ Overlapping(rest, a, a + n) = {}
  BY <1>1, <1>2, ReleasedRange
<1>4. cleared = PageMap(rest)
  BY <1>1, <1>2, UnmappedMap
<1>5. Zero \in Values \cup {Zero}
  OBVIOUS
<1> HIDE DEF rest, cleared
<1>6. CASE from # Missing /\ Place(rest, cleared, a, a + n, q, from)
  <2>1. /\ regions' = Placed(rest, a, a + n, q)
        /\ mapped' = Applied(cleared, Window(a, a + n), q)
        /\ content' = Filled(content, Window(a, a + n), from)
        /\ brk' = brk /\ failed' = failed
    BY <1>6 DEF Place, Placed, Fresh
  <2>2. /\ Wf(Placed(rest, a, a + n, q))
        /\ \A p \in Pages : PermAt(Placed(rest, a, a + n, q), p) =
                                IF p \in Window(a, a + n) THEN {q} ELSE PermAt(rest, p)
    BY <1>1, <1>3, PlacedRange
  <2>3. mapped' = PageMap(regions')
    BY <1>4, <2>1, <2>2, AppliedMap
  <2>4. from \in Values \cup {Zero}
    BY <1>6 DEF Sources
  <2>5. content' \in [Pages -> Values \cup {Zero}]
    BY <1>2, <2>1, <2>4, FilledType
  <2> QED  BY <1>2, <2>1, <2>2, <2>3, <2>5, InvAfter
<1>7. CASE /\ regions' = rest /\ mapped' = cleared
           /\ content' = Filled(content, Window(a, a + n), Zero)
           /\ UNCHANGED <<brk, failed>>
  <2>1. content' \in [Pages -> Values \cup {Zero}]
    BY <1>2, <1>5, <1>7, FilledType
  <2> QED  BY <1>2, <1>3, <1>4, <1>7, <2>1, InvAfter
<1> QED  BY <1>6, <1>7 DEF MmapFixed, rest, cleared

\* mmap with a hint or none, and with MAP_FIXED_NOREPLACE
LEMMA MmapInv ==
    ASSUME IInv, NEW a, NEW n \in Sizes, NEW q \in Protections, NEW from \in Sources,
           Mmap(a, n, q, from)
    PROVE  IInv'
<1>1. /\ a \in 1 .. N - 1 /\ n \in Nat /\ a + n \in 1 .. N /\ a < a + n /\ q \in Perm
      /\ Overlapping(regions, a, a + n) = {}
  BY NAssumption, InputsAssumption DEF Perm, Mmap, CanAllocate
<1>2. /\ Wf(regions) /\ mapped = PageMap(regions) /\ content \in [Pages -> Values \cup {Zero}]
      /\ brk \in 1 .. N /\ failed \in BOOLEAN
  BY InvIsWf
<1>3. /\ regions' = Placed(regions, a, a + n, q)
      /\ mapped' = Applied(mapped, Window(a, a + n), q)
      /\ content' = Filled(content, Window(a, a + n), from)
      /\ brk' = brk /\ failed' = failed
  BY DEF Mmap, Place, Placed, Fresh
<1>r. Wf(regions)
  BY <1>2
<1>4. /\ Wf(Placed(regions, a, a + n, q))
      /\ \A p \in Pages : PermAt(Placed(regions, a, a + n, q), p) =
                              IF p \in Window(a, a + n) THEN {q} ELSE PermAt(regions, p)
  BY <1>1, <1>r, PlacedRange
<1>5. mapped' = PageMap(regions')
  BY <1>2, <1>3, <1>4, AppliedMap
<1>6. from \in Values \cup {Zero}
  BY DEF Mmap, Sources
<1>7. content' \in [Pages -> Values \cup {Zero}]
  BY <1>2, <1>3, <1>6, FilledType
<1> QED  BY <1>2, <1>3, <1>4, <1>5, <1>7, InvAfter

\* A range is given back: munmap, brk downwards, a mapping that shrinks.
LEMMA ReleaseInv ==
    ASSUME IInv, NEW a \in 1 .. N, NEW b \in 1 .. N, a < b,
           regions' = Released(regions, a, b),
           mapped' = Unmapped(mapped, Window(a, b) \cap Covered(regions)),
           content' = Filled(content, Window(a, b), Zero),
           brk' \in 1 .. N, failed' = failed
    PROVE  IInv'
<1>1. /\ Wf(regions) /\ mapped = PageMap(regions) /\ content \in [Pages -> Values \cup {Zero}]
      /\ failed \in BOOLEAN
  BY InvIsWf
<1>2. Wf(regions')
  BY <1>1, ReleasedRange
<1>3. mapped' = PageMap(regions')
  BY <1>1, UnmappedMap
<1>4. content' \in [Pages -> Values \cup {Zero}]
  BY <1>1, FilledType
<1> QED  BY <1>1, <1>2, <1>3, <1>4, InvAfter

\* A free range is taken: brk upwards, a mapping that grows.
LEMMA TakeInv ==
    ASSUME IInv, NEW a \in 1 .. N - 1, NEW b \in 1 .. N, a < b,
           Overlapping(regions, a, b) = {},
           regions' = regions \cup {Region(a, b, ReadWrite)},
           mapped' = Applied(mapped, Window(a, b), ReadWrite),
           content' = Filled(content, Window(a, b), Zero),
           brk' \in 1 .. N, failed' \in BOOLEAN
    PROVE  IInv'
<1>1. /\ Wf(regions) /\ mapped = PageMap(regions) /\ content \in [Pages -> Values \cup {Zero}]
  BY InvIsWf
<1>2. /\ Wf(Fresh(regions, a, b))
      /\ \A p \in Pages : PermAt(Fresh(regions, a, b), p) =
                              IF p \in Window(a, b) THEN {ReadWrite} ELSE PermAt(regions, p)
  BY <1>1, FreshRange
<1>3. regions' = Fresh(regions, a, b)
  BY DEF Fresh
<1>4. Applied(PageMap(regions), Window(a, b), ReadWrite) = PageMap(Fresh(regions, a, b))
  BY <1>2, AppliedMap
<1>5. content' \in [Pages -> Values \cup {Zero}]
  BY <1>1, FilledType
<1> QED  BY <1>1, <1>2, <1>3, <1>4, <1>5, InvAfter

\* mprotect on a range without a hole
LEMMA MprotectInv ==
    ASSUME IInv, NEW a \in 1 .. N - 1, NEW n \in Sizes, a + n <= N, NEW q \in Protections,
           Mprotect(a, n, q)
    PROVE  IInv'
<1>1. n \in Nat /\ a \in 1 .. N /\ a + n \in 1 .. N /\ a < a + n /\ q \in Perm
  BY NAssumption, InputsAssumption DEF Perm
<1>2. /\ Wf(regions) /\ mapped = PageMap(regions) /\ content \in [Pages -> Values \cup {Zero}]
      /\ brk \in 1 .. N /\ failed \in BOOLEAN
  BY InvIsWf
<1>3. /\ Window(a, a + n) \subseteq Covered(regions)
      /\ regions' = Protected(regions, a, a + n, q)
      /\ mapped' = Applied(mapped, Window(a, a + n), q)
      /\ UNCHANGED <<content, brk, failed>>
  BY DEF Mprotect
<1> DEFINE T == Protected(regions, a, a + n, q)
<1>4. Wf(regions) /\ Window(a, a + n) \subseteq Covered(regions)
  BY <1>2, <1>3
<1>5. /\ Wf(T)
      /\ \A p \in Pages : PermAt(T, p) =
                              IF p \in Window(a, a + n) THEN {q} ELSE PermAt(regions, p)
  BY <1>1, <1>4, ProtectedRange
<1>6. Applied(PageMap(regions), Window(a, a + n), q) = PageMap(T)
  BY <1>5, AppliedMap
<1> QED  BY <1>2, <1>3, <1>5, <1>6, InvAfter

\* brk, upwards and downwards
LEMMA BrkInv ==
    ASSUME IInv, NEW new \in 1 .. N, Brk(new)
    PROVE  IInv'
<1>1. brk \in 1 .. N /\ failed \in BOOLEAN /\ brk' = new /\ failed' = failed
  BY InvIsWf DEF Brk
<1>2. CASE /\ brk < new
           /\ Overlapping(regions, brk, new) = {}
           /\ regions' = regions \cup {Region(brk, new, ReadWrite)}
           /\ mapped' = Applied(mapped, Window(brk, new), ReadWrite)
           /\ content' = Filled(content, Window(brk, new), Zero)
  <2>1. brk \in 1 .. N - 1
    BY <1>1, <1>2, NAssumption
  <2> QED  BY <1>1, <1>2, <2>1, TakeInv
<1>3. CASE /\ new < brk
           /\ regions' = Released(regions, new, brk)
           /\ mapped' = Unmapped(mapped, Window(new, brk) \cap Covered(regions))
           /\ content' = Filled(content, Window(new, brk), Zero)
  BY <1>1, <1>3, ReleaseInv
<1> QED  BY <1>2, <1>3 DEF Brk

\* mremap that shrinks a mapping or grows it where it is
LEMMA MremapInPlaceInv ==
    ASSUME IInv, NEW a \in 1 .. N - 1, NEW n \in Sizes, a + n <= N,
           NEW m \in Sizes \cup {0}, a + m <= N, MremapInPlace(a, m, n)
    PROVE  IInv'
<1>1. n \in Nat /\ m \in Nat /\ a + n \in 1 .. N /\ a + m \in 1 .. N
  BY NAssumption, InputsAssumption
<1>2. brk' \in 1 .. N /\ failed' = failed /\ failed' \in BOOLEAN
  BY InvIsWf DEF MremapInPlace
<1>3. CASE /\ n < m
           /\ regions' = Released(regions, a + n, a + m)
           /\ mapped' = Unmapped(mapped, Window(a + n, a + m) \cap Covered(regions))
           /\ content' = Filled(content, Window(a + n, a + m), Zero)
  <2>1. a + n < a + m
    BY <1>1, <1>3
  <2> QED  BY <1>1, <1>2, <1>3, <2>1, ReleaseInv
<1>4. CASE /\ m < n
           /\ Overlapping(regions, a + m, a + n) = {}
           /\ regions' = regions \cup {Region(a + m, a + n, ReadWrite)}
           /\ mapped' = Applied(mapped, Window(a + m, a + n), ReadWrite)
           /\ content' = Filled(content, Window(a + m, a + n), Zero)
  <2>1. a + m < a + n /\ a + m \in 1 .. N - 1
    BY <1>1, <1>4, NAssumption
  <2> QED  BY <1>1, <1>2, <1>4, <2>1, TakeInv
<1> QED  BY <1>3, <1>4 DEF MremapInPlace

\* Regions that are taken out of the record take their pages with them.
LEMMA FewerRegions ==
    ASSUME NEW S, Wf(S), NEW T, T \subseteq S
    PROVE  /\ Wf(T)
           /\ \A p \in Pages : PermAt(T, p) = {} \/ PermAt(T, p) = PermAt(S, p)
<1>1. Wf(T)
  BY DEF Wf
<1>2. ASSUME NEW p \in Pages, PermAt(T, p) # {} PROVE PermAt(T, p) = PermAt(S, p)
  <2>1. PICK r \in T : p \in Span(r)
    BY <1>2 DEF PermAt
  <2>2. PermAt(T, p) = {r.perm}
    BY <1>1, <2>1, PermOfRegion
  <2>3. PermAt(S, p) = {r.perm}
    BY <2>1, PermOfRegion
  <2> QED  BY <2>2, <2>3
<1> QED  BY <1>1, <1>2

\* What mremap leaves of the record once the new mapping is made
Rest(S, a, m) == IF m > 0 THEN Released(S, a, a + m) ELSE {r \in S : r.lo # a}

\* Releasing the old range leaves every other page on record as it was.
LEMMA RestRange ==
    ASSUME NEW S, Wf(S), NEW a \in 1 .. N - 1, NEW m \in Nat, a + m <= N
    PROVE  /\ Wf(Rest(S, a, m))
           /\ \A p \in Pages : PermAt(Rest(S, a, m), p) = {} \/ PermAt(Rest(S, a, m), p) = PermAt(S, p)
<1>1. CASE m > 0
  <2>1. a \in 1 .. N /\ a + m \in 1 .. N /\ a < a + m
    BY <1>1, NAssumption
  <2>2. /\ Wf(Released(S, a, a + m))
        /\ \A p \in Pages : PermAt(Released(S, a, a + m), p) =
                                IF p \in Window(a, a + m) THEN {} ELSE PermAt(S, p)
    BY <2>1, ReleasedRange, ZenonT(60)
  <2> QED  BY <1>1, <2>2 DEF Rest
<1>2. CASE ~ (m > 0)
  <2>1. Rest(S, a, m) \subseteq S
    BY <1>2 DEF Rest
  <2> QED  BY <2>1, FewerRegions
<1> QED  BY <1>1, <1>2

\* mremap to a new place, also when it throws with the new mapping in place
LEMMA MremapMoveInv ==
    ASSUME IInv, NEW a \in 1 .. N - 1, NEW n \in Sizes, a + n <= N,
           NEW m \in Sizes \cup {0}, a + m <= N, MremapMove(a, m, n)
    PROVE  IInv'
<1> DEFINE to == FindFree(regions, n, MmapBase)
           grown == regions \cup {Region(to, to + n, ReadWrite)}
           fresh == Filled(content, Window(to, to + n), Zero)
           rest == IF m > 0 THEN Released(grown, a, a + m) ELSE {r \in grown : r.lo # a}
           gone == Covered(grown) \ Covered(rest)
<1>1. m \in Nat /\ n \in Nat /\ m < n /\ CanAllocate(to, n) /\ brk' = brk
  BY InputsAssumption DEF MremapMove
<1>2. /\ to \in 1 .. N - 1 /\ to + n \in 1 .. N /\ to < to + n
      /\ Overlapping(regions, to, to + n) = {}
  <2> HIDE DEF to
  <2> QED  BY <1>1, NAssumption, SMTT(60) DEF CanAllocate
<1>3. \/ /\ regions' = rest
         /\ mapped' = Unmapped(Applied(mapped, Window(to, to + n), ReadWrite), gone)
         /\ content' = Filled(Copied(fresh, a, to, m), gone, Zero)
         /\ UNCHANGED failed
      \/ /\ regions' = grown
         /\ mapped' = Applied(mapped, Window(to, to + n), ReadWrite)
         /\ content' = fresh
         /\ failed' = TRUE
  BY ZenonT(60) DEF MremapMove
<1> HIDE DEF to
<1>4. /\ Wf(regions) /\ mapped = PageMap(regions) /\ content \in [Pages -> Values \cup {Zero}]
      /\ brk \in 1 .. N /\ failed \in BOOLEAN
  BY InvIsWf
<1>5. CASE /\ regions' = grown
           /\ mapped' = Applied(mapped, Window(to, to + n), ReadWrite)
           /\ content' = fresh
           /\ failed' = TRUE
  <2>1. brk' \in 1 .. N /\ failed' \in BOOLEAN
    BY <1>1, <1>4, <1>5
  <2> QED  BY <1>2, <1>5, <2>1, TakeInv
<1>6. CASE /\ regions' = rest
           /\ mapped' = Unmapped(Applied(mapped, Window(to, to + n), ReadWrite), gone)
           /\ content' = Filled(Copied(fresh, a, to, m), gone, Zero)
           /\ UNCHANGED failed
  <2>1. Wf(regions)
    BY <1>4
  <2>2. /\ Wf(Fresh(regions, to, to + n))
        /\ \A p \in Pages : PermAt(Fresh(regions, to, to + n), p) =
                                IF p \in Window(to, to + n) THEN {ReadWrite} ELSE PermAt(regions, p)
    BY <1>2, <2>1, FreshRange, ZenonT(60)
  <2>3. grown = Fresh(regions, to, to + n)
    BY DEF Fresh
  <2>4. rest = Rest(grown, a, m)
    BY DEF Rest
  <2>5. Wf(grown) /\ Applied(mapped, Window(to, to + n), ReadWrite) = PageMap(grown)
    <3>1. Applied(PageMap(regions), Window(to, to + n), ReadWrite) = PageMap(Fresh(regions, to, to + n))
      BY <2>2, AppliedMap
    <3> QED  BY <1>4, <2>2, <2>3, <3>1
  <2> HIDE DEF grown, rest
  <2>6. Wf(rest) /\ \A p \in Pages : PermAt(rest, p) = {} \/ PermAt(rest, p) = PermAt(grown, p)
    <3>1. Wf(grown)
      BY <2>5
    <3>2. /\ Wf(Rest(grown, a, m))
          /\ \A p \in Pages : \/ PermAt(Rest(grown, a, m), p) = {}
                              \/ PermAt(Rest(grown, a, m), p) = PermAt(grown, p)
      BY <1>1, <3>1, RestRange
    <3> QED  BY <2>4, <3>2
  <2>7. mapped' = PageMap(rest)
    <3>1. \A p \in Pages : p \in gone <=> PermAt(grown, p) # {} /\ PermAt(rest, p) = {}
      BY CoveredPages
    <3>2. mapped' = [p \in Pages |-> IF p \in gone THEN {} ELSE PermAt(grown, p)]
      BY <1>6, <2>5 DEF Unmapped, PageMap
    <3> HIDE DEF gone
    <3> QED  BY <2>6, <3>1, <3>2 DEF PageMap
  <2>8. content' \in [Pages -> Values \cup {Zero}]
    <3>1. fresh \in [Pages -> Values \cup {Zero}]
      BY <1>4, FilledType
    <3> HIDE DEF fresh, gone
    <3>2. ASSUME NEW p \in Pages, p \in Window(to, to + m) PROVE a + (p - to) \in Pages
      BY <1>1, <1>2, <3>2, NAssumption DEF Pages, Window
    <3>3. Copied(fresh, a, to, m) \in [Pages -> Values \cup {Zero}]
      BY <3>1, <3>2 DEF Copied
    <3> QED  BY <1>6, <3>3, FilledType
  <2> QED  BY <1>1, <1>4, <1>6, <2>6, <2>7, <2>8, InvAfter
<1> QED  BY <1>3, <1>5, <1>6, ZenonT(60)

\* madvise and the writes of the guest change what pages hold, and nothing else.
LEMMA ContentInv ==
    ASSUME IInv, content' \in [Pages -> Values \cup {Zero}],
           UNCHANGED <<regions, mapped, brk, failed>>
    PROVE  IInv'
BY DEF IInv, TypeOK, BackendAgrees

\* Every system call leaves the record and the backend in agreement.
LEMMA NextInv ==
    ASSUME IInv, Next PROVE IInv'
<1>1. ASSUME NEW a \in 1 .. N - 1, NEW n \in Sizes, a + n <= N, NEW q \in Protections,
             NEW from \in Sources, MmapFixed(a, n, q, from) \/ MmapNoReplace(a, n, q, from)
      PROVE  IInv'
  BY <1>1, MmapFixedInv, MmapInv DEF MmapNoReplace
<1>2. ASSUME NEW a \in 1 .. N - 1, NEW n \in Sizes, a + n <= N, NEW q \in Protections,
             Mprotect(a, n, q)
      PROVE  IInv'
  BY <1>2, MprotectInv
<1>3. ASSUME NEW a \in 1 .. N - 1, NEW n \in Sizes, a + n <= N, Munmap(a, n) PROVE IInv'
  <2>1. n \in Nat /\ a \in 1 .. N /\ a + n \in 1 .. N /\ a < a + n
    BY <1>3, NAssumption, InputsAssumption
  <2>2. brk' \in 1 .. N
    BY <1>3, InvIsWf DEF Munmap
  <2> QED  BY <1>3, <2>1, <2>2, ReleaseInv DEF Munmap
<1>4. ASSUME NEW a \in 1 .. N - 1, NEW n \in Sizes, Madvise(a, n) PROVE IInv'
  <2>1. content' \in [Pages -> Values \cup {Zero}]
    BY <1>4, InvIsWf, FilledType DEF Madvise
  <2> QED  BY <1>4, <2>1, ContentInv DEF Madvise
<1>5. ASSUME NEW a \in 1 .. N - 1, NEW n \in Sizes, a + n <= N, NEW m \in Sizes \cup {0},
             a + m <= N, MremapInPlace(a, m, n) \/ MremapMove(a, m, n)
      PROVE  IInv'
  BY <1>5, MremapInPlaceInv, MremapMoveInv
<1>6. ASSUME NEW hint \in Hints, NEW n \in Sizes, NEW q \in Protections, NEW from \in Sources,
             MmapAnywhere(hint, n, q, from)
      PROVE  IInv'
  BY <1>6, MmapInv DEF MmapAnywhere
<1>7. ASSUME NEW new \in 1 .. N, Brk(new) PROVE IInv'
  BY <1>7, BrkInv
<1>8. ASSUME NEW p \in Pages, NEW v \in Values, Write(p, v) PROVE IInv'
  <2>1. content' \in [Pages -> Values \cup {Zero}]
    BY <1>8, InvIsWf DEF Write
  <2> QED  BY <1>8, <2>1, ContentInv DEF Write
<1> QED  BY <1>1, <1>2, <1>3, <1>4, <1>5, <1>6, <1>7, <1>8 DEF Next

\* Before the program is loaded nothing is mapped.
LEMMA InitInv ==
    ASSUME Init PROVE IInv
BY NAssumption, ZenonT(60) DEF Init, IInv, TypeOK, BackendAgrees, PermAt, Pages

\* In every state that linux_memory_manager can reach, however large the
\* address space is, no two regions overlap, and the backend maps exactly the
\* pages of the regions, with the protection on record.
THEOREM Agreement == Spec => [](TypeOK /\ BackendAgrees)
<1>1. IInv /\ [Next]_vars => IInv'
  <2>1. ASSUME IInv, UNCHANGED vars PROVE IInv'
    BY <2>1 DEF IInv, TypeOK, BackendAgrees, vars
  <2> QED  BY <2>1, NextInv
<1>2. IInv => TypeOK /\ BackendAgrees
  BY DEF IInv
<1> QED  BY <1>1, <1>2, InitInv, PTL DEF Spec

----------------------------------------------------------------------------

Maps == [Pages -> {{}} \cup {{q} : q \in Perm}]

PageOf(x) == [base |-> 0, perm |-> x, kind |-> IF x = {} THEN "free" ELSE "mapping"]
SpaceOf(f) == [p \in Pages |-> PageOf(f[p])]

\* The fields of a page.
LEMMA PageFields ==
    ASSUME NEW x
    PROVE  /\ PageOf(x).base = 0 /\ PageOf(x).perm = x
           /\ PageOf(x).kind = IF x = {} THEN "free" ELSE "mapping"
BY DEF PageOf

\* Changing the protection of a mapped page changes nothing else of it.
LEMMA PageProtected ==
    ASSUME NEW x, NEW y, x # {}, y # {}
    PROVE  PageOf(y) = [PageOf(x) EXCEPT !.perm = y]
<1>1. PageOf(x) = [base |-> 0, perm |-> x, kind |-> "mapping"]
  BY DEF PageOf
<1>2. PageOf(y) = [base |-> 0, perm |-> y, kind |-> "mapping"]
  BY DEF PageOf
<1> QED  BY <1>1, <1>2

\* By BackendAgrees, what is on record of a page is what the backend maps.
LEMMA SpaceIsMapped ==
    ASSUME IInv PROVE Space = SpaceOf(mapped) /\ mapped \in Maps
<1>1. mapped = PageMap(regions) /\ mapped \in Maps
  BY InvIsWf DEF Maps
<1> QED  BY <1>1 DEF Space, SpaceOf, PageOf, PageMap

\* What Left makes of a page when pages do not know their allocation.
LEMMA LeftPage ==
    ASSUME NEW f, NEW p \in Pages, NEW a, NEW b
    PROVE  AS!Left(SpaceOf(f), p, a, b) =
               IF p \in Window(a, b) THEN PageOf({}) ELSE PageOf(f[p])
<1>1. SpaceOf(f)[p] = PageOf(f[p]) /\ PageOf(f[p]).base = 0
  BY DEF SpaceOf, PageOf
<1>2. AS!Free = PageOf({})
  BY DEF AS!Free, PageOf
<1>3. AS!Base(b) = 0
  BY DEF AS!Base
<1> QED  BY <1>1, <1>2, <1>3 DEF AS!Left, AS!Span, Window

\* mmap: the range takes the place of what was there.
LEMMA AllocateStep ==
    ASSUME NEW f \in Maps, NEW g \in Maps, NEW a \in Pages, NEW b \in a + 1 .. N, NEW q \in Perm,
           \A p \in Pages : g[p] = IF p \in Window(a, b) THEN {q} ELSE f[p]
    PROVE  AS!Step(SpaceOf(f), SpaceOf(g))
<1> DEFINE s == SpaceOf(f)
           t == SpaceOf(g)
<1>1. /\ \A p \in Pages : s[p] = PageOf(f[p]) /\ t[p] = PageOf(g[p])
      /\ PageOf({q}) = [base |-> 0, kind |-> "mapping", perm |-> {q}]
  BY DEF SpaceOf, PageOf
<1>2. \A p \in Pages : AS!Left(s, p, a, b) = IF p \in Window(a, b) THEN PageOf({}) ELSE PageOf(f[p])
  BY LeftPage
<1>3. \A p \in Pages : s[p].kind \in {"mapping"} \cup {"free"}
  <2> HIDE DEF s
  <2> QED  BY <1>1, PageFields
<1>4. a \in Window(a, b) /\ t[a] = PageOf({q})
  BY <1>1, NAssumption DEF Window, Pages
<1> HIDE DEF s, t
<1>5. AS!Allocate(s, t, a, b, "mapping", {q})
  BY <1>1, <1>2, <1>3 DEF AS!Allocate, AS!Pages, AS!Span, AS!Base, Window, Pages
<1>6. "mapping" \in {"mapping"} \cap {t[a].kind} /\ {q} \in AS!Perms \cap {t[a].perm}
  <2>1. t[a].kind = "mapping" /\ t[a].perm = {q}
    BY <1>4, PageFields
  <2>2. {q} \in AS!Perms
    BY DEF AS!Perms, Perm
  <2> QED  BY <2>1, <2>2
<1>7. AS!Operation(s, t, a, b)
  BY <1>5, <1>6 DEF AS!Operation
<1>8. AS!Step(s, t)
  BY <1>7 DEF AS!Step, AS!Pages, Pages
<1> QED  BY <1>8 DEF s, t

\* mprotect: the pages of the range stay mapped.
LEMMA ProtectStep ==
    ASSUME NEW f \in Maps, NEW g \in Maps, NEW a \in Pages, NEW b \in a + 1 .. N, NEW q \in Perm,
           \A p \in Pages : g[p] = IF p \in Window(a, b) THEN {q} ELSE f[p],
           \A p \in Pages : p \in Window(a, b) => f[p] # {}
    PROVE  AS!Step(SpaceOf(f), SpaceOf(g))
<1> DEFINE s == SpaceOf(f)
           t == SpaceOf(g)
<1>1. \A p \in Pages : s[p] = PageOf(f[p]) /\ t[p] = PageOf(g[p])
  BY DEF SpaceOf
<1>2. Window(a, b) \subseteq Pages
  BY NAssumption DEF Window, Pages
<1> HIDE DEF s, t
<1>3. AS!Within(s, t, a, b)
  BY <1>1 DEF AS!Within, AS!Pages, AS!Span, Window, Pages
<1>4. ASSUME NEW p \in Window(a, b)
      PROVE  s[p].kind # "free" /\ s[p].perm # {} /\ t[p] = [s[p] EXCEPT !.perm = {q}]
  <2>1. p \in Pages /\ f[p] # {} /\ g[p] = {q}
    BY <1>2
  <2>2. s[p] = PageOf(f[p]) /\ t[p] = PageOf({q})
    BY <1>1, <2>1
  <2>3. PageOf({q}) = [PageOf(f[p]) EXCEPT !.perm = {q}]
    BY <2>1, PageProtected, ZenonT(60)
  <2> QED  BY <2>1, <2>2, <2>3, PageFields
<1>5. AS!Protect(s, t, a, b, q)
  BY <1>3, <1>4 DEF AS!Protect, AS!Span, Window
<1>6. AS!Operation(s, t, a, b)
  BY <1>5 DEF AS!Operation, Perm
<1>7. AS!Step(s, t)
  BY <1>6 DEF AS!Step, AS!Pages, Pages
<1> QED  BY <1>7 DEF s, t

\* munmap, and whatever else gives a range back
LEMMA ReleaseStep ==
    ASSUME NEW f \in Maps, NEW g \in Maps, NEW a \in Pages, NEW b \in a + 1 .. N,
           \A p \in Pages : g[p] = IF p \in Window(a, b) THEN {} ELSE f[p]
    PROVE  AS!Step(SpaceOf(f), SpaceOf(g))
<1> DEFINE s == SpaceOf(f)
           t == SpaceOf(g)
<1>1. \A p \in Pages : t[p] = PageOf(g[p])
  BY DEF SpaceOf
<1>2. \A p \in Pages : AS!Left(s, p, a, b) = IF p \in Window(a, b) THEN PageOf({}) ELSE PageOf(f[p])
  BY LeftPage
<1> HIDE DEF s, t
<1>3. AS!Release(s, t, a, b)
  BY <1>1, <1>2 DEF AS!Release, AS!Pages, Pages
<1>4. AS!Operation(s, t, a, b)
  BY <1>3 DEF AS!Operation
<1>5. AS!Step(s, t)
  BY <1>4 DEF AS!Step, AS!Pages, Pages
<1> QED  BY <1>5 DEF s, t

\* mremap: [c, d) is taken before [a, b) is given back.
Moved(f, g, a, b, c, d, q) ==
    /\ c \notin Window(a, b)
    /\ \A p \in Pages : p \in Window(c, d) => f[p] = {}
    /\ \A p \in Pages : g[p] = IF p \in Window(a, b) THEN {}
                               ELSE IF p \in Window(c, d) THEN {q} ELSE f[p]

\* A move is a step of AddressSpace.
LEMMA MoveStep ==
    ASSUME NEW f \in Maps, NEW g \in Maps, NEW a \in Pages, NEW b \in a + 1 .. N, NEW q \in Perm,
           NEW c \in Pages, NEW d \in c + 1 .. N, Moved(f, g, a, b, c, d, q)
    PROVE  AS!Step(SpaceOf(f), SpaceOf(g))
<1>0. /\ c \notin Window(a, b)
      /\ \A p \in Pages : p \in Window(c, d) => f[p] = {}
      /\ \A p \in Pages : g[p] = IF p \in Window(a, b) THEN {}
                                 ELSE IF p \in Window(c, d) THEN {q} ELSE f[p]
  BY DEF Moved
<1> DEFINE s == SpaceOf(f)
           t == SpaceOf(g)
<1>1. /\ \A p \in Pages : s[p] = PageOf(f[p]) /\ t[p] = PageOf(g[p])
      /\ PageOf({q}) = [base |-> 0, kind |-> "mapping", perm |-> {q}]
      /\ PageOf({}) = AS!Free
  BY DEF SpaceOf, PageOf, AS!Free
<1>2. \A p \in Pages : AS!Left(s, p, a, b) = IF p \in Window(a, b) THEN PageOf({}) ELSE PageOf(f[p])
  BY LeftPage
<1>3. c \in Window(c, d) /\ t[c] = PageOf({q}) /\ s[c] = AS!Free
  <2>1. c \in Window(c, d)
    BY NAssumption DEF Window, Pages
  <2>2. f[c] = {} /\ g[c] = {q}
    BY <1>0, <2>1
  <2> QED  BY <1>1, <2>1, <2>2, ZenonT(60)
<1> HIDE DEF s, t
<1>4. AS!Move(s, t, a, b, c, d, "mapping", {q})
  <2> SUFFICES ASSUME NEW p \in Pages
               PROVE  IF p \in Window(c, d)
                      THEN /\ s[p] = AS!Free
                           /\ t[p] = IF p \in Window(a, b) THEN AS!Free
                                     ELSE [base |-> 0, kind |-> "mapping", perm |-> {q}]
                      ELSE t[p] = AS!Left(s, p, a, b)
    BY ZenonT(60) DEF AS!Move, AS!Pages, AS!Span, AS!Base, Window, Pages
  <2> QED  BY <1>0, <1>1, <1>2, ZenonT(60)
<1>5. "mapping" \in {"mapping"} \cap {t[c].kind} /\ {q} \in AS!Perms \cap {t[c].perm}
  <2>1. t[c].kind = "mapping" /\ t[c].perm = {q}
    BY <1>3, PageFields
  <2>2. {q} \in AS!Perms
    BY DEF AS!Perms, Perm
  <2> QED  BY <2>1, <2>2
<1>6. AS!Operation(s, t, a, b)
  BY <1>3, <1>4, <1>5 DEF AS!Operation, AS!Pages, Pages
<1>7. AS!Step(s, t)
  BY <1>6 DEF AS!Step, AS!Pages, Pages
<1> QED  BY <1>7 DEF s, t

\* Sizes are counted in pages.
LEMMA SizesInNat == \A n \in Sizes \cup {0} : n \in Nat /\ (n \in Sizes => n > 0)
  BY InputsAssumption

\* What mremap has made sure of when it moves a mapping
LEMMA MoveGuard ==
    ASSUME NEW a, NEW m, NEW n, MremapMove(a, m, n)
    PROVE  m < n /\ Overlapping(regions, a + m, a + n) # {} /\ CanAllocate(FindFree(regions, n, MmapBase), n)
  BY ZenonT(60) DEF MremapMove

\* Every system call is a step of the abstract address space, or leaves it as
\* it is.
LEMMA NextStep ==
    ASSUME IInv, IInv', Next
    PROVE  UNCHANGED mapped \/ AS!Step(SpaceOf(mapped), SpaceOf(mapped'))
<1> DEFINE Goal == UNCHANGED mapped \/ AS!Step(SpaceOf(mapped), SpaceOf(mapped'))
<1>0. /\ mapped \in Maps /\ mapped' \in Maps /\ Wf(regions)
      /\ \A p \in Pages : mapped[p] = PermAt(regions, p) /\ mapped'[p] = PermAt(regions', p)
  BY InvIsWf, SpaceIsMapped, ZenonT(60) DEF Maps, IInv, BackendAgrees, TypeOK, Perm
<1>w. Wf(regions)
  BY <1>0
<1>r. ReadWrite \in Perm
  BY DEF Perm
\* the three shapes of a step
<1>a. ASSUME NEW a \in 1 .. N - 1, NEW b \in 1 .. N, a < b, NEW q \in Perm,
             mapped' = Applied(mapped, Window(a, b), q)
      PROVE  Goal
  <2>1. a \in Pages /\ b \in a + 1 .. N
    BY <1>a, NAssumption DEF Pages
  <2>2. \A p \in Pages : mapped'[p] = IF p \in Window(a, b) THEN {q} ELSE mapped[p]
    BY <1>a DEF Applied
  <2> QED  BY <1>0, <2>1, <2>2, AllocateStep
<1>b. ASSUME NEW a \in 1 .. N, NEW b \in 1 .. N, a < b, regions' = Released(regions, a, b)
      PROVE  Goal
  <2>1. a \in Pages /\ b \in a + 1 .. N
    BY <1>b, NAssumption DEF Pages
  <2>2. \A p \in Pages : PermAt(Released(regions, a, b), p) =
                             IF p \in Window(a, b) THEN {} ELSE PermAt(regions, p)
    BY <1>b, <1>w, ReleasedRange
  <2>3. \A p \in Pages : mapped'[p] = IF p \in Window(a, b) THEN {} ELSE mapped[p]
    BY <1>0, <1>b, <2>2
  <2> QED  BY <1>0, <2>1, <2>3, ReleaseStep
<1>1. ASSUME NEW a \in 1 .. N - 1, NEW n \in Sizes, a + n <= N, NEW q \in Protections,
             NEW from \in Sources, MmapFixed(a, n, q, from)
      PROVE  Goal
  <2>1. n \in Nat /\ a \in 1 .. N /\ a + n \in 1 .. N /\ a < a + n /\ q \in Perm
    BY <1>1, NAssumption, InputsAssumption DEF Perm
  <2> DEFINE cleared == Unmapped(mapped, Window(a, a + n) \cap Covered(regions))
  <2>2. CASE mapped' = Applied(cleared, Window(a, a + n), q)
    <3>1. Applied(cleared, Window(a, a + n), q) = Applied(mapped, Window(a, a + n), q)
      BY DEF Applied, Unmapped
    <3> QED  BY <1>a, <2>1, <2>2, <3>1, ZenonT(60)
  <2>3. CASE regions' = Released(regions, a, a + n)
    BY <1>b, <2>1, <2>3
  <2> QED  BY <1>1, <2>2, <2>3 DEF MmapFixed, Place
<1>2. ASSUME NEW a, NEW n \in Sizes, NEW q \in Protections, NEW from \in Sources,
             Mmap(a, n, q, from)
      PROVE  Goal
  <2>1. a \in 1 .. N - 1 /\ a + n \in 1 .. N /\ a < a + n /\ q \in Perm
    BY <1>2, NAssumption, InputsAssumption DEF Perm, Mmap, CanAllocate
  <2> QED  BY <1>2, <1>a, <2>1 DEF Mmap, Place
<1>3. ASSUME NEW a \in 1 .. N - 1, NEW n \in Sizes, a + n <= N, NEW q \in Protections,
             Mprotect(a, n, q)
      PROVE  Goal
  <2>1. a \in Pages /\ a + n \in a + 1 .. N /\ q \in Perm
    BY <1>3, NAssumption, InputsAssumption DEF Perm, Pages
  <2>2. \A p \in Pages : mapped'[p] = IF p \in Window(a, a + n) THEN {q} ELSE mapped[p]
    BY <1>3 DEF Mprotect, Applied
  <2>3. \A p \in Pages : p \in Window(a, a + n) => mapped[p] # {}
    BY <1>0, <1>3, CoveredPages DEF Mprotect
  <2> QED  BY <1>0, <2>1, <2>2, <2>3, ProtectStep, ZenonT(60)
<1>4. ASSUME NEW a \in 1 .. N - 1, NEW n \in Sizes, a + n <= N, Munmap(a, n) PROVE Goal
  <2>1. a \in 1 .. N /\ a + n \in 1 .. N /\ a < a + n
    BY <1>4, NAssumption, InputsAssumption
  <2> QED  BY <1>4, <1>b, <2>1, SMTT(60) DEF Munmap
<1>5. ASSUME NEW new \in 1 .. N, Brk(new) PROVE Goal
  <2>1. brk \in 1 .. N
    BY InvIsWf
  <2>2. CASE brk < new /\ mapped' = Applied(mapped, Window(brk, new), ReadWrite)
    <3>1. brk \in 1 .. N - 1
      BY <2>1, <2>2, NAssumption
    <3> QED  BY <1>a, <1>r, <2>2, <3>1
  <2>3. CASE new < brk /\ regions' = Released(regions, new, brk)
    BY <1>b, <2>1, <2>3
  <2> QED  BY <1>5, <2>2, <2>3 DEF Brk
<1>6. ASSUME NEW a \in 1 .. N - 1, NEW n \in Sizes, a + n <= N, NEW m \in Sizes \cup {0},
             a + m <= N, MremapInPlace(a, m, n)
      PROVE  Goal
  <2>1. m \in Nat /\ n \in Nat /\ a + m \in 1 .. N /\ a + n \in 1 .. N
    BY <1>6, NAssumption, InputsAssumption
  <2>2. CASE m < n /\ mapped' = Applied(mapped, Window(a + m, a + n), ReadWrite)
    <3>1. a + m \in 1 .. N - 1 /\ a + m < a + n
      BY <2>1, <2>2, NAssumption
    <3> QED  BY <1>a, <1>r, <2>1, <2>2, <3>1
  <2>3. CASE n < m /\ regions' = Released(regions, a + n, a + m)
    <3>1. a + n < a + m
      BY <2>1, <2>3
    <3> QED  BY <1>b, <2>1, <2>3, <3>1
  <2> QED  BY <1>6, <2>2, <2>3 DEF MremapInPlace
<1>7. ASSUME NEW a \in 1 .. N - 1, NEW n \in Sizes, a + n <= N, NEW m \in Sizes \cup {0},
             a + m <= N, MremapMove(a, m, n)
      PROVE  Goal
  <2> DEFINE to == FindFree(regions, n, MmapBase)
             grown == regions \cup {Region(to, to + n, ReadWrite)}
             rest == IF m > 0 THEN Released(grown, a, a + m) ELSE {r \in grown : r.lo # a}
  <2>1. m \in Nat /\ n \in Nat /\ m < n /\ CanAllocate(to, n)
    BY <1>7, MoveGuard, SizesInNat, ZenonT(60)
  <2>2. regions' = rest \/ mapped' = Applied(mapped, Window(to, to + n), ReadWrite)
    BY <1>7 DEF MremapMove
  <2> HIDE DEF to
  <2>3. /\ to \in 1 .. N - 1 /\ to + n \in 1 .. N /\ to < to + n
        /\ Overlapping(regions, to, to + n) = {}
    BY <2>1, NAssumption DEF CanAllocate
  <2>4. CASE mapped' = Applied(mapped, Window(to, to + n), ReadWrite)
    BY <1>a, <1>r, <2>3, <2>4
  <2>5. ASSUME regions' = rest PROVE Goal
    <3>1. grown = Fresh(regions, to, to + n)
      BY DEF Fresh
    <3>2. /\ Wf(Fresh(regions, to, to + n))
          /\ \A p \in Pages : PermAt(Fresh(regions, to, to + n), p) =
                                  IF p \in Window(to, to + n) THEN {ReadWrite} ELSE PermAt(regions, p)
      BY <1>w, <2>3, FreshRange, ZenonT(60)
    <3>3. ASSUME NEW p \in Pages, p \in Window(to, to + n) PROVE mapped[p] = {}
      <4>1. \A r \in regions : r.lo \in Nat /\ r.hi \in Nat /\ (r.hi <= to \/ to + n <= r.lo)
        BY <1>w, <2>3 DEF Wf, RegionSet, Overlapping
      <4>2. \A r \in regions : p \notin Span(r)
        BY <2>3, <3>3, <4>1 DEF Span, Window, Pages
      <4> QED  BY <1>0, <4>2 DEF PermAt
    <3>4. CASE m > 0
      <4>1. a \in 1 .. N /\ a + m \in 1 .. N /\ a < a + m /\ a \in Pages /\ a + m \in a + 1 .. N
        BY <1>7, <2>1, <3>4, NAssumption DEF Pages
      <4>2. regions' = Released(Fresh(regions, to, to + n), a, a + m)
        BY <2>5, <3>1, <3>4, ZenonT(60)
      <4>3. \A p \in Pages : PermAt(Released(Fresh(regions, to, to + n), a, a + m), p) =
                                 IF p \in Window(a, a + m) THEN {}
                                 ELSE PermAt(Fresh(regions, to, to + n), p)
        <5>1. Wf(Fresh(regions, to, to + n))
          BY <3>2
        <5> QED  BY <4>1, <5>1, ReleasedRange, ZenonT(60)
      <4>4. \A p \in Pages : mapped'[p] = IF p \in Window(a, a + m) THEN {}
                                          ELSE IF p \in Window(to, to + n) THEN {ReadWrite} ELSE mapped[p]
        BY <1>0, <3>2, <4>2, <4>3
      \* where the new mapping starts to be left when it starts in the old range
      <4> DEFINE c == IF to \in Window(a, a + m) THEN a + m ELSE to
      <4>5. /\ c \in Pages /\ to + n \in c + 1 .. N /\ c \notin Window(a, a + m)
            /\ Window(c, to + n) \subseteq Window(to, to + n)
            /\ \A p \in Pages : p \in Window(to, to + n) => p \in Window(c, to + n) \/ p \in Window(a, a + m)
        BY <1>7, <2>1, <2>3, <4>1, NAssumption DEF Pages, Window
      <4> HIDE DEF c
      <4>6. \A p \in Pages : mapped'[p] = IF p \in Window(a, a + m) THEN {}
                                          ELSE IF p \in Window(c, to + n) THEN {ReadWrite} ELSE mapped[p]
        BY <4>4, <4>5, ZenonT(60)
      <4>7. \A p \in Pages : p \in Window(c, to + n) => mapped[p] = {}
        BY <3>3, <4>5
      <4>8. mapped \in Maps /\ mapped' \in Maps
        BY <1>0
      <4>9. Moved(mapped, mapped', a, a + m, c, to + n, ReadWrite)
        BY <4>5, <4>6, <4>7 DEF Moved
      <4>10. a \in Pages /\ a + m \in a + 1 .. N /\ c \in Pages /\ to + n \in c + 1 .. N
        BY <4>1, <4>5
      <4> QED  BY <1>r, <4>8, <4>9, <4>10, MoveStep
    <3>5. CASE ~ (m > 0)
      <4>1. regions' = {r \in grown : r.lo # a}
        BY <2>5, <3>5
      <4> DEFINE new == Region(to, to + n, ReadWrite)
      <4>2. new.lo = to /\ new.hi = to + n /\ new.perm = ReadWrite
        BY DEF Region
      <4>3. Overlapping(regions, a, a + n) # {}
        <5>1. m = 0 /\ a + m = a
          BY <2>1, <3>5
        <5> QED  BY <1>7, <5>1, MoveGuard, ZenonT(60)
      <4>4. to # a
        BY <2>3, <4>3
      <4>5. CASE \A r \in regions : r.lo # a
        <5>1. regions' = Fresh(regions, to, to + n)
          BY <3>1, <4>1, <4>2, <4>4, <4>5
        <5>2. \A p \in Pages : mapped'[p] = IF p \in Window(to, to + n) THEN {ReadWrite} ELSE mapped[p]
          BY <1>0, <3>2, <5>1
        <5>3. to \in Pages /\ to + n \in to + 1 .. N
          BY <2>3, NAssumption DEF Pages
        <5>4. mapped \in Maps /\ mapped' \in Maps
          BY <1>0
        <5> QED  BY <1>r, <5>2, <5>3, <5>4, AllocateStep
      <4>6. ASSUME NEW r \in regions, r.lo = a PROVE Goal
        <5>1. /\ r.hi \in 1 .. N /\ a < r.hi /\ a \in Pages /\ r.hi \in a + 1 .. N
              /\ Span(r) = Window(a, r.hi)
          BY <1>w, <4>6, NAssumption DEF Wf, RegionSet, Pages, Span, Window
        <5>2. to \in Pages /\ to + n \in to + 1 .. N /\ to \notin Window(a, r.hi)
          <6>1. r.hi <= to \/ to + n <= a
            BY <1>w, <2>3, <4>6, <5>1 DEF Overlapping
          <6> QED  BY <2>1, <2>3, <5>1, <6>1, NAssumption DEF Pages, Window
        <5>3. Wf(grown) /\ Wf(regions')
          BY <3>1, <3>2, <4>1, FewerRegions
        <5>4. \A s \in regions : s.lo = a => s = r
          <6>1. \A s \in regions : s # r => s.hi <= r.lo \/ r.hi <= s.lo
            BY <1>w, WfApart, SMTT(60) DEF Wf
          <6>2. \A s \in regions : s.lo \in Nat /\ s.hi \in Nat /\ s.lo < s.hi
            BY <1>w DEF Wf, RegionSet
          <6> QED  BY <4>6, <6>1, <6>2
        <5>5. regions' = grown \ {r} /\ r \in grown
          BY <4>1, <4>2, <4>4, <4>6, <5>4
        <5>6. ASSUME NEW p \in Pages
              PROVE  PermAt(regions', p) = IF p \in Window(a, r.hi) THEN {} ELSE PermAt(grown, p)
          <6> HIDE DEF grown
          <6>1. CASE p \in Window(a, r.hi)
            <7>1. \A s \in grown : s # r => p \notin Span(s)
              BY <5>1, <5>3, <5>5, <6>1 DEF Wf
            <7> QED  BY <5>5, <6>1, <7>1 DEF PermAt
          <6>2. CASE p \notin Window(a, r.hi)
            BY <5>1, <5>5, <6>2 DEF PermAt
          <6> QED  BY <6>1, <6>2
        <5>7. \A p \in Pages : mapped'[p] = IF p \in Window(a, r.hi) THEN {}
                                            ELSE IF p \in Window(to, to + n) THEN {ReadWrite} ELSE mapped[p]
          BY <1>0, <3>1, <3>2, <5>6, ZenonT(60)
        <5>8. \A p \in Pages : p \in Window(to, to + n) => mapped[p] = {}
          BY <3>3
        <5>9. mapped \in Maps /\ mapped' \in Maps
          BY <1>0
        <5>10. a \in Pages /\ r.hi \in a + 1 .. N /\ to \in Pages /\ to + n \in to + 1 .. N
          BY <5>1, <5>2
        <5> HIDE DEF grown, rest, new
        <5>11. Moved(mapped, mapped', a, r.hi, to, to + n, ReadWrite)
          BY <5>2, <5>7, <5>8, ZenonT(60) DEF Moved
        <5> QED  BY <1>r, <5>9, <5>10, <5>11, MoveStep
      <4> HIDE DEF Goal
      <4> QED  BY <4>5, <4>6
    <3> QED  BY <3>4, <3>5
  <2> QED  BY <2>2, <2>4, <2>5
<1>8. ASSUME NEW a \in 1 .. N - 1, NEW n \in Sizes, Madvise(a, n) PROVE Goal
  BY <1>8 DEF Madvise
<1>9. ASSUME NEW p \in Pages, NEW v \in Values, Write(p, v) PROVE Goal
  BY <1>9 DEF Write
<1> HIDE DEF Goal
<1>10. Goal
  BY <1>1, <1>2, <1>3, <1>4, <1>5, <1>6, <1>7, <1>8, <1>9 DEF Next, MmapNoReplace, MmapAnywhere
<1> QED  BY <1>10 DEF Goal

\* linux_memory_manager and the system calls on it implement the abstract
\* address space, however large it is: splitting regions, carving holes into
\* them and moving them is never visible to the guest beyond the pages that the
\* call is about.
THEOREM Refinement == Spec => ImplementsAddressSpace
<1>1. Init => AS!Init
  BY NAssumption, ZenonT(60) DEF Init, AS!Init, Space, PermAt, AS!Free, AS!Pages, Pages
<1>2. ASSUME IInv, IInv', [Next]_vars PROVE [AS!Next]_Space
  <2>1. Space = SpaceOf(mapped) /\ Space' = SpaceOf(mapped')
    <3>1. Space = SpaceOf(mapped)
      BY <1>2, SpaceIsMapped
    <3>2. (IInv => Space = SpaceOf(mapped))'
      BY SpaceIsMapped, PTL
    <3> QED  BY <1>2, <3>1, <3>2 DEF SpaceOf
  <2>2. CASE UNCHANGED mapped
    BY <2>1, <2>2
  <2>3. CASE AS!Step(SpaceOf(mapped), SpaceOf(mapped'))
    BY <2>1, <2>3 DEF AS!Next
  <2>4. CASE UNCHANGED vars
    BY <2>2, <2>4 DEF vars
  <2> QED  BY <1>2, <2>2, <2>3, <2>4, NextStep
<1>3. Spec => []IInv
  BY Agreement, PTL DEF IInv
<1> QED  BY <1>1, <1>2, <1>3, PTL DEF Spec, ImplementsAddressSpace, AS!Spec

-----------------------------------------------------------------------------
(* What a moved mapping holds.                                             *)

\* mremap copies a mapping to pages that were free, and releases nothing of
\* what it copied to.
LEMMA CopyStep ==
    ASSUME IInv, NEW a \in 1 .. N - 1, NEW m \in Sizes, NEW n \in Sizes, a + m <= N,
           Window(a, a + m) \subseteq Covered(regions), MremapMove(a, m, n)
    PROVE  \E to \in 1 .. N - m : \A i \in 0 .. m - 1 :
               /\ mapped[to + i] = {} /\ mapped'[to + i] # {}
               /\ content'[to + i] = content[a + i]
<1> DEFINE to == FindFree(regions, n, MmapBase)
           grown == Fresh(regions, to, to + n)
           fresh == Filled(content, Window(to, to + n), Zero)
           rest == Released(grown, a, a + m)
           gone == Covered(grown) \ Covered(rest)
<1>1. m \in Nat /\ m > 0 /\ n \in Nat /\ m < n /\ CanAllocate(to, n)
  BY MoveGuard, SizesInNat, ZenonT(60)
<1>2. Window(a, a + m) \subseteq Covered(grown) =>
         /\ mapped' = Unmapped(Applied(mapped, Window(to, to + n), ReadWrite), gone)
         /\ content' = Filled(Copied(fresh, a, to, m), gone, Zero)
  BY <1>1, ZenonT(60) DEF MremapMove, Fresh
<1>a. \A p \in Covered(regions) : p \in Covered(grown)
  BY DEF Covered, Fresh
<1> HIDE DEF to
<1>3. /\ to \in 1 .. N - 1 /\ to + n \in 1 .. N /\ to < to + n
      /\ Overlapping(regions, to, to + n) = {}
  BY <1>1, NAssumption, SMTT(60) DEF CanAllocate
<1>4. Wf(regions) /\ mapped = PageMap(regions)
  BY InvIsWf
<1>5. /\ Wf(grown)
      /\ \A p \in Pages : PermAt(grown, p) =
                              IF p \in Window(to, to + n) THEN {ReadWrite} ELSE PermAt(regions, p)
  BY <1>3, <1>4, FreshRange, ZenonT(60)
<1>6. \A p \in Pages : PermAt(rest, p) = IF p \in Window(a, a + m) THEN {} ELSE PermAt(grown, p)
  <2>1. a \in 1 .. N /\ a + m \in 1 .. N /\ a < a + m
    BY <1>1, NAssumption
  <2> HIDE DEF grown
  <2> QED  BY <1>5, <2>1, ReleasedRange, ZenonT(60)
<1>7. \A p \in Window(to, to + n) : p \notin Covered(regions)
  <2>1. ASSUME NEW p \in Window(to, to + n), NEW r \in regions, p \in Span(r) PROVE FALSE
    <3>1. r.lo \in Int /\ r.hi \in Int
      BY <1>4 DEF Wf, RegionSet
    <3>2. p \in Int /\ r.lo <= p /\ p < r.hi /\ to <= p /\ p < to + n
      BY <1>1, <1>3, <2>1, <3>1 DEF Span, Window
    <3>3. r.lo < to + n /\ to < r.hi
      BY <1>1, <1>3, <3>1, <3>2
    <3> QED  BY <1>3, <3>3 DEF Overlapping
  <2> QED  BY <2>1, ZenonT(60) DEF Covered
<1>8. /\ mapped' = Unmapped(Applied(mapped, Window(to, to + n), ReadWrite), gone)
      /\ content' = Filled(Copied(fresh, a, to, m), gone, Zero)
  BY <1>2, <1>a
<1>9. ASSUME NEW i \in 0 .. m - 1
      PROVE  /\ mapped[to + i] = {} /\ mapped'[to + i] # {}
             /\ content'[to + i] = content[a + i]
  <2> DEFINE p == to + i
             s == a + i
  <2>1. /\ p \in Pages /\ p \in Window(to, to + n) /\ p \in Window(to, to + m)
        /\ s \in Pages /\ s \in Window(a, a + m) /\ a + (p - to) = s
    BY <1>1, <1>3, NAssumption, SMTT(60) DEF Pages, Window
  <2> HIDE DEF p, s
  <2>2. p \notin Covered(regions)
    BY <1>7, <2>1, ZenonT(60)
  <2>3. mapped[p] = {}
    BY <1>4, <2>1, <2>2, CoveredPages DEF PageMap
  <2>4. p \notin Window(a, a + m)
    BY <2>2
  <2>5. PermAt(grown, p) = {ReadWrite}
    BY <1>5, <2>1, ZenonT(60)
  <2>6. PermAt(rest, p) = PermAt(grown, p)
    BY <1>6, <2>1, <2>4, ZenonT(60)
  <2>7. p \notin gone
    <3> HIDE DEF grown, rest
    <3>1. p \in Covered(rest)
      BY <2>5, <2>6, CoveredPages
    <3> QED  BY <3>1
  <2> HIDE DEF gone, fresh
  <2>8. mapped'[p] = {ReadWrite}
    BY <1>8, <2>1, <2>7, ZenonT(60) DEF Unmapped, Applied
  <2>9. s \notin Window(to, to + n)
    BY <1>7, <2>1
  <2>10. content'[p] = fresh[s]
    BY <1>8, <2>1, <2>7, ZenonT(60) DEF Filled, Copied
  <2>11. fresh[s] = content[s]
    BY <2>1, <2>9, ZenonT(60) DEF fresh, Filled
  <2> QED  BY <2>3, <2>8, <2>10, <2>11, ZenonT(60) DEF p, s
<1>10. to \in 1 .. N - m
  BY <1>1, <1>3, NAssumption DEF CanAllocate
<1> QED  BY <1>9, <1>10, ZenonT(60)

\* However large the address space is, and whatever was mapped, unmapped and
\* moved before, a mapping that mremap moves keeps what it held.
THEOREM MovesKeepContents == Spec => MoveKeepsContents
<1>1. IInv /\ [Next]_vars =>
        [\A a \in 1 .. N - 1, m, n \in Sizes :
            a + m <= N /\ Window(a, a + m) \subseteq Covered(regions) /\ MremapMove(a, m, n) =>
                \E to \in 1 .. N - m : \A i \in 0 .. m - 1 :
                    /\ mapped[to + i] = {} /\ mapped'[to + i] # {}
                    /\ content'[to + i] = content[a + i]]_vars
  BY CopyStep, ZenonT(60)
<1>2. Spec => []IInv
  BY Agreement, PTL DEF IInv
<1> QED  BY <1>1, <1>2, PTL DEF Spec, MoveKeepsContents
=============================================================================
