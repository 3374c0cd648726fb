------------------------- MODULE RestoreVmasProofs -------------------------
(***************************************************************************)
(* Proofs about restore_vmas (memory.c:559-650) for every number of pages  *)
(* and every pair of layouts.  The argument has three layers: the list of  *)
(* vm_area_structs stays well formed and the two iterators stay behind     *)
(* what they have passed (TypeInv); nothing from the iterator on was       *)
(* mapped by the loop itself, so no merge frees what it points to          *)
(* (AheadOK); and the pages below the cursor are as they have to be, the   *)
(* ones above it as they were (TowardsOK, KindsOK).                        *)
(***************************************************************************)
EXTENDS RestoreVmas, TLAPS, FiniteSetTheorems

-----------------------------------------------------------------------------
(* The inductive invariant. *)

VmaType == [id : Ids, start : Page, end : 1 .. Top, kind : MappedKinds]

\* What a list of vm_area_structs is: disjoint, with distinct identities.
WellFormed(m) ==
  /\ m \subseteq VmaType
  /\ \A v \in m : v.start < v.end
  /\ \A u, v \in m : u # v => u.id # v.id /\ (u.end <= v.start \/ v.end <= u.start)

\* Where the iterator is: outside a mapping it is at the first one that the
\* cursor has not passed; inside, the cursor is in it, or, after it was cut,
\* behind its end with the snapshot's mapping still open.
IterOK ==
  /\ vma_iter = NULL => ~in_vmas /\ \A v \in mm : v.end <= cursor
  /\ \A w \in mm : w.id = vma_iter =>
       IF in_vmas THEN w.start <= cursor /\ (cursor <= w.end \/ in_ss_vmas)
       ELSE cursor <= w.start /\ \A v \in mm : v.end <= cursor \/ w.start <= v.start

\* The same of the snapshot's list, which does not change.
SsOK ==
  /\ AtHead => ~in_ss_vmas
  /\ \A i \in all_vmas : i.start = ss_vma_iter => cursor <= IF in_ss_vmas THEN i.end ELSE i.start

TypeInv ==
  /\ TypeOK
  /\ WellFormed(mm)
  /\ all_vmas = Intervals(snap)
  /\ IterOK
  /\ SsOK

\* On a first restore the iterator is alive and nothing from it on was mapped by
\* the loop: what vm_mmap merges with lies behind it.
AheadOK ==
  FirstRestore =>
    /\ IteratorLive
    /\ \A w, v \in mm : w.id = vma_iter /\ w.start <= v.start => v.kind # "rwx"

\* Between two mappings of the snapshot the iterator is at the next one; inside
\* one the cursor has not reached its end.
SsFlagOK ==
  /\ \A i \in all_vmas : in_ss_vmas /\ i.start = ss_vma_iter => cursor < i.end
  /\ ~in_ss_vmas => \A i \in all_vmas : i.end <= cursor \/ ss_vma_iter <= i.start

\* From the iterator on a mapping is part of one the process had before; only the
\* iterator's own may begin earlier, where vm_mmap merged into it.
PartOK ==
  \A w, v \in mm : w.id = vma_iter /\ w.start <= v.start =>
    \E i \in Intervals(before) :
      /\ v.end <= i.end /\ v.kind = before[i.start]
      /\ i.start <= v.start \/ (v = w /\ in_vmas /\ v.kind = "rwx" /\ i.start <= cursor)

\* Inside a mapping, past its start and outside the snapshot's, the cursor is where
\* one of the snapshot's mappings ended.
EdgeOK ==
  \A w \in mm : w.id = vma_iter /\ in_vmas /\ ~in_ss_vmas /\ w.start < cursor =>
    snap[cursor - 1] # "none"

\* The cursor goes back only over pages that were mapped with all permissions:
\* behind the end of a mapping that was cut, and then before the start of the
\* snapshot's mapping it had entered.
CutOK ==
  \A w \in mm : w.id = vma_iter /\ in_vmas /\ w.end <= cursor =>
    in_ss_vmas /\ cursor = ss_vma_iter /\ \A p \in w.end .. cursor - 1 : before[p] = "rwx"

BackOK ==
  \A i \in all_vmas : in_ss_vmas /\ i.start = ss_vma_iter =>
    \A p \in cursor .. i.start - 1 : before[p] = "rwx"

PathOK == PartOK /\ EdgeOK /\ CutOK /\ BackOK

TowardsOK ==
  /\ SsFlagOK
  /\ ~Merged => PathOK
  /\ OnlyTowardsSnapshot

\* On a first restore the cursor never goes back: below it the pages are as they
\* have to be, from it on as they were.
KindsOK ==
  FirstRestore /\ ~Merged =>
    \A p \in Page : KindAt(p) = IF p < cursor THEN Target(p) ELSE before[p]

DoneOK == pc = "done" /\ ~gave_up => vma_iter = NULL /\ AtHead

-----------------------------------------------------------------------------
(* Least and greatest elements. *)

LEMMA LeastExists ==
  ASSUME NEW S \in SUBSET Nat, S # {}
  PROVE  \E x \in S : \A y \in S : x <= y
<1> DEFINE R == OpToRel(<, Nat)
<1>1. \A x, y \in Nat : <<y, x>> \in R <=> y < x
  BY DEF OpToRel
<1>2. IsWellFoundedOn(R, Nat)
  BY NatLessThanWellFounded
<1> HIDE DEF R
<1>3. PICK x \in S : \A y \in S : ~(<<y, x>> \in R)
  BY <1>2, WFMin
<1>4. \A y \in S : ~(y < x)
  BY <1>1, <1>3
<1>5. QED
  BY <1>4

LEMMA GreatestExists ==
  ASSUME NEW b \in Nat, NEW S \in SUBSET (0 .. b), S # {}
  PROVE  \E x \in S : \A y \in S : y <= x
<1> DEFINE R == {n \in 0 .. b : b - n \in S}
<1>1. R \in SUBSET Nat
  OBVIOUS
<1>2. PICK s : s \in S
  OBVIOUS
<1>3. s \in Nat /\ s <= b /\ b - s \in 0 .. b /\ b - (b - s) = s
  BY <1>2
<1>4. b - s \in R
  BY <1>2, <1>3
<1>5. PICK x \in R : \A y \in R : x <= y
  BY <1>1, <1>4, LeastExists
<1>6. ASSUME NEW y \in S PROVE y <= b - x
  <2>1. y \in 0 .. b /\ b - y \in 0 .. b /\ b - (b - y) = y
    OBVIOUS
  <2>2. b - y \in R
    BY <2>1
  <2>3. x <= b - y
    BY <2>2, <1>5
  <2>4. QED
    BY <2>1, <2>3, <1>5
<1>7. QED
  BY <1>5, <1>6

\* First picks an element with the least start.
LEMMA FirstFacts ==
  ASSUME NEW S, S # {}, \A v \in S : v.start \in Nat
  PROVE  First(S) \in S /\ \A u \in S : First(S).start <= u.start
<1> DEFINE Starts == {v.start : v \in S}
<1>1. Starts \in SUBSET Nat /\ Starts # {}
  OBVIOUS
<1>2. PICK x \in Starts : \A y \in Starts : x <= y
  BY <1>1, LeastExists
<1>3. \E v \in S : \A u \in S : v.start <= u.start
  BY <1>2
<1>4. QED
  BY <1>3 DEF First

-----------------------------------------------------------------------------
(* The mappings of a layout. *)

LEMMA IntervalShape ==
  ASSUME NEW l, NEW i \in Intervals(l)
  PROVE  /\ i.start \in 0 .. Top - 1 /\ i.end \in 1 .. Top /\ i.start < i.end
         /\ l[i.start] # "none"
         /\ \A p \in i.start .. i.end - 1 : l[p] = l[i.start]
         /\ i.start > 0 => l[i.start - 1] # l[i.start]
         /\ i.end < Top => l[i.end] # l[i.start]
         /\ i = [start |-> i.start, end |-> i.end]
BY DEF Intervals, Page

\* Two mappings of a layout are disjoint.
LEMMA IntervalsDisjoint ==
  ASSUME NEW l, NEW i \in Intervals(l), NEW j \in Intervals(l), i # j
  PROVE  i.end <= j.start \/ j.end <= i.start
<1>0. Top \in Nat \ {0}
  BY RestoreVmasAssumption
<1>1. SUFFICES ASSUME j.start < i.end, i.start < j.end PROVE FALSE
  BY <1>0, IntervalShape
<1>2. ASSUME NEW a \in Intervals(l), NEW b \in Intervals(l), a.start < b.start, b.start < a.end
      PROVE  FALSE
  <2>1. b.start > 0 /\ b.start - 1 \in a.start .. a.end - 1 /\ b.start \in a.start .. a.end - 1
    BY <1>0, <1>2, IntervalShape
  <2>2. l[b.start - 1] = l[a.start] /\ l[b.start] = l[a.start]
    BY <2>1, IntervalShape
  <2>3. QED
    BY <2>1, <2>2, IntervalShape
<1>3. i.start = j.start
  BY <1>0, <1>1, <1>2, IntervalShape
<1>4. ASSUME NEW a \in Intervals(l), NEW b \in Intervals(l), a.start = b.start, a.end < b.end
      PROVE  FALSE
  <2>1. a.end < Top /\ a.end \in b.start .. b.end - 1
    BY <1>0, <1>4, IntervalShape
  <2>2. l[a.end] = l[b.start]
    BY <2>1, IntervalShape
  <2>3. QED
    BY <2>1, <2>2, <1>4, IntervalShape
<1>5. i.end = j.end
  BY <1>0, <1>3, <1>4, IntervalShape
<1>6. QED
  BY <1>3, <1>5, IntervalShape

\* Every mapped page is in a mapping: from the last change of kind up to the page
\* to the first one after it.
LEMMA IntervalCovers ==
  ASSUME NEW l, NEW p \in Page, l[p] # "none"
  PROVE  \E i \in Intervals(l) : i.start <= p /\ p < i.end
<1>0. Top \in Nat \ {0} /\ p \in Nat /\ p < Top
  BY RestoreVmasAssumption DEF Page
<1> DEFINE E == {e \in p + 1 .. Top : e = Top \/ l[e] # l[p]}
           B == {s \in 0 .. p : s = 0 \/ l[s - 1] # l[p]}
<1>1. PICK e \in E : \A y \in E : e <= y
  <2>1. E \in SUBSET Nat /\ Top \in E
    BY <1>0
  <2>2. QED
    BY <2>1, LeastExists
<1>2. PICK s \in B : \A y \in B : y <= s
  <2>1. B \in SUBSET (0 .. p) /\ 0 \in B
    BY <1>0
  <2> HIDE DEF B
  <2>2. QED
    BY <2>1, <1>0, GreatestExists
<1>3. e \in p + 1 .. Top /\ (e < Top => l[e] # l[p])
  BY <1>0, <1>1
<1>4. s \in 0 .. p /\ (s > 0 => l[s - 1] # l[p])
  BY <1>0, <1>2
<1>5. \A q \in p .. e - 1 : l[q] = l[p]
  <2>1. SUFFICES ASSUME NEW q \in p .. e - 1, l[q] # l[p] PROVE FALSE
    OBVIOUS
  <2>2. q # p
    BY <2>1
  <2>3. q \in p + 1 .. Top /\ q < e
    BY <1>0, <1>3, <2>1, <2>2
  <2>4. q \in E
    BY <2>1, <2>3
  <2>5. QED
    BY <1>1, <2>3, <2>4, <1>3, <1>0
<1>6. \A q \in s .. p : l[q] = l[p]
  <2>1. SUFFICES ASSUME NEW q \in s .. p, l[q] # l[p] PROVE FALSE
    OBVIOUS
  <2>2. q # p
    BY <2>1
  <2>3. q + 1 \in 0 .. p /\ s < q + 1 /\ (q + 1) - 1 = q
    BY <1>0, <1>4, <2>1, <2>2
  <2>4. q + 1 \in B
    BY <2>1, <2>3
  <2>5. q + 1 <= s
    BY <1>2, <2>4
  <2>6. QED
    BY <2>5, <2>3, <1>4, <1>0
<1> HIDE DEF E, B
<1> DEFINE i == [start |-> s, end |-> e]
<1>7. s \in 0 .. Top - 1 /\ e \in 1 .. Top /\ s < e /\ s <= p /\ p < e /\ s \in s .. p
  BY <1>0, <1>3, <1>4
<1>8. l[s] = l[p]
  BY <1>6, <1>7
<1>9. \A q \in s .. e - 1 : l[q] = l[s]
  <2>1. TAKE q \in s .. e - 1
  <2>2. q \in s .. p \/ q \in p .. e - 1
    BY <1>0, <1>3, <1>4
  <2>3. QED
    BY <2>2, <1>5, <1>6, <1>8
<1>10. i \in [start : Page, end : 1 .. Top] /\ i.start = s /\ i.end = e
  BY <1>7 DEF Page
<1> HIDE DEF i
<1>11. i \in Intervals(l)
  BY <1>10, <1>7, <1>8, <1>9, <1>3, <1>4 DEF Intervals
<1>12. QED
  BY <1>11, <1>10, <1>7

\* The mapping that holds a page is of the page's kind.
LEMMA IntervalInside ==
  ASSUME NEW l, NEW i \in Intervals(l), NEW p \in Int, i.start <= p, p < i.end
  PROVE  p \in Page /\ l[p] = l[i.start] /\ l[p] # "none"
<1>1. Top \in Nat
  BY RestoreVmasAssumption
<1>2. p \in i.start .. i.end - 1 /\ p \in Page
  BY <1>1, IntervalShape DEF Page
<1>3. QED
  BY <1>2, IntervalShape

-----------------------------------------------------------------------------
(* The list of vm_area_structs. *)

LEMMA VmaShape ==
  ASSUME NEW m, WellFormed(m), NEW v \in m
  PROVE  /\ v.id \in 1 .. 2 * Top + 1 /\ v.start \in 0 .. Top - 1 /\ v.end \in 1 .. Top
         /\ v.kind \in MappedKinds /\ v.kind # "none" /\ v.start < v.end /\ v.id # NULL
         /\ v = [id |-> v.id, start |-> v.start, end |-> v.end, kind |-> v.kind]
<1>1. v \in VmaType /\ v.start < v.end /\ Top \in Nat
  BY RestoreVmasAssumption DEF WellFormed
<1>2. QED
  BY <1>1 DEF VmaType, Ids, Page, NULL, MappedKinds

LEMMA VmaApart ==
  ASSUME NEW m, WellFormed(m), NEW u \in m, NEW v \in m
  PROVE  /\ u.id = v.id => u = v
         /\ u # v => u.end <= v.start \/ v.end <= u.start
BY DEF WellFormed

\* There are more identities than mappings: one is free for the kernel to use.
LEMMA FreshFacts ==
  ASSUME NEW m, WellFormed(m)
  PROVE  FreshId(m) \in Ids /\ \A v \in m : v.id # FreshId(m)
<1>0. Top \in Nat \ {0}
  BY RestoreVmasAssumption
<1> DEFINE S == Top + 1 .. 2 * Top + 1
           T == 0 .. Top - 1
<1>1. SUFFICES ASSUME \A i \in S : \E v \in m : v.id = i PROVE FALSE
  <2>1. SUFFICES \E i \in Ids : i > Top /\ \A v \in m : v.id # i
    BY DEF FreshId
  <2>2. PICK i \in S : \A v \in m : v.id # i
    BY <1>1
  <2>3. i \in Ids /\ i > Top
    BY <1>0 DEF Ids
  <2>4. QED
    BY <2>2, <2>3
<1> DEFINE f == [i \in S |-> (CHOOSE v \in m : v.id = i).start]
<1>2. \A i \in S : \E v \in m : v.id = i /\ f[i] = v.start /\ v.start \in T
  BY <1>1, VmaShape
<1>3. f \in [S -> T]
  BY <1>2
<1>4. IsFiniteSet(S) /\ IsFiniteSet(T) /\ Cardinality(T) < Cardinality(S)
  <2>1. Cardinality(S) = 2 * Top + 1 - (Top + 1) + 1 /\ IsFiniteSet(S)
    BY <1>0, FS_Interval
  <2>2. Cardinality(T) = Top - 1 - 0 + 1 /\ IsFiniteSet(T)
    BY <1>0, FS_Interval
  <2>3. QED
    BY <1>0, <2>1, <2>2
<1> HIDE DEF f, S, T
<1>5. PICK x, y \in S : x # y /\ f[x] = f[y]
  BY <1>3, <1>4, FS_PigeonHole
<1>6. PICK u \in m : u.id = x /\ f[x] = u.start
  BY <1>2, <1>5
<1>7. PICK v \in m : v.id = y /\ f[y] = v.start
  BY <1>2, <1>5
<1>8. u # v /\ u.start = v.start
  BY <1>5, <1>6, <1>7
<1>9. u.end <= v.start \/ v.end <= u.start
  BY <1>8, VmaApart
<1>10. QED
  BY <1>0, <1>8, <1>9, VmaShape

\* What vm_munmap leaves of a mapping around [s, e).
LowerPart(w, s) == [id |-> w.id, start |-> w.start, end |-> s, kind |-> w.kind]
UpperPart(m, w, s, e) ==
  [id |-> IF w.start < s THEN FreshId(m) ELSE w.id, start |-> e, end |-> w.end, kind |-> w.kind]
Rest(m, w, s, e) ==
  (IF w.start < s THEN {LowerPart(w, s)} ELSE {}) \cup
  (IF w.end > e THEN {UpperPart(m, w, s, e)} ELSE {})

\* vm_munmap of a part of one mapping changes that mapping only.
LEMMA MunmappedIs ==
  ASSUME NEW m, WellFormed(m), NEW w \in m, NEW s \in Int, NEW e \in Int,
         w.start <= s, s < e, e <= w.end
  PROVE  Munmapped(m, s, e) = (m \ {w}) \cup Rest(m, w, s, e)
<1>0. Top \in Nat \ {0}
  BY RestoreVmasAssumption
<1> DEFINE Lower(v) == IF v.start < s THEN {[v EXCEPT !.end = s]} ELSE {}
           Upper(v) == IF v.end > e
                       THEN {[v EXCEPT !.start = e, !.id = IF v.start < s THEN FreshId(m) ELSE @]}
                       ELSE {}
           F(v) == IF v.start < e /\ s < v.end THEN Lower(v) \cup Upper(v) ELSE {v}
<1>1. Munmapped(m, s, e) = UNION {F(v) : v \in m}
  BY DEF Munmapped
<1>2. \A v \in m : v # w => F(v) = {v}
  <2>1. TAKE v \in m
  <2>2. HAVE v # w
  <2>3. v.end <= w.start \/ w.end <= v.start
    BY <2>2, VmaApart
  <2>4. ~(v.start < e /\ s < v.end)
    BY <1>0, <2>3, VmaShape
  <2>5. QED
    BY <2>4
<1>3. F(w) = Rest(m, w, s, e)
  <2>1. w.start < e /\ s < w.end
    BY <1>0, VmaShape
  <2>2. w = [id |-> w.id, start |-> w.start, end |-> w.end, kind |-> w.kind]
    BY VmaShape
  <2>3. [w EXCEPT !.end = s] = LowerPart(w, s)
    BY <2>2 DEF LowerPart
  <2>4. [w EXCEPT !.start = e, !.id = IF w.start < s THEN FreshId(m) ELSE @] = UpperPart(m, w, s, e)
    <3>1. PICK j : j = IF w.start < s THEN FreshId(m) ELSE w.id
      OBVIOUS
    <3>2. [w EXCEPT !.start = e, !.id = j] = [id |-> j, start |-> e, end |-> w.end, kind |-> w.kind]
      <4>1. PICK u : u = [w EXCEPT !.start = e]
        OBVIOUS
      <4>2. [w EXCEPT !.start = e, !.id = j] = [[w EXCEPT !.start = e] EXCEPT !.id = j]
        OBVIOUS
      <4>3. u = [id |-> w.id, start |-> e, end |-> w.end, kind |-> w.kind]
        BY <2>2, <4>1
      <4>4. [u EXCEPT !.id = j] = [id |-> j, start |-> e, end |-> w.end, kind |-> w.kind]
        BY <4>3
      <4>5. QED
        BY <4>1, <4>2, <4>4
    <3>3. QED
      BY <3>1, <3>2 DEF UpperPart
  <2>5. QED
    BY <2>1, <2>3, <2>4 DEF Rest
<1> HIDE DEF F
<1>4. QED
  BY <1>1, <1>2, <1>3

LEMMA MunmappedOK ==
  ASSUME NEW m, WellFormed(m), NEW w \in m, NEW s \in Int, NEW e \in Int,
         w.start <= s, s < e, e <= w.end
  PROVE  WellFormed(Munmapped(m, s, e))
<1>0. Top \in Nat \ {0}
  BY RestoreVmasAssumption
<1> DEFINE lo == LowerPart(w, s)
           up == UpperPart(m, w, s, e)
           R  == Munmapped(m, s, e)
<1>1. /\ w.id \in Ids /\ w.start \in 0 .. Top - 1 /\ w.end \in 1 .. Top /\ w.kind \in MappedKinds
      /\ w.start < w.end
  BY VmaShape DEF Ids
<1>2. FreshId(m) \in Ids /\ \A v \in m : v.id # FreshId(m)
  BY FreshFacts
<1>3. w.start < s => lo \in VmaType /\ lo.start < lo.end
  BY <1>0, <1>1 DEF LowerPart, VmaType, Page
<1>4. w.end > e => up \in VmaType /\ up.start < up.end
  BY <1>0, <1>1, <1>2 DEF UpperPart, VmaType, Page
<1>5. /\ lo.id = w.id /\ lo.start = w.start /\ lo.end = s
      /\ up.id = (IF w.start < s THEN FreshId(m) ELSE w.id) /\ up.start = e /\ up.end = w.end
  BY DEF LowerPart, UpperPart
<1>6. \A v \in R : \/ v \in m /\ v # w
                   \/ v = lo /\ w.start < s
                   \/ v = up /\ w.end > e
  BY MunmappedIs DEF Rest
<1>7. \A v \in m : v # w => v.id # w.id /\ (v.end <= w.start \/ w.end <= v.start)
  BY VmaApart
<1>8. \A v \in m : v \in VmaType /\ v.start < v.end /\ v.start \in Int /\ v.end \in Int
  BY VmaShape DEF WellFormed
<1> HIDE DEF lo, up, R
<1>9. \A v \in R : v \in VmaType /\ v.start < v.end
  BY <1>3, <1>4, <1>6, <1>8
<1>10. ASSUME NEW u \in R, NEW v \in R, u # v
       PROVE  u.id # v.id /\ (u.end <= v.start \/ v.end <= u.start)
  <2>1. \A x \in m : x # w => /\ x.id # lo.id /\ x.id # up.id
                              /\ x.end <= lo.start \/ s < x.start
                              /\ x.end < e \/ up.end <= x.start
    BY <1>0, <1>1, <1>2, <1>5, <1>7, <1>8
  <2>2. w.start < s => lo.id # up.id /\ lo.end <= up.start
    BY <1>2, <1>5
  <2>3. \A x, y \in m : x # y => x.id # y.id /\ (x.end <= y.start \/ y.end <= x.start)
    BY VmaApart
  <2>4. QED
    BY <1>0, <1>1, <1>5, <1>6, <1>8, <1>10, <2>1, <2>2, <2>3
<1>11. QED
  BY <1>9, <1>10 DEF WellFormed, R

\* What vm_mmap of a free [s, e) does: it replaces the neighbours it merges with,
\* mappings with all permissions that end at s or begin at e, by one mapping.
MappedAs(m, s, e, P, n, R) ==
  /\ R = (m \ P) \cup {n}
  /\ P \subseteq m
  /\ n \in VmaType /\ n.kind = "rwx" /\ n.start <= s /\ e <= n.end
  /\ \A v \in P : /\ v.kind = "rwx" /\ n.start <= v.start /\ v.end <= n.end
                  /\ v.end = s \/ v.start = e
  /\ n.start < s => \E v \in P : v.end = s /\ v.start = n.start
  /\ e < n.end => \E v \in P : v.start = e /\ v.end = n.end
  /\ (\E v \in P : v.id = n.id) \/ (\A v \in m : v.id # n.id)
  /\ \A v \in m \ P : v.id # n.id /\ (v.end <= n.start \/ n.end <= v.start)

LEMMA MmappedIs ==
  ASSUME NEW m, WellFormed(m), NEW s \in 0 .. Top, NEW e \in 0 .. Top, s < e,
         \A v \in m : v.end <= s \/ e <= v.start, NEW merge \in BOOLEAN
  PROVE  \E P, n : MappedAs(m, s, e, P, n, Mmapped(m, s, e, merge))
<1>0. Top \in Nat \ {0}
  BY RestoreVmasAssumption
<1> DEFINE prev == {v \in m : merge /\ v.end = s /\ v.kind = "rwx"}
           next == {v \in m : merge /\ v.start = e /\ v.kind = "rwx"}
           pv   == CHOOSE v \in prev : TRUE
           nx   == CHOOSE v \in next : TRUE
           id   == IF prev # {} THEN pv.id ELSE IF next # {} THEN nx.id ELSE FreshId(m)
           lo   == IF prev # {} THEN pv.start ELSE s
           hi   == IF next # {} THEN nx.end ELSE e
           n    == [id |-> id, start |-> lo, end |-> hi, kind |-> "rwx"]
           P    == prev \cup next
<1>1. Mmapped(m, s, e, merge) = (m \ P) \cup {n}
  BY DEF Mmapped
<1>2. P \subseteq m
  OBVIOUS
<1>3. \A v \in m : /\ v.id \in Ids /\ v.start \in 0 .. Top - 1 /\ v.end \in 1 .. Top
                   /\ v.start < v.end
  BY VmaShape DEF Ids
<1>4. \A u, v \in m : u # v => u.id # v.id /\ (u.end <= v.start \/ v.end <= u.start)
  BY VmaApart
<1>5. prev # {} => pv \in m /\ pv.end = s /\ pv.kind = "rwx" /\ prev = {pv}
  <2>1. SUFFICES ASSUME prev # {} PROVE pv \in m /\ pv.end = s /\ pv.kind = "rwx" /\ prev = {pv}
    OBVIOUS
  <2>2. pv \in prev
    BY <2>1
  <2>3. \A v \in prev : v = pv
    BY <1>0, <1>3, <1>4, <2>2
  <2>4. QED
    BY <2>2, <2>3
<1>6. next # {} => nx \in m /\ nx.start = e /\ nx.kind = "rwx" /\ next = {nx}
  <2>1. SUFFICES ASSUME next # {} PROVE nx \in m /\ nx.start = e /\ nx.kind = "rwx" /\ next = {nx}
    OBVIOUS
  <2>2. nx \in next
    BY <2>1
  <2>3. \A v \in next : v = nx
    BY <1>0, <1>3, <1>4, <2>2
  <2>4. QED
    BY <2>2, <2>3
<1>7. FreshId(m) \in Ids /\ \A v \in m : v.id # FreshId(m)
  BY FreshFacts
<1>8. P = prev \cup next /\ n.id = id /\ n.start = lo /\ n.end = hi /\ n.kind = "rwx"
  OBVIOUS
<1> HIDE DEF prev, next, pv, nx, P
<1>9. id \in Ids /\ lo \in 0 .. Top - 1 /\ hi \in 1 .. Top /\ lo <= s /\ e <= hi
  BY <1>0, <1>3, <1>5, <1>6, <1>7
<1>10. n \in VmaType
  BY <1>9 DEF VmaType, Page, MappedKinds
<1> HIDE DEF n
<1>11. \A v \in P : /\ v.kind = "rwx" /\ n.start <= v.start /\ v.end <= n.end
                    /\ v.end = s \/ v.start = e
  <2>1. TAKE v \in P
  <2>2. CASE v \in prev
    BY <2>2, <1>0, <1>3, <1>5, <1>8, <1>9
  <2>3. CASE v \in next
    BY <2>3, <1>0, <1>3, <1>6, <1>8, <1>9
  <2>4. QED
    BY <2>2, <2>3, <1>8
<1>12. /\ n.start < s => \E v \in P : v.end = s /\ v.start = n.start
       /\ e < n.end => \E v \in P : v.start = e /\ v.end = n.end
  BY <1>5, <1>6, <1>8
<1>13. (\E v \in P : v.id = n.id) \/ (\A v \in m : v.id # n.id)
  BY <1>5, <1>6, <1>7, <1>8
<1>14. \A v \in m \ P : v.id # n.id /\ (v.end <= n.start \/ n.end <= v.start)
  <2>1. TAKE v \in m \ P
  <2>2. v \in m /\ v \notin prev /\ v \notin next /\ (v.end <= s \/ e <= v.start)
    BY <1>8
  <2>3. v.id # n.id
    BY <2>2, <1>4, <1>5, <1>6, <1>7, <1>8
  <2>4. CASE v.end <= s
    <3>1. CASE prev = {}
      BY <2>3, <2>4, <3>1, <1>8
    <3>2. CASE prev # {}
      <4>1. n.start = pv.start /\ pv \in m /\ pv.end = s /\ v # pv
        BY <3>2, <2>2, <1>5, <1>8
      <4>2. v.end <= pv.start \/ pv.end <= v.start
        BY <4>1, <2>2, <1>4
      <4>3. QED
        BY <4>1, <4>2, <2>2, <2>3, <2>4, <1>0, <1>3
    <3>3. QED
      BY <3>1, <3>2
  <2>5. CASE e <= v.start
    <3>1. CASE next = {}
      BY <2>3, <2>5, <3>1, <1>8
    <3>2. CASE next # {}
      <4>1. n.end = nx.end /\ nx \in m /\ nx.start = e /\ v # nx
        BY <3>2, <2>2, <1>6, <1>8
      <4>2. v.end <= nx.start \/ nx.end <= v.start
        BY <4>1, <2>2, <1>4
      <4>3. QED
        BY <4>1, <4>2, <2>2, <2>3, <2>5, <1>0, <1>3
    <3>3. QED
      BY <3>1, <3>2
  <2>6. QED
    BY <2>2, <2>3, <2>4, <2>5
<1>15. MappedAs(m, s, e, P, n, Mmapped(m, s, e, merge))
  BY <1>1, <1>2, <1>8, <1>9, <1>10, <1>11, <1>12, <1>13, <1>14 DEF MappedAs
<1>16. QED
  BY <1>15

LEMMA MmappedOK ==
  ASSUME NEW m, WellFormed(m), NEW s \in 0 .. Top, NEW e \in 0 .. Top, s < e,
         NEW P, NEW n, NEW R, MappedAs(m, s, e, P, n, R)
  PROVE  WellFormed(R)
<1>0. Top \in Nat \ {0}
  BY RestoreVmasAssumption
<1>1. R = (m \ P) \cup {n} /\ n \in VmaType /\ n.start <= s /\ e <= n.end
  BY DEF MappedAs
<1>2. \A v \in m \ P : v.id # n.id /\ (v.end <= n.start \/ n.end <= v.start)
  BY DEF MappedAs
<1>3. n.start < n.end
  BY <1>0, <1>1 DEF VmaType, Page
<1>4. QED
  BY <1>1, <1>2, <1>3 DEF WellFormed

-----------------------------------------------------------------------------
(* The iterators. *)

LEMMA VmaOfId ==
  ASSUME NEW m, WellFormed(m), NEW w \in m
  PROVE  (CHOOSE u \in m : u.id = w.id) = w
<1>1. \A u \in m : u.id = w.id => u = w
  BY VmaApart
<1>2. QED
  BY <1>1

LEMMA IdOfFacts ==
  ASSUME NEW m, WellFormed(m), NEW S \in SUBSET m
  PROVE  \/ S = {} /\ IdOf(S) = NULL
         \/ \E n \in S : IdOf(S) = n.id /\ \A u \in S : n.start <= u.start
<1>1. ASSUME S # {}
      PROVE  \E n \in S : IdOf(S) = n.id /\ \A u \in S : n.start <= u.start
  <2>1. \A v \in S : v.start \in Nat
    BY VmaShape
  <2>2. First(S) \in S /\ \A u \in S : First(S).start <= u.start
    BY <1>1, <2>1, FirstFacts
  <2>3. IdOf(S) = First(S).id
    BY <1>1 DEF IdOf
  <2>4. QED
    BY <2>2, <2>3
<1>2. QED
  BY <1>1 DEF IdOf

\* vm_next: the first struct behind this one, if there is one.
LEMMA NextFacts ==
  ASSUME NEW m, WellFormed(m), NEW w \in m
  PROVE  \/ VmNext(m, w.id) = NULL /\ \A u \in m : u.end <= w.end
         \/ \E n \in m : /\ VmNext(m, w.id) = n.id /\ w.end <= n.start /\ n # w
                         /\ \A u \in m : u.end <= w.end \/ n.start <= u.start
<1>0. Top \in Nat \ {0}
  BY RestoreVmasAssumption
<1> DEFINE S == {u \in m : u.start >= w.end}
<1>1. VmNext(m, w.id) = IdOf(S)
  BY VmaOfId DEF VmNext
<1>2. \A u \in m : u \in S \/ u.end <= w.end
  <2>1. TAKE u \in m
  <2>2. CASE u = w
    BY <1>0, <2>2, VmaShape
  <2>3. CASE u # w
    <3>1. u.end <= w.start \/ w.end <= u.start
      BY <2>3, VmaApart
    <3>2. QED
      BY <1>0, <3>1, VmaShape
  <2>4. QED
    BY <2>2, <2>3
<1>3. CASE S = {}
  <2>1. IdOf(S) = NULL
    BY <1>3 DEF IdOf
  <2>2. QED
    BY <1>1, <1>2, <1>3, <2>1
<1>4. CASE S # {}
  <2>1. PICK n \in S : IdOf(S) = n.id /\ \A u \in S : n.start <= u.start
    BY <1>4, IdOfFacts
  <2>2. n \in m /\ w.end <= n.start
    BY <1>0, VmaShape
  <2>3. n # w
    BY <1>0, <2>2, VmaShape
  <2>4. \A u \in m : u.end <= w.end \/ n.start <= u.start
    BY <1>2, <2>1
  <2>5. QED
    BY <1>1, <2>1, <2>2, <2>3, <2>4
<1>5. QED
  BY <1>3, <1>4

LEMMA SsVmaOf ==
  ASSUME NEW l, NEW i \in Intervals(l)
  PROVE  (CHOOSE j \in Intervals(l) : j.start = i.start) = i
<1>0. Top \in Nat \ {0}
  BY RestoreVmasAssumption
<1>1. ASSUME NEW j \in Intervals(l), j.start = i.start, j # i PROVE FALSE
  <2>1. i.end <= j.start \/ j.end <= i.start
    BY <1>1, IntervalsDisjoint
  <2>2. QED
    BY <1>0, <1>1, <2>1, IntervalShape
<1>2. \A j \in Intervals(l) : j.start = i.start => j = i
  BY <1>1
<1>3. QED
  BY <1>2

LEMMA SsStartFacts ==
  ASSUME NEW l, NEW S \in SUBSET Intervals(l)
  PROVE  \/ S = {} /\ SsStart(S) = Top
         \/ \E n \in S : SsStart(S) = n.start /\ \A u \in S : n.start <= u.start
<1>1. ASSUME S # {}
      PROVE  \E n \in S : SsStart(S) = n.start /\ \A u \in S : n.start <= u.start
  <2>1. \A v \in S : v.start \in Nat
    BY IntervalShape
  <2>2. First(S) \in S /\ \A u \in S : First(S).start <= u.start
    BY <1>1, <2>1, FirstFacts
  <2>3. SsStart(S) = First(S).start
    BY <1>1 DEF SsStart
  <2>4. QED
    BY <2>2, <2>3
<1>2. QED
  BY <1>1 DEF SsStart, ListHead

\* list_next_entry: the first entry behind this one, or the head.
LEMMA SsNextFacts ==
  ASSUME all_vmas = Intervals(snap), NEW i \in Intervals(snap), i.start = ss_vma_iter
  PROVE  \/ SsNext = Top /\ \A u \in Intervals(snap) : u.end <= i.end
         \/ \E n \in Intervals(snap) :
              /\ SsNext = n.start /\ i.end <= n.start
              /\ \A u \in Intervals(snap) : u.end <= i.end \/ n.start <= u.start
<1>0. Top \in Nat \ {0}
  BY RestoreVmasAssumption
<1> DEFINE S == {u \in Intervals(snap) : u.start >= i.end}
<1>1. SsVma = i
  <2>1. (CHOOSE j \in Intervals(snap) : j.start = i.start) = i
    BY SsVmaOf
  <2>2. QED
    BY <2>1 DEF SsVma
<1>2. SsNext = SsStart(S)
  BY <1>1 DEF SsNext
<1>3. \A u \in Intervals(snap) : u \in S \/ u.end <= i.end
  <2>1. TAKE u \in Intervals(snap)
  <2>2. CASE u = i
    BY <1>0, <2>2, IntervalShape
  <2>3. CASE u # i
    <3>1. u.end <= i.start \/ i.end <= u.start
      BY <2>3, IntervalsDisjoint
    <3>2. u.start >= i.end \/ u.end <= i.end
      BY <1>0, <3>1, IntervalShape
    <3>3. QED
      BY <3>2
  <2>4. QED
    BY <2>2, <2>3
<1>4. PICK l : l = snap
  OBVIOUS
<1>5. S \in SUBSET Intervals(l)
  BY <1>4
<1>6. CASE S = {}
  <2>1. SsStart(S) = Top
    BY <1>6 DEF SsStart, ListHead
  <2>2. QED
    BY <1>2, <1>3, <1>6, <2>1
<1>7. CASE S # {}
  <2>1. PICK n \in S : SsStart(S) = n.start /\ \A u \in S : n.start <= u.start
    BY <1>5, <1>7, SsStartFacts
  <2>2. n \in Intervals(snap) /\ n.start >= i.end
    OBVIOUS
  <2>3. i.end <= n.start
    BY <1>0, <2>2, IntervalShape
  <2>4. \A u \in Intervals(snap) : u.end <= i.end \/ n.start <= u.start
    BY <1>3, <2>1
  <2>5. QED
    BY <1>2, <2>1, <2>2, <2>3, <2>4
<1>8. QED
  BY <1>6, <1>7

\* What an iteration computes first.
LEMMA Turn ==
  ASSUME TypeInv, Looping
  PROVE  /\ Top \in Nat \ {0} /\ cursor \in 0 .. Top /\ next_cursor \in 0 .. Top
         /\ next_vma_pos \in 0 .. Top + 1 /\ next_ss_vma_pos \in 0 .. Top + 1
         /\ next_cursor <= next_vma_pos /\ next_cursor <= next_ss_vma_pos
         /\ next_cursor = next_vma_pos \/ next_cursor = next_ss_vma_pos
         /\ cursor <= next_ss_vma_pos
         /\ ~in_vmas => cursor <= next_vma_pos
         /\ vma_iter = NULL => next_vma_pos = Top + 1 /\ ~in_vmas
         /\ vma_iter # NULL => \E w \in mm : w.id = vma_iter
         /\ \A w \in mm : w.id = vma_iter =>
              /\ vma_iter # NULL /\ next_vma_iter = VmNext(mm, w.id)
              /\ next_vma_pos = IF in_vmas THEN w.end ELSE w.start
         /\ AtHead => next_ss_vma_pos = Top + 1 /\ ~in_ss_vmas
         /\ ~AtHead => \E i \in Intervals(snap) : i.start = ss_vma_iter
         /\ \A i \in Intervals(snap) : i.start = ss_vma_iter =>
              ~AtHead /\ next_ss_vma_pos = IF in_ss_vmas THEN i.end ELSE i.start
<1>0. Top \in Nat \ {0} /\ cursor \in 0 .. Top
  BY RestoreVmasAssumption DEF TypeInv, TypeOK
<1>1. PICK m : m = mm
  OBVIOUS
<1>2. WellFormed(m)
  BY <1>1 DEF TypeInv
<1>3. vma_iter # NULL => \E w \in mm : w.id = vma_iter
  BY DEF Looping, Live
<1>4. ASSUME NEW w \in mm, w.id = vma_iter
      PROVE  /\ vma_iter # NULL /\ next_vma_iter = VmNext(mm, w.id)
             /\ next_vma_pos = IF in_vmas THEN w.end ELSE w.start
  <2>1. vma_iter # NULL
    BY <1>1, <1>2, <1>4, VmaShape
  <2>2. Vma(vma_iter) = w
    <3>1. (CHOOSE u \in m : u.id = w.id) = w
      BY <1>1, <1>2, VmaOfId
    <3>2. QED
      BY <3>1, <1>1, <1>4 DEF Vma
  <2>3. QED
    BY <2>1, <2>2, <1>4 DEF next_vma_iter, next_vma_pos
<1>5. vma_iter = NULL => next_vma_pos = Top + 1 /\ ~in_vmas
  BY DEF TypeInv, IterOK, next_vma_pos, ULONG_MAX
<1>6. ~AtHead => \E i \in Intervals(snap) : i.start = ss_vma_iter
  BY DEF TypeInv, TypeOK, AtHead
<1>7. ASSUME NEW i \in Intervals(snap), i.start = ss_vma_iter
      PROVE  ~AtHead /\ next_ss_vma_pos = IF in_ss_vmas THEN i.end ELSE i.start
  <2>1. ~AtHead
    BY <1>0, <1>7, IntervalShape DEF AtHead, ListHead
  <2>2. SsVma = i
    <3>1. (CHOOSE j \in Intervals(snap) : j.start = i.start) = i
      BY SsVmaOf
    <3>2. QED
      BY <3>1, <1>7 DEF SsVma, TypeInv
  <2>3. QED
    BY <2>1, <2>2 DEF next_ss_vma_pos
<1>8. AtHead => next_ss_vma_pos = Top + 1 /\ ~in_ss_vmas
  BY DEF TypeInv, SsOK, next_ss_vma_pos, ULONG_MAX
<1>9. next_vma_pos \in 0 .. Top + 1 /\ (vma_iter # NULL => next_vma_pos <= Top)
  BY <1>0, <1>1, <1>2, <1>3, <1>4, <1>5, VmaShape
<1>10. next_ss_vma_pos \in 0 .. Top + 1 /\ (~AtHead => next_ss_vma_pos <= Top)
  BY <1>0, <1>6, <1>7, <1>8, IntervalShape
<1>11. /\ next_cursor \in 0 .. Top
       /\ next_cursor <= next_vma_pos /\ next_cursor <= next_ss_vma_pos
       /\ next_cursor = next_vma_pos \/ next_cursor = next_ss_vma_pos
  BY <1>0, <1>9, <1>10 DEF next_cursor, Looping
<1>12. cursor <= next_ss_vma_pos
  <2>1. CASE AtHead
    BY <2>1, <1>0, <1>8
  <2>2. CASE ~AtHead
    BY <2>2, <1>0, <1>6, <1>7 DEF TypeInv, SsOK
  <2>3. QED
    BY <2>1, <2>2
<1>13. ~in_vmas => cursor <= next_vma_pos
  <2>1. CASE vma_iter = NULL
    BY <2>1, <1>0, <1>5
  <2>2. CASE vma_iter # NULL
    BY <2>2, <1>0, <1>3, <1>4 DEF TypeInv, IterOK
  <2>3. QED
    BY <2>1, <2>2
<1>14. QED
  BY <1>0, <1>3, <1>4, <1>5, <1>6, <1>7, <1>8, <1>9, <1>10, <1>11, <1>12, <1>13

-----------------------------------------------------------------------------
(* The type invariant. *)

\* TypeOK says of mm what WellFormed says.
LEMMA WellFormedType ==
  WellFormed(mm) =>
    /\ \A v \in mm : /\ v.id \in Ids /\ v.kind \in MappedKinds
                     /\ 0 <= v.start /\ v.start < v.end /\ v.end <= Top
    /\ \A u, v \in mm : u # v => u.id # v.id /\ (u.end <= v.start \/ v.end <= u.start)
<1>1. SUFFICES ASSUME WellFormed(mm)
               PROVE  /\ \A v \in mm : /\ v.id \in Ids /\ v.kind \in MappedKinds
                                       /\ 0 <= v.start /\ v.start < v.end /\ v.end <= Top
                      /\ \A u, v \in mm : u # v =>
                           u.id # v.id /\ (u.end <= v.start \/ v.end <= u.start)
  OBVIOUS
<1>2. PICK m : m = mm
  OBVIOUS
<1>3. \A v \in m : /\ v.id \in Ids /\ v.kind \in MappedKinds
                   /\ 0 <= v.start /\ v.start < v.end /\ v.end <= Top
  BY <1>1, <1>2, VmaShape, RestoreVmasAssumption DEF Ids
<1>4. QED
  BY <1>1, <1>2, <1>3 DEF WellFormed

LEMMA VmasOfOK ==
  ASSUME NEW l \in Layouts(CurrentKinds)
  PROVE  /\ WellFormed(VmasOf(l))
         /\ \A v \in VmasOf(l) : \E i \in Intervals(l) :
              v.start = i.start /\ v.end = i.end /\ v.kind = l[i.start]
<1>0. Top \in Nat \ {0} /\ CurrentKinds \subseteq MappedKinds
  BY RestoreVmasAssumption
<1> DEFINE V(i) == [id |-> i.start + 1, start |-> i.start, end |-> i.end, kind |-> l[i.start]]
<1>1. \A v \in VmasOf(l) : \E i \in Intervals(l) : v = V(i)
  BY DEF VmasOf
<1>2. ASSUME NEW i \in Intervals(l)
      PROVE  V(i) \in VmaType /\ V(i).start < V(i).end
  <2>1. i.start \in 0 .. Top - 1 /\ i.end \in 1 .. Top /\ i.start < i.end /\ l[i.start] # "none"
    BY IntervalShape
  <2>2. l[i.start] \in MappedKinds
    BY <1>0, <2>1 DEF Layouts, Page
  <2>3. i.start + 1 \in Ids
    BY <1>0, <2>1 DEF Ids
  <2>4. QED
    BY <2>1, <2>2, <2>3 DEF VmaType, Page
<1>3. ASSUME NEW i \in Intervals(l), NEW j \in Intervals(l), V(i) # V(j)
      PROVE  V(i).id # V(j).id /\ (V(i).end <= V(j).start \/ V(j).end <= V(i).start)
  <2>1. i # j
    BY <1>3
  <2>2. i.end <= j.start \/ j.end <= i.start
    BY <2>1, IntervalsDisjoint
  <2>3. i.start + 1 # j.start + 1
    BY <1>0, <2>2, IntervalShape
  <2>4. QED
    BY <2>2, <2>3
<1>4. \A i \in Intervals(l) : V(i).start = i.start /\ V(i).end = i.end /\ V(i).kind = l[i.start]
  OBVIOUS
<1> HIDE DEF V
<1>5. WellFormed(VmasOf(l))
  BY <1>1, <1>2, <1>3 DEF WellFormed
<1>6. QED
  BY <1>1, <1>4, <1>5

LEMMA TypeInit ==
  Init => TypeInv
<1>1. SUFFICES ASSUME Init PROVE TypeInv
  OBVIOUS
<1>0. Top \in Nat \ {0}
  BY RestoreVmasAssumption
<1>2. PICK m, l : m = mm /\ l = before
  OBVIOUS
<1>3. WellFormed(m)
  BY <1>1, <1>2, VmasOfOK DEF Init
<1>4. \/ m = {} /\ vma_iter = NULL
      \/ \E n \in m : vma_iter = n.id /\ \A u \in m : n.start <= u.start
  <2>1. \/ m = {} /\ IdOf(m) = NULL
        \/ \E n \in m : IdOf(m) = n.id /\ \A u \in m : n.start <= u.start
    BY <1>3, IdOfFacts
  <2>2. QED
    BY <2>1, <1>1, <1>2 DEF Init
<1>5. vma_iter \in Ids \cup {NULL}
  BY <1>3, <1>4, VmaShape DEF Ids
<1>6. IterOK
  <2>1. ASSUME NEW w \in m, w.id = vma_iter
        PROVE  0 <= w.start /\ \A v \in m : w.start <= v.start
    <3>1. PICK n \in m : vma_iter = n.id /\ \A u \in m : n.start <= u.start
      BY <2>1, <1>4
    <3>2. n = w
      BY <2>1, <3>1, <1>3, VmaApart
    <3>3. QED
      BY <3>1, <3>2, <1>0, <1>3, VmaShape
  <2>2. vma_iter = NULL => m = {}
    BY <1>3, <1>4, VmaShape
  <2>3. QED
    BY <2>1, <2>2, <1>1, <1>2 DEF Init, IterOK
<1>7. ss_vma_iter \in {i.start : i \in all_vmas} \cup {ListHead}
  <2>1. PICK S, k : S = all_vmas /\ k = snap
    OBVIOUS
  <2>2. S \in SUBSET Intervals(k)
    BY <2>1, <1>1 DEF Init
  <2>3. (S = {} /\ SsStart(S) = Top) \/ (\E n \in S : SsStart(S) = n.start)
    BY <2>2, SsStartFacts
  <2>4. QED
    BY <2>1, <2>3, <1>1 DEF Init, ListHead
<1>8. SsOK
  <2>1. \A i \in Intervals(snap) : 0 <= i.start
    BY <1>0, IntervalShape
  <2>2. QED
    BY <2>1, <1>1 DEF Init, SsOK
<1>9. TypeOK
  <2>1. cursor \in 0 .. Top
    BY <1>0, <1>1 DEF Init
  <2>2. /\ \A v \in mm : /\ v.id \in Ids /\ v.kind \in MappedKinds
                         /\ 0 <= v.start /\ v.start < v.end /\ v.end <= Top
        /\ \A u, v \in mm : u # v => u.id # v.id /\ (u.end <= v.start \/ v.end <= u.start)
    BY <1>2, <1>3, WellFormedType
  <2>3. {in_vmas, in_ss_vmas, gave_up} \subseteq BOOLEAN /\ pc \in {"loop", "done", "error"}
    BY <1>1 DEF Init
  <2>4. snap \in Layouts(SnapshotKinds) /\ before \in Layouts(CurrentKinds)
    BY <1>1 DEF Init
  <2>5. QED
    BY <2>1, <2>2, <2>3, <2>4, <1>5, <1>7 DEF TypeOK
<1>10. QED
  BY <1>1, <1>2, <1>3, <1>6, <1>8, <1>9 DEF TypeInv, Init

\* The end of an iteration, for the snapshot's list and the cursor.
LEMMA SsStep ==
  ASSUME TypeInv, Looping, advance, UNCHANGED layoutVars
  PROVE  /\ SsOK'
         /\ ss_vma_iter' \in {i.start : i \in all_vmas'} \cup {ListHead}
         /\ cursor' \in 0 .. Top /\ {in_vmas', in_ss_vmas'} \subseteq BOOLEAN
<1> DEFINE nc == next_cursor
           sp == next_ss_vma_pos
<1>0. /\ Top \in Nat \ {0} /\ nc \in 0 .. Top /\ sp \in 0 .. Top + 1 /\ nc <= sp
      /\ cursor' = nc /\ all_vmas' = all_vmas /\ all_vmas = Intervals(snap)
      /\ in_vmas \in BOOLEAN /\ in_ss_vmas \in BOOLEAN
      /\ ss_vma_iter \in {i.start : i \in all_vmas} \cup {ListHead}
  BY Turn DEF advance, layoutVars, TypeInv, TypeOK
<1>1. {in_vmas', in_ss_vmas'} \subseteq BOOLEAN
  BY <1>0 DEF advance
<1>2. /\ nc = sp => in_ss_vmas' = ~in_ss_vmas
      /\ nc # sp => in_ss_vmas' = in_ss_vmas
      /\ nc = sp /\ in_ss_vmas => ss_vma_iter' = SsNext
      /\ ~(nc = sp /\ in_ss_vmas) => ss_vma_iter' = ss_vma_iter
  BY DEF advance
<1>3. /\ AtHead => sp = Top + 1 /\ ~in_ss_vmas
      /\ ~AtHead => \E i \in Intervals(snap) : i.start = ss_vma_iter
      /\ \A i \in Intervals(snap) : i.start = ss_vma_iter =>
           ~AtHead /\ sp = IF in_ss_vmas THEN i.end ELSE i.start
  BY Turn
<1> HIDE DEF nc, sp
<1>4. CASE nc = sp /\ in_ss_vmas
  <2>1. PICK i \in Intervals(snap) : i.start = ss_vma_iter /\ sp = i.end
    BY <1>0, <1>3, <1>4
  <2>2. \/ ss_vma_iter' = Top
        \/ \E n \in Intervals(snap) : ss_vma_iter' = n.start /\ i.end <= n.start
    BY <1>0, <1>2, <1>4, <2>1, SsNextFacts
  <2>3. ss_vma_iter' \in {j.start : j \in all_vmas'} \cup {ListHead}
    BY <1>0, <2>2 DEF ListHead
  <2>4. ASSUME NEW j \in Intervals(snap), j.start = ss_vma_iter' PROVE cursor' <= j.start
    <3>1. j.start # Top
      BY <1>0, IntervalShape
    <3>2. QED
      BY <1>0, <1>4, <2>1, <2>2, <2>4, <3>1
  <2>5. SsOK'
    BY <1>0, <1>2, <1>4, <2>4 DEF SsOK
  <2>6. QED
    BY <1>0, <1>1, <2>3, <2>5
<1>5. CASE nc = sp /\ ~in_ss_vmas
  <2>1. ss_vma_iter' = ss_vma_iter /\ in_ss_vmas' = TRUE /\ ~AtHead
    <3>1. ~AtHead
      BY <1>0, <1>3, <1>5
    <3>2. in_ss_vmas' = ~in_ss_vmas /\ in_ss_vmas = FALSE
      BY <1>0, <1>2, <1>5
    <3>3. QED
      BY <3>1, <3>2, <1>2, <1>5
  <2>2. ASSUME NEW j \in Intervals(snap), j.start = ss_vma_iter PROVE cursor' <= j.end
    <3>1. sp = j.start /\ j.start \in Int /\ j.end \in Int /\ j.start < j.end
      BY <1>3, <1>5, <2>2, IntervalShape
    <3>2. QED
      BY <1>0, <1>5, <3>1
  <2>3. SsOK'
    BY <1>0, <2>1, <2>2 DEF SsOK, AtHead
  <2>4. QED
    BY <1>0, <1>1, <2>1, <2>3
<1>6. CASE nc # sp
  <2>1. ss_vma_iter' = ss_vma_iter /\ in_ss_vmas' = in_ss_vmas
    BY <1>2, <1>6
  <2>2. ASSUME NEW j \in Intervals(snap), j.start = ss_vma_iter
        PROVE  cursor' <= IF in_ss_vmas THEN j.end ELSE j.start
    BY <1>0, <1>3, <2>2
  <2>3. AtHead => ~in_ss_vmas
    BY <1>3
  <2>4. SsOK'
    BY <1>0, <2>1, <2>2, <2>3 DEF SsOK, AtHead
  <2>5. QED
    BY <1>0, <1>1, <2>1, <2>4
<1>7. QED
  BY <1>0, <1>4, <1>5, <1>6

\* What Unmap does: part of the iterator's mapping goes, the rest of it stays.
LEMMA UnmapFacts ==
  ASSUME TypeInv, Unmap
  PROVE  \E w \in mm :
           /\ w.id = vma_iter /\ in_vmas = TRUE /\ in_ss_vmas = FALSE
           /\ w.start <= cursor /\ cursor < next_cursor /\ next_cursor <= w.end
           /\ next_vma_pos = w.end
           /\ mm' = (mm \ {w}) \cup Rest(mm, w, cursor, next_cursor)
           /\ WellFormed(mm') /\ cursor' = next_cursor
           /\ next_cursor = w.end => vma_iter' = VmNext(mm, w.id) /\ in_vmas' = FALSE
           /\ next_cursor # w.end => /\ vma_iter' = vma_iter /\ in_vmas' = TRUE
                                     /\ in_ss_vmas' = TRUE /\ next_cursor = next_ss_vma_pos
<1>0. /\ Looping /\ New /\ mm' = Munmapped(mm, cursor, next_cursor) /\ advance
      /\ in_vmas \in BOOLEAN /\ in_ss_vmas \in BOOLEAN
  BY DEF Unmap, TypeInv, TypeOK
<1>1. in_vmas = TRUE /\ in_ss_vmas = FALSE /\ next_cursor # cursor
  BY <1>0 DEF New
<1>2. PICK w \in mm : w.id = vma_iter /\ next_vma_pos = w.end /\ next_vma_iter = VmNext(mm, w.id)
  BY <1>0, <1>1, Turn
<1>3. PICK m, s, e : m = mm /\ s = cursor /\ e = next_cursor
  OBVIOUS
<1>4. WellFormed(m) /\ w \in m
  BY <1>2, <1>3 DEF TypeInv
<1>5. w.start <= s /\ s <= w.end
  BY <1>1, <1>2, <1>3 DEF TypeInv, IterOK
<1>6. s \in Int /\ e \in Int /\ s < e /\ e <= w.end
  <2>1. s \in Int /\ e \in Int /\ e <= w.end
    BY <1>0, <1>2, <1>3, Turn
  <2>2. s <= e
    BY <1>0, <1>2, <1>3, <1>5, Turn
  <2>3. QED
    BY <2>1, <2>2, <1>1, <1>3
<1>7. Munmapped(m, s, e) = (m \ {w}) \cup Rest(m, w, s, e) /\ WellFormed(Munmapped(m, s, e))
  BY <1>4, <1>5, <1>6, MunmappedIs, MunmappedOK
<1>8. /\ cursor' = next_cursor
      /\ next_cursor = w.end => vma_iter' = VmNext(mm, w.id) /\ in_vmas' = FALSE
      /\ next_cursor # w.end => vma_iter' = vma_iter /\ in_vmas' = TRUE
  BY <1>0, <1>1, <1>2 DEF advance
<1>9. next_cursor # w.end => in_ss_vmas' = TRUE /\ next_cursor = next_ss_vma_pos
  <2>1. SUFFICES ASSUME next_cursor # w.end
                 PROVE  in_ss_vmas' = TRUE /\ next_cursor = next_ss_vma_pos
    OBVIOUS
  <2>2. next_cursor = next_ss_vma_pos
    BY <2>1, <1>0, <1>2, Turn
  <2>3. QED
    BY <2>2, <1>0, <1>1 DEF advance
<1>10. QED
  BY <1>0, <1>1, <1>2, <1>3, <1>5, <1>6, <1>7, <1>8, <1>9

\* What MapBack does: the place is free, and vm_mmap fills it.
LEMMA MapBackFacts ==
  ASSUME TypeInv, MapBack
  PROVE  /\ in_vmas = FALSE /\ in_ss_vmas = TRUE /\ snap[ss_vma_iter] \in Anon
         /\ cursor < next_cursor /\ cursor' = next_cursor /\ vma_iter' = vma_iter
         /\ \A v \in mm : v.end <= cursor \/ next_cursor <= v.start
         /\ \E P, n : MappedAs(mm, cursor, next_cursor, P, n, mm')
         /\ WellFormed(mm')
         /\ next_cursor = next_vma_pos => in_vmas' = TRUE
         /\ next_cursor # next_vma_pos => /\ in_vmas' = FALSE /\ in_ss_vmas' = FALSE
                                          /\ next_cursor = next_ss_vma_pos
<1>0. /\ Looping /\ Missing /\ advance /\ snap[ss_vma_iter] \in Anon
      /\ in_vmas \in BOOLEAN /\ in_ss_vmas \in BOOLEAN
  BY DEF MapBack, TypeInv, TypeOK
<1>1. in_vmas = FALSE /\ in_ss_vmas = TRUE /\ next_cursor # cursor
  BY <1>0 DEF Missing
<1>2. PICK merge \in BOOLEAN : mm' = Mmapped(mm, cursor, next_cursor, merge)
  BY DEF MapBack
<1>3. PICK m, s, e : m = mm /\ s = cursor /\ e = next_cursor
  OBVIOUS
<1>4. WellFormed(m)
  BY <1>3 DEF TypeInv
<1>5. s \in 0 .. Top /\ e \in 0 .. Top /\ s < e /\ Top \in Nat \ {0}
  BY <1>0, <1>1, <1>3, Turn
<1>6. \A v \in m : v.end <= s \/ e <= v.start
  <2>1. CASE vma_iter = NULL
    BY <2>1, <1>3 DEF TypeInv, IterOK
  <2>2. CASE vma_iter # NULL
    <3>1. PICK w \in mm : w.id = vma_iter /\ next_vma_pos = w.start /\ next_cursor <= w.start
      BY <2>2, <1>0, <1>1, Turn
    <3>2. \A v \in mm : v.end <= cursor \/ w.start <= v.start
      BY <3>1, <1>1 DEF TypeInv, IterOK
    <3>3. \A v \in m : v.start \in Int
      BY <1>4, VmaShape
    <3>4. QED
      BY <3>1, <3>2, <3>3, <1>3, <1>5
  <2>3. QED
    BY <2>1, <2>2
<1>7. PICK P, n : MappedAs(m, s, e, P, n, Mmapped(m, s, e, merge))
  BY <1>4, <1>5, <1>6, MmappedIs
<1>8. WellFormed(Mmapped(m, s, e, merge))
  BY <1>4, <1>5, <1>7, MmappedOK
<1>9. cursor' = next_cursor /\ vma_iter' = vma_iter
  BY <1>0, <1>1 DEF advance
<1>10. next_cursor = next_vma_pos => in_vmas' = TRUE
  BY <1>0, <1>1 DEF advance
<1>11. next_cursor # next_vma_pos => /\ in_vmas' = FALSE /\ in_ss_vmas' = FALSE
                                     /\ next_cursor = next_ss_vma_pos
  <2>1. SUFFICES ASSUME next_cursor # next_vma_pos
                 PROVE  in_vmas' = FALSE /\ in_ss_vmas' = FALSE /\ next_cursor = next_ss_vma_pos
    OBVIOUS
  <2>2. next_cursor = next_ss_vma_pos
    BY <2>1, <1>0, Turn
  <2>3. QED
    BY <2>1, <2>2, <1>0, <1>1 DEF advance
<1>12. QED
  BY <1>0, <1>1, <1>2, <1>3, <1>5, <1>6, <1>7, <1>8, <1>9, <1>10, <1>11

LEMMA UnmapIter ==
  ASSUME TypeInv, Unmap
  PROVE  IterOK' /\ vma_iter' \in Ids \cup {NULL}
<1>1. PICK w \in mm :
        /\ w.id = vma_iter /\ in_vmas = TRUE /\ in_ss_vmas = FALSE
        /\ w.start <= cursor /\ cursor < next_cursor /\ next_cursor <= w.end
        /\ mm' = (mm \ {w}) \cup Rest(mm, w, cursor, next_cursor)
        /\ WellFormed(mm') /\ cursor' = next_cursor
        /\ next_cursor = w.end => vma_iter' = VmNext(mm, w.id) /\ in_vmas' = FALSE
        /\ next_cursor # w.end => /\ vma_iter' = vma_iter /\ in_vmas' = TRUE
                                  /\ in_ss_vmas' = TRUE /\ next_cursor = next_ss_vma_pos
  BY UnmapFacts
<1>2. PICK m, m2, s, e : m = mm /\ m2 = mm' /\ s = cursor /\ e = next_cursor
  OBVIOUS
<1>3. WellFormed(m) /\ WellFormed(m2) /\ w \in m /\ m2 = (m \ {w}) \cup Rest(m, w, s, e)
  BY <1>1, <1>2 DEF TypeInv
<1>4. s \in 0 .. Top /\ e \in 0 .. Top /\ Top \in Nat \ {0}
  BY <1>2, Turn DEF Unmap
<1>5. \A v \in m : v.start \in Int /\ v.end \in Int /\ v.id \in Ids /\ v.id # NULL /\ v.start < v.end
  BY <1>3, VmaShape DEF Ids
<1>6. \A v \in m2 : \/ v \in m /\ v # w
                    \/ w.start < s /\ v = LowerPart(w, s)
                    \/ w.end > e /\ v = UpperPart(m, w, s, e)
  BY <1>3 DEF Rest
<1>7. CASE e = w.end
  <2>1. vma_iter' = VmNext(m, w.id) /\ in_vmas' = FALSE /\ cursor' = w.end
    BY <1>1, <1>2, <1>7
  <2>2. \A v \in m2 : (v \in m /\ v # w) \/ v.end <= w.end
    BY <1>1, <1>2, <1>4, <1>5, <1>6, <1>7 DEF LowerPart
  <2>3. CASE VmNext(m, w.id) = NULL /\ \A u \in m : u.end <= w.end
    <3>1. \A v \in m2 : v.end <= cursor' /\ v.id # NULL
      BY <2>1, <2>2, <2>3, <1>3, VmaShape
    <3>2. QED
      BY <3>1, <2>1, <2>3, <1>2 DEF IterOK
  <2>4. CASE \E n \in m : /\ VmNext(m, w.id) = n.id /\ w.end <= n.start /\ n # w
                          /\ \A u \in m : u.end <= w.end \/ n.start <= u.start
    <3>1. PICK n \in m : /\ vma_iter' = n.id /\ w.end <= n.start /\ n # w
                         /\ \A u \in m : u.end <= w.end \/ n.start <= u.start
      BY <2>1, <2>4
    <3>2. n \in m2 /\ vma_iter' # NULL /\ vma_iter' \in Ids
      BY <3>1, <1>3, <1>5
    <3>3. \A x \in m2 : x.id = vma_iter' => x = n
      BY <3>1, <3>2, <1>3, VmaApart
    <3>4. \A v \in m2 : v.end <= cursor' \/ n.start <= v.start
      BY <2>1, <2>2, <3>1
    <3>5. QED
      BY <3>1, <3>2, <3>3, <3>4, <2>1, <1>2 DEF IterOK
  <2>5. QED
    BY <2>3, <2>4, <1>3, NextFacts
<1>8. CASE e # w.end
  <2>1. vma_iter' = w.id /\ in_vmas' = TRUE /\ in_ss_vmas' = TRUE /\ cursor' = e
    BY <1>1, <1>2, <1>8
  <2>2. \A x \in m2 : x.id = w.id => x.start <= e
    <3>1. \A v \in m : v # w => v.id # w.id
      BY <1>3, VmaApart
    <3>2. LowerPart(w, s).start = w.start /\ UpperPart(m, w, s, e).start = e /\ w.start <= e
      BY <1>1, <1>2, <1>4, <1>5 DEF LowerPart, UpperPart
    <3>3. QED
      BY <3>1, <3>2, <1>4, <1>6
  <2>3. vma_iter' # NULL /\ vma_iter' \in Ids
    BY <2>1, <1>3, <1>5
  <2>4. QED
    BY <2>1, <2>2, <2>3, <1>2 DEF IterOK
<1>9. QED
  BY <1>7, <1>8

LEMMA MapBackIter ==
  ASSUME TypeInv, MapBack
  PROVE  IterOK' /\ vma_iter' \in Ids \cup {NULL}
<1>1. /\ in_vmas = FALSE /\ cursor < next_cursor /\ cursor' = next_cursor /\ vma_iter' = vma_iter
      /\ WellFormed(mm') /\ vma_iter \in Ids \cup {NULL}
      /\ next_cursor = next_vma_pos => in_vmas' = TRUE
      /\ next_cursor # next_vma_pos => in_vmas' = FALSE
  BY MapBackFacts DEF TypeInv, TypeOK
<1>2. PICK m, m2, s, e : m = mm /\ m2 = mm' /\ s = cursor /\ e = next_cursor
  OBVIOUS
<1>3. PICK P, n : MappedAs(m, s, e, P, n, m2)
  BY <1>2, MapBackFacts
<1>4. WellFormed(m) /\ WellFormed(m2)
  BY <1>1, <1>2 DEF TypeInv
<1>5. s \in 0 .. Top /\ e \in 0 .. Top /\ Top \in Nat \ {0} /\ s < e
  BY <1>1, <1>2, Turn DEF MapBack
<1>6. \A v \in m : v.start \in Int /\ v.end \in Int /\ v.id # NULL /\ v.start < v.end
  BY <1>4, VmaShape
<1>7. /\ m2 = (m \ P) \cup {n} /\ P \subseteq m
      /\ n.start <= s /\ e <= n.end
      /\ \A v \in P : v.end = s \/ v.start = e
      /\ e < n.end => \E v \in P : v.start = e /\ v.end = n.end
      /\ (\E v \in P : v.id = n.id) \/ (\A v \in m : v.id # n.id)
      /\ n.start \in Int /\ n.end \in Int
  BY <1>3 DEF MappedAs, VmaType, Page
<1>8. CASE vma_iter = NULL
  <2>1. next_vma_pos = Top + 1
    BY <1>8, Turn DEF MapBack
  <2>2. in_vmas' = FALSE /\ vma_iter' = NULL /\ cursor' = e
    BY <2>1, <1>1, <1>2, <1>5, <1>8
  <2>3. \A v \in m : v.end <= s
    BY <1>8, <1>2 DEF TypeInv, IterOK
  <2>4. n.end = e
    <3>1. SUFFICES ASSUME e < n.end PROVE FALSE
      BY <1>5, <1>7
    <3>2. PICK v \in P : v.start = e /\ v.end = n.end
      BY <3>1, <1>7
    <3>3. QED
      BY <3>1, <3>2, <2>3, <1>5, <1>7
  <2>5. \A v \in m2 : v.end <= e /\ v.id # NULL
    BY <2>3, <2>4, <1>4, <1>5, <1>6, <1>7, VmaShape
  <2>6. QED
    BY <2>2, <2>5, <1>1, <1>2 DEF IterOK
<1>9. CASE vma_iter # NULL
  <2>1. PICK w \in m : w.id = vma_iter /\ next_vma_pos = w.start /\ next_cursor <= w.start
    BY <1>1, <1>2, <1>9, Turn DEF MapBack
  <2>2. e <= w.start /\ \A v \in m : v.end <= s \/ w.start <= v.start
    BY <2>1, <1>1, <1>2 DEF TypeInv, IterOK
  <2>3. CASE e = w.start
    <3>1. in_vmas' = TRUE /\ vma_iter' = w.id /\ cursor' = e
      BY <2>1, <2>3, <1>1, <1>2
    <3>2. \A x \in m2 : x.id = w.id => x.start <= e /\ e <= x.end
      <4>1. TAKE x \in m2
      <4>2. CASE x = n
        BY <4>2, <1>5, <1>7
      <4>3. CASE x \in m
        <5>1. x.id = w.id => x = w
          BY <4>3, <1>4, VmaApart
        <5>2. QED
          BY <5>1, <2>3, <1>5, <1>6
      <4>4. QED
        BY <4>2, <4>3, <1>7
    <3>3. QED
      BY <3>1, <3>2, <1>1, <1>2, <1>9 DEF IterOK
  <2>4. CASE e # w.start
    <3>1. in_vmas' = FALSE /\ vma_iter' = w.id /\ cursor' = e /\ e < w.start
      BY <2>1, <2>2, <2>4, <1>1, <1>2, <1>5, <1>6
    <3>2. w \notin P
      <4>1. w.end # s /\ w.start # e
        BY <2>2, <3>1, <1>5, <1>6
      <4>2. QED
        BY <4>1, <1>7
    <3>3. w \in m2
      BY <3>2, <1>7
    <3>4. \A x \in m2 : x.id = w.id => x = w
      BY <3>3, <1>4, VmaApart
    <3>5. n.end = e
      <4>1. SUFFICES ASSUME e < n.end PROVE FALSE
        BY <1>5, <1>7
      <4>2. PICK v \in P : v.start = e /\ v.end = n.end
        BY <4>1, <1>7
      <4>3. v \in m /\ (v.end <= s \/ w.start <= v.start)
        BY <4>2, <2>2, <1>7
      <4>4. QED
        BY <4>1, <4>2, <4>3, <3>1, <1>5, <1>6, <1>7
    <3>6. \A v \in m2 : v.end <= e \/ w.start <= v.start
      BY <3>5, <2>2, <1>5, <1>6, <1>7
    <3>7. QED
      BY <3>1, <3>4, <3>6, <1>1, <1>2, <1>5, <1>6, <1>9 DEF IterOK
  <2>5. QED
    BY <2>3, <2>4
<1>10. QED
  BY <1>8, <1>9

LEMMA SkipIter ==
  ASSUME TypeInv, Skip
  PROVE  IterOK' /\ vma_iter' \in Ids \cup {NULL}
<1>0. /\ Looping /\ advance /\ mm' = mm /\ in_vmas \in BOOLEAN /\ in_ss_vmas \in BOOLEAN
      /\ vma_iter \in Ids \cup {NULL}
  BY DEF Skip, TypeInv, TypeOK
<1>1. PICK m, s, e, vp : m = mm /\ s = cursor /\ e = next_cursor /\ vp = next_vma_pos
  OBVIOUS
<1>2. WellFormed(m)
  BY <1>1 DEF TypeInv
<1>3. /\ s \in 0 .. Top /\ e \in 0 .. Top /\ Top \in Nat \ {0} /\ vp \in 0 .. Top + 1
      /\ e <= vp /\ cursor' = e
      /\ ~in_vmas => s <= e
      /\ e # vp => s <= e
  BY <1>0, <1>1, Turn DEF advance
<1>4. \A v \in m : v.start \in Int /\ v.end \in Int /\ v.id # NULL /\ v.start < v.end /\ v.id \in Ids
  BY <1>2, VmaShape DEF Ids
<1>5. CASE vma_iter = NULL
  <2>1. vp = Top + 1 /\ in_vmas = FALSE
    BY <1>0, <1>1, <1>5, Turn
  <2>2. in_vmas' = FALSE /\ vma_iter' = NULL
    BY <2>1, <1>0, <1>1, <1>3, <1>5 DEF advance
  <2>3. \A v \in m : v.end <= s
    BY <1>1, <1>5 DEF TypeInv, IterOK
  <2>4. \A v \in m : v.end <= e
    BY <2>1, <2>3, <1>3, <1>4
  <2>5. QED
    BY <2>2, <2>4, <1>0, <1>1, <1>3, <1>4 DEF IterOK
<1>6. CASE vma_iter # NULL
  <2>1. PICK w \in m : /\ w.id = vma_iter /\ vp = (IF in_vmas THEN w.end ELSE w.start)
                       /\ next_vma_iter = VmNext(m, w.id)
    BY <1>0, <1>1, <1>6, Turn
  <2>2. \A x \in m : x.id = w.id => x = w
    BY <1>2, VmaApart
  <2>3. CASE in_vmas = TRUE /\ e = vp
    <3>1. vma_iter' = VmNext(m, w.id) /\ in_vmas' = FALSE /\ cursor' = w.end
      BY <2>1, <2>3, <1>0, <1>1, <1>3 DEF advance
    <3>2. CASE VmNext(m, w.id) = NULL /\ \A u \in m : u.end <= w.end
      BY <3>1, <3>2, <1>0, <1>1, <1>4 DEF IterOK
    <3>3. CASE \E n \in m : /\ VmNext(m, w.id) = n.id /\ w.end <= n.start /\ n # w
                            /\ \A u \in m : u.end <= w.end \/ n.start <= u.start
      <4>1. PICK n \in m : /\ vma_iter' = n.id /\ w.end <= n.start /\ n # w
                           /\ \A u \in m : u.end <= w.end \/ n.start <= u.start
        BY <3>1, <3>3
      <4>2. \A x \in m : x.id = vma_iter' => x = n
        BY <4>1, <1>2, VmaApart
      <4>3. vma_iter' # NULL /\ vma_iter' \in Ids
        BY <4>1, <1>4
      <4>4. QED
        BY <4>1, <4>2, <4>3, <3>1, <1>0, <1>1 DEF IterOK
    <3>4. QED
      BY <3>2, <3>3, <1>2, NextFacts
  <2>4. CASE in_vmas = TRUE /\ e # vp
    <3>1. vma_iter' = w.id /\ in_vmas' = TRUE /\ cursor' = e /\ e <= w.end
      BY <2>1, <2>4, <1>0, <1>1, <1>3 DEF advance
    <3>2. w.start <= s
      BY <2>1, <2>4, <1>1 DEF TypeInv, IterOK
    <3>3. w.start <= e
      BY <3>2, <2>4, <1>3, <1>4
    <3>4. QED
      BY <3>1, <3>3, <2>1, <2>2, <1>0, <1>1, <1>6 DEF IterOK
  <2>5. CASE in_vmas = FALSE /\ e = vp
    <3>1. vma_iter' = w.id /\ in_vmas' = TRUE /\ cursor' = w.start
      BY <2>1, <2>5, <1>0, <1>1, <1>3 DEF advance
    <3>2. w.start <= w.start /\ w.start <= w.end
      BY <1>4
    <3>3. QED
      BY <3>1, <3>2, <2>1, <2>2, <1>0, <1>1, <1>6 DEF IterOK
  <2>6. CASE in_vmas = FALSE /\ e # vp
    <3>1. vma_iter' = w.id /\ in_vmas' = FALSE /\ cursor' = e /\ e <= w.start /\ s <= e
      BY <2>1, <2>6, <1>0, <1>1, <1>3 DEF advance
    <3>2. \A v \in m : v.end <= s \/ w.start <= v.start
      BY <2>1, <2>6, <1>1 DEF TypeInv, IterOK
    <3>3. \A v \in m : v.end <= e \/ w.start <= v.start
      BY <3>1, <3>2, <1>3, <1>4
    <3>4. QED
      BY <3>1, <3>3, <2>1, <2>2, <1>0, <1>1, <1>6 DEF IterOK
  <2>7. QED
    BY <2>3, <2>4, <2>5, <2>6, <1>0
<1>7. QED
  BY <1>5, <1>6

LEMMA TypeStep ==
  TypeInv /\ [Next]_vars => TypeInv'
<1>1. SUFFICES ASSUME TypeInv, [Next]_vars PROVE TypeInv'
  OBVIOUS
<1>2. ASSUME UNCHANGED layoutVars,
             WellFormed(mm'), IterOK', SsOK',
             vma_iter' \in Ids \cup {NULL},
             ss_vma_iter' \in {i.start : i \in all_vmas'} \cup {ListHead},
             cursor' \in 0 .. Top,
             {in_vmas', in_ss_vmas', gave_up'} \subseteq BOOLEAN,
             pc' \in {"loop", "done", "error"}
      PROVE  TypeInv'
  <2>1. WellFormed(mm)'
    BY <1>2
  <2>2. (/\ \A v \in mm : /\ v.id \in Ids /\ v.kind \in MappedKinds
                          /\ 0 <= v.start /\ v.start < v.end /\ v.end <= Top
         /\ \A u, v \in mm : u # v => u.id # v.id /\ (u.end <= v.start \/ v.end <= u.start))'
    <3>1. (WellFormed(mm) =>
            /\ \A v \in mm : /\ v.id \in Ids /\ v.kind \in MappedKinds
                             /\ 0 <= v.start /\ v.start < v.end /\ v.end <= Top
            /\ \A u, v \in mm : u # v =>
                 u.id # v.id /\ (u.end <= v.start \/ v.end <= u.start))'
      BY WellFormedType, PTL
    <3>2. QED
      BY <2>1, <3>1
  <2>3. snap' \in Layouts(SnapshotKinds) /\ before' \in Layouts(CurrentKinds)
    BY <1>1, <1>2 DEF TypeInv, TypeOK, layoutVars, Layouts
  <2>4. TypeOK'
    BY <1>2, <2>2, <2>3 DEF TypeOK
  <2>5. (all_vmas = Intervals(snap))'
    BY <1>1, <1>2 DEF TypeInv, layoutVars
  <2>6. QED
    BY <1>2, <2>1, <2>4, <2>5 DEF TypeInv
<1>3. gave_up \in BOOLEAN /\ pc \in {"loop", "done", "error"} /\ WellFormed(mm)
  BY <1>1 DEF TypeInv, TypeOK
<1>4. CASE Unmap
  <2>1. Looping /\ advance /\ UNCHANGED <<layoutVars, gave_up, pc>>
    BY <1>4 DEF Unmap
  <2>2. WellFormed(mm')
    BY <1>1, <1>4, UnmapFacts
  <2>3. QED
    BY <1>1, <1>2, <1>3, <1>4, <2>1, <2>2, UnmapIter, SsStep
<1>5. CASE MapBack
  <2>1. Looping /\ advance /\ UNCHANGED <<layoutVars, gave_up, pc>>
    BY <1>5 DEF MapBack
  <2>2. WellFormed(mm')
    BY <1>1, <1>5, MapBackFacts
  <2>3. QED
    BY <1>1, <1>2, <1>3, <1>5, <2>1, <2>2, MapBackIter, SsStep
<1>6. CASE Skip
  <2>1. Looping /\ advance /\ mm' = mm /\ UNCHANGED <<layoutVars, gave_up, pc>>
    BY <1>6 DEF Skip
  <2>2. WellFormed(mm')
    BY <1>3, <2>1
  <2>3. QED
    BY <1>1, <1>2, <1>3, <1>6, <2>1, <2>2, SkipIter, SsStep
<1>7. ASSUME UNCHANGED <<layoutVars, mm, iterVars>>,
             gave_up' \in BOOLEAN, pc' \in {"loop", "done", "error"}
      PROVE  TypeInv'
  <2>1. IterOK'
    BY <1>1, <1>7 DEF TypeInv, IterOK, iterVars
  <2>2. SsOK'
    BY <1>1, <1>7 DEF TypeInv, SsOK, AtHead, iterVars, layoutVars
  <2>3. /\ vma_iter' \in Ids \cup {NULL}
        /\ ss_vma_iter' \in {i.start : i \in all_vmas'} \cup {ListHead}
        /\ cursor' \in 0 .. Top
        /\ {in_vmas', in_ss_vmas', gave_up'} \subseteq BOOLEAN
    BY <1>1, <1>7 DEF TypeInv, TypeOK, iterVars, layoutVars
  <2>4. WellFormed(mm')
    BY <1>3, <1>7
  <2>5. QED
    BY <1>2, <1>7, <2>1, <2>2, <2>3, <2>4
<1>8. CASE UnmapFails \/ MapBackFails \/ Finish \/ UNCHANGED vars
  BY <1>3, <1>7, <1>8 DEF UnmapFails, MapBackFails, Finish, vars
<1>9. QED
  BY <1>1, <1>4, <1>5, <1>6, <1>8 DEF Next

LEMMA TypeInvHolds ==
  Spec => []TypeInv
BY TypeInit, TypeStep, PTL DEF Spec

\* The list restore_vmas walks stays a list: through every vm_munmap, cutting a
\* mapping in two, and every vm_mmap, merging with one neighbour or two, the
\* structs are disjoint, inside the address space and distinct allocations, and
\* cursor stays in it (memory.c:559-650).  For every size of the address space and
\* every pair of layouts.
THEOREM MappingsWellFormed ==
  Spec => []TypeOK
<1>1. TypeInv => TypeOK
  BY DEF TypeInv
<1>2. QED
  BY <1>1, TypeInvHolds, PTL

-----------------------------------------------------------------------------
(* The iterator is never freed under the loop. *)

LEMMA AheadInit ==
  Init => AheadOK
<1>1. SUFFICES ASSUME Init, FirstRestore
               PROVE  /\ IteratorLive
                      /\ \A w, v \in mm : w.id = vma_iter /\ w.start <= v.start => v.kind # "rwx"
  BY DEF AheadOK
<1>2. PICK m, l : m = mm /\ l = before
  OBVIOUS
<1>3. WellFormed(m) /\ \A v \in m : \E i \in Intervals(l) : v.kind = l[i.start]
  BY <1>1, <1>2, VmasOfOK DEF Init
<1>4. \A v \in m : v.kind # "rwx"
  <2>1. \A i \in Intervals(l) : i.start \in Page
    BY IntervalShape DEF Page
  <2>2. QED
    BY <2>1, <1>1, <1>2, <1>3 DEF FirstRestore
<1>5. (m = {} /\ vma_iter = NULL) \/ (\E n \in m : vma_iter = n.id)
  <2>1. (m = {} /\ IdOf(m) = NULL) \/ (\E n \in m : IdOf(m) = n.id)
    BY <1>3, IdOfFacts
  <2>2. QED
    BY <2>1, <1>1, <1>2 DEF Init
<1>6. QED
  BY <1>2, <1>4, <1>5 DEF IteratorLive, Live

LEMMA AheadStep ==
  TypeInv /\ AheadOK /\ [Next]_vars => AheadOK'
<1>1. SUFFICES ASSUME TypeInv, AheadOK, [Next]_vars, FirstRestore'
               PROVE  /\ vma_iter' # NULL => \E x \in mm' : x.id = vma_iter'
                      /\ \A w, v \in mm' : w.id = vma_iter' /\ w.start <= v.start => v.kind # "rwx"
  BY DEF AheadOK, IteratorLive, Live
<1>2. FirstRestore
  BY <1>1 DEF FirstRestore, Next, vars, layoutVars, Unmap, MapBack, Skip, UnmapFails, MapBackFails, Finish
<1>3. PICK m, m2, s, e : m = mm /\ m2 = mm' /\ s = cursor /\ e = next_cursor
  OBVIOUS
<1>4. /\ WellFormed(m)
      /\ vma_iter # NULL => \E x \in m : x.id = vma_iter
      /\ \A w, v \in m : w.id = vma_iter /\ w.start <= v.start => v.kind # "rwx"
  BY <1>1, <1>2, <1>3 DEF TypeInv, AheadOK, IteratorLive, Live
<1>5. \A v \in m : v.start \in Int /\ v.end \in Int /\ v.id # NULL /\ v.start < v.end
  BY <1>4, VmaShape
\* vm_next: what is behind the next struct is behind this one.
<1>6. ASSUME NEW w \in m, w.id = vma_iter, vma_iter' = VmNext(m, w.id),
             WellFormed(m2), \A v \in m : v # w => v \in m2,
             \A v \in m2 : v \in m \/ v.end <= w.end
      PROVE  /\ vma_iter' # NULL => \E x \in m2 : x.id = vma_iter'
             /\ \A x, v \in m2 : x.id = vma_iter' /\ x.start <= v.start => v.kind # "rwx"
  <2>0. \A v \in m2 : v.start \in Int /\ v.end \in Int /\ v.id # NULL /\ v.start < v.end
    BY <1>6, VmaShape
  <2>1. CASE VmNext(m, w.id) = NULL
    BY <2>0, <2>1, <1>6
  <2>2. CASE \E n \in m : /\ VmNext(m, w.id) = n.id /\ w.end <= n.start /\ n # w
                          /\ \A u \in m : u.end <= w.end \/ n.start <= u.start
    <3>1. PICK n \in m : VmNext(m, w.id) = n.id /\ w.end <= n.start /\ n # w
      BY <2>2
    <3>2. n \in m2 /\ vma_iter' = n.id
      BY <3>1, <1>6
    <3>3. \A x \in m2 : x.id = vma_iter' => x = n
      BY <3>2, <1>6, VmaApart
    <3>4. ASSUME NEW v \in m2, n.start <= v.start PROVE v.kind # "rwx"
      <4>1. ~(v.end <= w.end)
        BY <3>1, <3>4, <2>0, <1>5
      <4>2. v \in m /\ w.start <= v.start
        BY <4>1, <3>1, <3>4, <2>0, <1>5, <1>6
      <4>3. QED
        BY <4>2, <1>4, <1>6
    <3>5. QED
      BY <3>2, <3>3, <3>4
  <2>3. QED
    BY <2>1, <2>2, <1>4, NextFacts
<1>7. CASE Unmap
  <2>1. PICK w \in mm :
        /\ w.id = vma_iter /\ w.start <= cursor /\ cursor < next_cursor /\ next_cursor <= w.end
        /\ mm' = (mm \ {w}) \cup Rest(mm, w, cursor, next_cursor)
        /\ WellFormed(mm')
        /\ next_cursor = w.end => vma_iter' = VmNext(mm, w.id)
        /\ next_cursor # w.end => vma_iter' = vma_iter
    BY <1>1, <1>7, UnmapFacts
  <2>2. WellFormed(m2) /\ w \in m /\ m2 = (m \ {w}) \cup Rest(m, w, s, e)
    BY <1>3, <2>1
  <2>3. s \in 0 .. Top /\ e \in 0 .. Top /\ Top \in Nat \ {0}
    BY <1>1, <1>3, <1>7, Turn DEF Unmap
  <2>4. \A v \in m2 : \/ v \in m /\ v # w
                      \/ w.start < s /\ v = LowerPart(w, s)
                      \/ w.end > e /\ v = UpperPart(m, w, s, e)
    BY <2>2 DEF Rest
  <2>5. CASE e = w.end
    <3>1. \A v \in m2 : v \in m \/ v.end <= w.end
      BY <1>3, <1>5, <2>1, <2>3, <2>4, <2>5 DEF LowerPart
    <3>2. \A v \in m : v # w => v \in m2
      BY <2>2
    <3>3. vma_iter' = VmNext(m, w.id)
      BY <1>3, <2>1, <2>5
    <3>4. QED
      BY <1>3, <1>6, <2>1, <2>2, <3>1, <3>2, <3>3
  <2>6. CASE e # w.end
    <3>1. vma_iter' = w.id /\ e < w.end
      BY <1>3, <1>5, <2>1, <2>3, <2>6
    <3>2. \E x \in m2 : x.id = w.id
      <4>1. CASE w.start < s
        <5>1. LowerPart(w, s) \in m2
          BY <4>1, <2>2 DEF Rest
        <5>2. LowerPart(w, s).id = w.id
          BY DEF LowerPart
        <5>3. QED
          BY <5>1, <5>2
      <4>2. CASE ~(w.start < s)
        <5>1. UpperPart(m, w, s, e) \in m2
          BY <3>1, <2>2, <2>3, <1>5 DEF Rest
        <5>2. UpperPart(m, w, s, e).id = w.id
          BY <4>2 DEF UpperPart
        <5>3. QED
          BY <5>1, <5>2
      <4>3. QED
        BY <4>1, <4>2
    <3>3. ASSUME NEW x \in m2, NEW v \in m2, x.id = w.id, x.start <= v.start PROVE v.kind # "rwx"
      <4>1. w.kind # "rwx"
        BY <2>1, <2>2, <1>4, <1>5
      <4>2. x.start \in Int /\ v.start \in Int /\ w.start <= x.start
        <5>1. \A u \in m : u # w => u.id # w.id
          BY <2>2, <1>4, VmaApart
        <5>2. \/ w.start < s /\ x = LowerPart(w, s)
              \/ w.end > e /\ x = UpperPart(m, w, s, e)
          BY <5>1, <3>3, <2>4
        <5>3. x.start = w.start \/ x.start = e
          BY <5>2 DEF LowerPart, UpperPart
        <5>4. x.start \in Int /\ v.start \in Int
          BY <2>2, <3>3, VmaShape
        <5>5. QED
          BY <5>3, <5>4, <2>1, <2>3, <1>3, <1>5
      <4>3. CASE v \in m
        BY <4>2, <4>3, <3>3, <2>1, <2>2, <1>3, <1>4, <1>5
      <4>4. CASE v \notin m
        BY <4>1, <4>4, <2>4 DEF LowerPart, UpperPart
      <4>5. QED
        BY <4>3, <4>4
    <3>4. QED
      BY <3>1, <3>2, <3>3, <1>3
  <2>7. QED
    BY <2>5, <2>6
<1>8. CASE MapBack
  <2>1. /\ vma_iter' = vma_iter /\ in_vmas = FALSE /\ cursor < next_cursor
        /\ \E P, n : MappedAs(mm, cursor, next_cursor, P, n, mm')
        /\ WellFormed(mm')
    BY <1>1, <1>8, MapBackFacts
  <2>2. PICK P, n : MappedAs(m, s, e, P, n, m2)
    BY <2>1, <1>3
  <2>3. /\ m2 = (m \ P) \cup {n} /\ n.start <= s /\ n.start \in Int
        /\ \A v \in P : v.kind = "rwx"
    BY <2>2 DEF MappedAs, VmaType, Page
  <2>4. CASE vma_iter = NULL
    <3>1. \A x \in m2 : x.id # NULL
      BY <2>1, <1>3, VmaShape
    <3>2. QED
      BY <3>1, <2>1, <2>4, <1>3
  <2>5. CASE vma_iter # NULL
    <3>1. PICK w \in m : w.id = vma_iter
      BY <2>5, <1>4
    <3>2. s < e /\ e <= w.start /\ s \in Int /\ e \in Int
      BY <3>1, <2>1, <1>1, <1>3, <1>8, Turn DEF MapBack
    <3>3. w.kind # "rwx"
      BY <3>1, <1>4, <1>5
    <3>4. w \in m2
      BY <3>3, <2>3
    <3>5. \A x \in m2 : x.id = w.id => x = w
      BY <3>4, <2>1, <1>3, VmaApart
    <3>6. \A v \in m2 : w.start <= v.start => v.kind # "rwx"
      BY <3>1, <3>2, <2>3, <1>4, <1>5
    <3>7. QED
      BY <3>1, <3>4, <3>5, <3>6, <2>1, <1>3
  <2>6. QED
    BY <2>4, <2>5
<1>9. CASE Skip
  <2>1. /\ m2 = m /\ Looping
        /\ vma_iter' = vma_iter \/ (in_vmas /\ vma_iter' = next_vma_iter)
    BY <1>3, <1>9 DEF Skip, advance
  <2>2. CASE vma_iter' = vma_iter
    BY <2>1, <2>2, <1>3, <1>4
  <2>3. CASE in_vmas /\ vma_iter' = next_vma_iter
    <3>1. PICK w \in m : w.id = vma_iter /\ next_vma_iter = VmNext(m, w.id)
      BY <2>1, <2>3, <1>1, <1>3, Turn
    <3>2. QED
      BY <2>1, <2>3, <3>1, <1>3, <1>4, <1>6
  <2>4. QED
    BY <2>1, <2>2, <2>3
<1>10. CASE UnmapFails \/ MapBackFails \/ Finish \/ UNCHANGED vars
  <2>1. m2 = m /\ vma_iter' = vma_iter
    BY <1>3, <1>10 DEF UnmapFails, MapBackFails, Finish, vars, iterVars
  <2>2. QED
    BY <2>1, <1>3, <1>4
<1>11. QED
  BY <1>1, <1>7, <1>8, <1>9, <1>10 DEF Next

LEMMA AheadHolds ==
  Spec => []AheadOK
<1>1. Spec => [](TypeInv /\ AheadOK)
  BY TypeInit, TypeStep, AheadInit, AheadStep, PTL DEF Spec
<1>2. QED
  BY <1>1, PTL

\* vma_iter never points to a freed struct on a first restore: vm_next is read
\* before vm_munmap frees the mapping it unmaps, and what vm_mmap merges with, and
\* so frees, was mapped by the loop itself and lies behind the iterator
\* (memory.c:583, 604, 618).
THEOREM IteratorNeverFreed ==
  Spec => []IteratorLive
<1>1. AheadOK => IteratorLive
  BY DEF AheadOK, IteratorLive
<1>2. QED
  BY <1>1, AheadHolds, PTL

-----------------------------------------------------------------------------
(* What is mapped at a page. *)

Kind(m, p) ==
  IF \E v \in m : v.start <= p /\ p < v.end
  THEN (CHOOSE v \in m : v.start <= p /\ p < v.end).kind ELSE "none"

LEMMA KindIs ==
  ASSUME NEW m, WellFormed(m), NEW p \in Page
  PROVE  /\ \A v \in m : v.start <= p /\ p < v.end => Kind(m, p) = v.kind
         /\ (\A v \in m : ~(v.start <= p /\ p < v.end)) => Kind(m, p) = "none"
<1>0. Top \in Nat \ {0} /\ p \in Int
  BY RestoreVmasAssumption DEF Page
<1>1. ASSUME NEW u \in m, NEW v \in m, u.start <= p, p < u.end, v.start <= p, p < v.end
      PROVE  u = v
  <2>1. ~(u.end <= v.start \/ v.end <= u.start)
    BY <1>0, <1>1, VmaShape
  <2>2. QED
    BY <2>1, VmaApart
<1>2. ASSUME NEW v \in m, v.start <= p, p < v.end
      PROVE  Kind(m, p) = v.kind
  <2>1. (CHOOSE u \in m : u.start <= p /\ p < u.end) = v
    BY <1>1, <1>2
  <2>2. QED
    BY <1>2, <2>1 DEF Kind
<1>3. (\A v \in m : ~(v.start <= p /\ p < v.end)) => Kind(m, p) = "none"
  BY DEF Kind
<1>4. QED
  BY <1>2, <1>3

LEMMA KindUnmapped ==
  ASSUME NEW m, WellFormed(m), NEW m2, WellFormed(m2), NEW w \in m,
         NEW s \in Int, NEW e \in Int, w.start <= s, s < e, e <= w.end,
         m2 = (m \ {w}) \cup Rest(m, w, s, e), NEW p \in Page
  PROVE  Kind(m2, p) = IF s <= p /\ p < e THEN "none" ELSE Kind(m, p)
<1>0. Top \in Nat \ {0} /\ p \in Int
  BY RestoreVmasAssumption DEF Page
<1>1. \A v \in m : v.start \in Int /\ v.end \in Int /\ v.start < v.end
  BY VmaShape
<1>2. \A v \in m2 : \/ v \in m /\ v # w
                    \/ v.start = w.start /\ v.end = s
                    \/ v.start = e /\ v.end = w.end
  BY DEF Rest, LowerPart, UpperPart
<1>3. \A v \in m : v # w => v \in m2 /\ (v.end <= w.start \/ w.end <= v.start)
  BY VmaApart
<1>4. CASE s <= p /\ p < e
  <2>1. \A v \in m2 : ~(v.start <= p /\ p < v.end)
    BY <1>0, <1>1, <1>2, <1>3, <1>4
  <2>2. QED
    BY <1>4, <2>1, KindIs
<1>5. CASE ~(s <= p /\ p < e) /\ w.start <= p /\ p < w.end
  <2>1. Kind(m, p) = w.kind
    BY <1>5, KindIs
  <2>2. \E v \in m2 : v.start <= p /\ p < v.end /\ v.kind = w.kind
    <3>1. CASE p < s
      <4>1. w.start < s
        BY <3>1, <1>0, <1>1, <1>5
      <4>2. LowerPart(w, s) \in m2
        BY <4>1 DEF Rest
      <4>3. QED
        BY <4>2, <3>1, <1>5 DEF LowerPart
    <3>2. CASE ~(p < s)
      <4>1. e <= p /\ w.end > e
        BY <3>2, <1>0, <1>1, <1>5
      <4>2. UpperPart(m, w, s, e) \in m2
        BY <4>1 DEF Rest
      <4>3. UpperPart(m, w, s, e).start = e /\ UpperPart(m, w, s, e).end = w.end
            /\ UpperPart(m, w, s, e).kind = w.kind
        BY DEF UpperPart
      <4>4. QED
        BY <4>1, <4>2, <4>3, <1>5
    <3>3. QED
      BY <3>1, <3>2
  <2>3. Kind(m2, p) = w.kind
    BY <2>2, KindIs
  <2>4. QED
    BY <1>5, <2>1, <2>3
<1>6. CASE ~(s <= p /\ p < e) /\ ~(w.start <= p /\ p < w.end)
  <2>1. CASE \E v \in m : v.start <= p /\ p < v.end
    <3>1. PICK v \in m : v.start <= p /\ p < v.end
      BY <2>1
    <3>2. v \in m2
      BY <3>1, <1>3, <1>6
    <3>3. Kind(m, p) = v.kind /\ Kind(m2, p) = v.kind
      BY <3>1, <3>2, KindIs
    <3>4. QED
      BY <3>3, <1>6
  <2>2. CASE \A v \in m : ~(v.start <= p /\ p < v.end)
    <3>1. \A v \in m2 : ~(v.start <= p /\ p < v.end)
      BY <2>2, <1>0, <1>1, <1>2, <1>6
    <3>2. QED
      BY <3>1, <2>2, <1>6, KindIs
  <2>3. QED
    BY <2>1, <2>2
<1>7. QED
  BY <1>4, <1>5, <1>6

LEMMA KindMapped ==
  ASSUME NEW m, WellFormed(m), NEW m2, WellFormed(m2),
         NEW s \in Int, NEW e \in Int, s < e,
         NEW P, NEW n, MappedAs(m, s, e, P, n, m2), NEW p \in Page
  PROVE  Kind(m2, p) = IF s <= p /\ p < e THEN "rwx" ELSE Kind(m, p)
<1>0. Top \in Nat \ {0} /\ p \in Int
  BY RestoreVmasAssumption DEF Page
<1>1. \A v \in m : v.start \in Int /\ v.end \in Int /\ v.start < v.end
  BY VmaShape
<1>2. /\ m2 = (m \ P) \cup {n} /\ P \subseteq m
      /\ n.kind = "rwx" /\ n.start <= s /\ e <= n.end /\ n.start \in Int /\ n.end \in Int
      /\ \A v \in P : v.kind = "rwx" /\ n.start <= v.start /\ v.end <= n.end
      /\ n.start < s => \E v \in P : v.end = s /\ v.start = n.start
      /\ e < n.end => \E v \in P : v.start = e /\ v.end = n.end
  BY DEF MappedAs, VmaType, Page
<1>3. n \in m2
  BY <1>2
<1>4. CASE s <= p /\ p < e
  <2>1. n.start <= p /\ p < n.end
    BY <1>0, <1>2, <1>4
  <2>2. QED
    BY <1>2, <1>3, <1>4, <2>1, KindIs
<1>5. CASE ~(s <= p /\ p < e)
  <2>1. CASE \E v \in m : v.start <= p /\ p < v.end
    <3>1. PICK v \in m : v.start <= p /\ p < v.end
      BY <2>1
    <3>2. Kind(m, p) = v.kind
      BY <3>1, KindIs
    <3>3. CASE v \in P
      <4>1. n.start <= p /\ p < n.end /\ v.kind = n.kind
        BY <3>1, <3>3, <1>0, <1>1, <1>2
      <4>2. QED
        BY <4>1, <3>2, <1>3, <1>5, KindIs
    <3>4. CASE v \notin P
      <4>1. v \in m2
        BY <3>4, <1>2
      <4>2. QED
        BY <4>1, <3>1, <3>2, <1>5, KindIs
    <3>5. QED
      BY <3>3, <3>4
  <2>2. CASE \A v \in m : ~(v.start <= p /\ p < v.end)
    <3>1. ~(n.start <= p /\ p < n.end)
      BY <2>2, <1>0, <1>1, <1>2, <1>5
    <3>2. \A v \in m2 : ~(v.start <= p /\ p < v.end)
      BY <3>1, <2>2, <1>2
    <3>3. QED
      BY <3>2, <2>2, <1>5, KindIs
  <2>3. QED
    BY <2>1, <2>2
<1>6. QED
  BY <1>4, <1>5

LEMMA UnmapKinds ==
  ASSUME TypeInv, Unmap, NEW p \in Page
  PROVE  KindAt(p)' = IF cursor <= p /\ p < next_cursor THEN "none" ELSE KindAt(p)
<1>1. PICK w \in mm :
        /\ w.start <= cursor /\ cursor < next_cursor /\ next_cursor <= w.end
        /\ mm' = (mm \ {w}) \cup Rest(mm, w, cursor, next_cursor)
        /\ WellFormed(mm')
  BY UnmapFacts
<1>2. PICK m, m2, s, e : m = mm /\ m2 = mm' /\ s = cursor /\ e = next_cursor
  OBVIOUS
<1>3. s \in Int /\ e \in Int
  BY <1>2, Turn DEF Unmap
<1>4. WellFormed(m) /\ WellFormed(m2) /\ w \in m /\ m2 = (m \ {w}) \cup Rest(m, w, s, e)
  BY <1>1, <1>2 DEF TypeInv
<1>5. w.start <= s /\ s < e /\ e <= w.end
  BY <1>1, <1>2
<1>6. Kind(m2, p) = IF s <= p /\ p < e THEN "none" ELSE Kind(m, p)
  BY <1>3, <1>4, <1>5, KindUnmapped
<1>7. KindAt(p)' = Kind(m2, p) /\ KindAt(p) = Kind(m, p)
  BY <1>2 DEF KindAt, Kind
<1>8. QED
  BY <1>2, <1>6, <1>7

LEMMA MapBackKinds ==
  ASSUME TypeInv, MapBack, NEW p \in Page
  PROVE  /\ KindAt(p)' = IF cursor <= p /\ p < next_cursor THEN "rwx" ELSE KindAt(p)
         /\ cursor <= p /\ p < next_cursor => KindAt(p) = "none"
<1>1. /\ cursor < next_cursor /\ WellFormed(mm')
      /\ \E P, n : MappedAs(mm, cursor, next_cursor, P, n, mm')
      /\ \A v \in mm : v.end <= cursor \/ next_cursor <= v.start
  BY MapBackFacts
<1>2. PICK m, m2, s, e : m = mm /\ m2 = mm' /\ s = cursor /\ e = next_cursor
  OBVIOUS
<1>3. s \in Int /\ e \in Int /\ s < e
  BY <1>1, <1>2, Turn DEF MapBack
<1>4. WellFormed(m) /\ WellFormed(m2)
  BY <1>1, <1>2 DEF TypeInv
<1>5. PICK P, n : MappedAs(m, s, e, P, n, m2)
  BY <1>1, <1>2
<1>6. Kind(m2, p) = IF s <= p /\ p < e THEN "rwx" ELSE Kind(m, p)
  BY <1>3, <1>4, <1>5, KindMapped
<1>7. KindAt(p)' = Kind(m2, p) /\ KindAt(p) = Kind(m, p)
  BY <1>2 DEF KindAt, Kind
<1>8. s <= p /\ p < e => Kind(m, p) = "none"
  <2>1. SUFFICES ASSUME s <= p, p < e PROVE Kind(m, p) = "none"
    OBVIOUS
  <2>2. \A v \in m : ~(v.start <= p /\ p < v.end)
    <3>1. \A v \in m : v.start \in Int /\ v.end \in Int
      BY <1>4, VmaShape
    <3>2. p \in Int
      BY RestoreVmasAssumption DEF Page
    <3>3. QED
      BY <3>1, <3>2, <2>1, <1>1, <1>2, <1>3
  <2>3. QED
    BY <2>2, <1>4, KindIs
<1>9. QED
  BY <1>2, <1>6, <1>7, <1>8

-----------------------------------------------------------------------------
(* Only towards the snapshot. *)

LEMMA KindInit ==
  ASSUME NEW l \in Layouts(CurrentKinds), NEW p \in Page
  PROVE  Kind(VmasOf(l), p) = l[p]
<1>0. Top \in Nat \ {0} /\ p \in Int
  BY RestoreVmasAssumption DEF Page
<1>1. PICK m : m = VmasOf(l)
  OBVIOUS
<1>2. /\ WellFormed(m)
      /\ \A v \in m : \E i \in Intervals(l) :
           v.start = i.start /\ v.end = i.end /\ v.kind = l[i.start]
  BY <1>1, VmasOfOK
<1>3. CASE l[p] = "none"
  <2>1. \A v \in m : ~(v.start <= p /\ p < v.end)
    BY <1>0, <1>2, <1>3, IntervalInside
  <2>2. QED
    BY <1>1, <1>2, <1>3, <2>1, KindIs
<1>4. CASE l[p] # "none"
  <2>1. PICK i \in Intervals(l) : i.start <= p /\ p < i.end
    BY <1>4, IntervalCovers
  <2>2. \E v \in m : v.start = i.start /\ v.end = i.end /\ v.kind = l[i.start]
    <3>1. PICK v : v = [id |-> i.start + 1, start |-> i.start, end |-> i.end, kind |-> l[i.start]]
      OBVIOUS
    <3>2. v \in m
      BY <3>1, <1>1, <2>1 DEF VmasOf
    <3>3. QED
      BY <3>1, <3>2
  <2>3. l[p] = l[i.start]
    BY <1>0, <2>1, IntervalInside
  <2>4. QED
    BY <1>1, <1>2, <2>1, <2>2, <2>3, KindIs
<1>5. QED
  BY <1>3, <1>4

LEMMA InitKinds ==
  ASSUME Init, NEW p \in Page
  PROVE  KindAt(p) = before[p]
<1>1. PICK l : l = before
  OBVIOUS
<1>2. l \in Layouts(CurrentKinds) /\ mm = VmasOf(l)
  BY <1>1 DEF Init
<1>3. Kind(VmasOf(l), p) = l[p]
  BY <1>2, KindInit
<1>4. QED
  BY <1>1, <1>2, <1>3 DEF KindAt, Kind

LEMMA TowardsInit ==
  Init => TowardsOK
<1>1. SUFFICES ASSUME Init PROVE TowardsOK
  OBVIOUS
<1>2. SsFlagOK
  <2>1. PICK S, k : S = all_vmas /\ k = snap
    OBVIOUS
  <2>2. S \in SUBSET Intervals(k)
    BY <2>1, <1>1 DEF Init
  <2>3. \/ S = {} /\ SsStart(S) = Top
        \/ \E n \in S : SsStart(S) = n.start /\ \A u \in S : n.start <= u.start
    BY <2>2, SsStartFacts
  <2>4. QED
    BY <2>1, <2>3, <1>1 DEF Init, SsFlagOK
<1>3. PathOK
  <2>1. PICK l : l = before
    OBVIOUS
  <2>2. \A v \in mm : \E i \in Intervals(l) :
          v.start = i.start /\ v.end = i.end /\ v.kind = l[i.start]
    BY <2>1, <1>1, VmasOfOK DEF Init
  <2>3. \A v \in mm : \E i \in Intervals(l) :
          v.end <= i.end /\ v.kind = l[i.start] /\ i.start <= v.start
    <3>1. \A i \in Intervals(l) : i.start <= i.start /\ i.end <= i.end
      BY IntervalShape
    <3>2. QED
      BY <3>1, <2>2
  <2>4. PartOK
    BY <2>1, <2>3 DEF PartOK
  <2>5. QED
    BY <2>4, <1>1 DEF Init, PathOK, EdgeOK, CutOK, BackOK
<1>4. OnlyTowardsSnapshot
  BY <1>1, InitKinds DEF OnlyTowardsSnapshot
<1>5. QED
  BY <1>2, <1>3, <1>4 DEF TowardsOK

\* The cursor only goes back inside a mapping of the snapshot.
LEMMA Forward ==
  ASSUME TypeInv, Looping, ~in_ss_vmas
  PROVE  cursor <= next_cursor
<1>1. CASE in_vmas
  <2>1. vma_iter # NULL
    BY <1>1, Turn
  <2>2. PICK w \in mm : w.id = vma_iter /\ next_vma_pos = w.end
    BY <1>1, <2>1, Turn
  <2>3. cursor <= w.end
    BY <1>1, <2>2 DEF TypeInv, IterOK
  <2>4. QED
    BY <2>2, <2>3, Turn
<1>2. CASE ~in_vmas
  BY <1>2, Turn
<1>3. QED
  BY <1>1, <1>2

LEMMA SsFlagStep ==
  ASSUME TypeInv, SsFlagOK, Looping, advance, UNCHANGED layoutVars
  PROVE  SsFlagOK'
<1> DEFINE nc == next_cursor
           sp == next_ss_vma_pos
<1>0. /\ Top \in Nat \ {0} /\ nc \in 0 .. Top /\ sp \in 0 .. Top + 1 /\ nc <= sp
      /\ cursor \in 0 .. Top /\ cursor' = nc /\ all_vmas' = all_vmas /\ all_vmas = Intervals(snap)
      /\ in_ss_vmas \in BOOLEAN
  BY Turn DEF advance, layoutVars, TypeInv, TypeOK
<1>1. /\ nc = sp => in_ss_vmas' = ~in_ss_vmas
      /\ nc # sp => in_ss_vmas' = in_ss_vmas
      /\ nc = sp /\ in_ss_vmas => ss_vma_iter' = SsNext
      /\ ~(nc = sp /\ in_ss_vmas) => ss_vma_iter' = ss_vma_iter
  BY DEF advance
<1>2. /\ AtHead => sp = Top + 1 /\ ~in_ss_vmas
      /\ ~AtHead => \E i \in Intervals(snap) : i.start = ss_vma_iter
      /\ \A i \in Intervals(snap) : i.start = ss_vma_iter =>
           sp = IF in_ss_vmas THEN i.end ELSE i.start
  BY Turn
<1>3. ~in_ss_vmas => cursor <= nc
  BY Forward
<1>4. \A i \in Intervals(snap) : i.start \in Int /\ i.end \in Int /\ i.start < i.end /\ i.start < Top
  BY <1>0, IntervalShape
<1> HIDE DEF nc, sp
<1>5. CASE nc = sp /\ in_ss_vmas
  <2>1. PICK i \in Intervals(snap) : i.start = ss_vma_iter /\ sp = i.end
    BY <1>0, <1>2, <1>5
  <2>2. \/ ss_vma_iter' = Top /\ \A u \in Intervals(snap) : u.end <= i.end
        \/ \E n \in Intervals(snap) :
             /\ ss_vma_iter' = n.start
             /\ \A u \in Intervals(snap) : u.end <= i.end \/ n.start <= u.start
    BY <1>0, <1>1, <1>5, <2>1, SsNextFacts
  <2>3. in_ss_vmas' = FALSE /\ cursor' = i.end
    BY <1>0, <1>1, <1>5, <2>1
  <2>4. \A u \in Intervals(snap) : u.end <= cursor' \/ ss_vma_iter' <= u.start
    BY <2>2, <2>3
  <2>5. QED
    BY <2>3, <2>4, <1>0 DEF SsFlagOK
<1>6. CASE nc = sp /\ ~in_ss_vmas
  <2>1. in_ss_vmas' = TRUE /\ ss_vma_iter' = ss_vma_iter
    BY <1>0, <1>1, <1>6
  <2>2. \A i \in Intervals(snap) : i.start = ss_vma_iter => cursor' < i.end
    BY <1>0, <1>2, <1>4, <1>6
  <2>3. QED
    BY <2>1, <2>2, <1>0 DEF SsFlagOK
<1>7. CASE nc # sp
  <2>1. in_ss_vmas' = in_ss_vmas /\ ss_vma_iter' = ss_vma_iter
    BY <1>1, <1>7
  <2>2. \A i \in Intervals(snap) : in_ss_vmas /\ i.start = ss_vma_iter => cursor' < i.end
    BY <1>0, <1>2, <1>4, <1>7
  <2>3. ~in_ss_vmas => \A i \in Intervals(snap) : i.end <= cursor' \/ ss_vma_iter <= i.start
    BY <1>0, <1>3, <1>4 DEF SsFlagOK
  <2>4. QED
    BY <2>1, <2>2, <2>3, <1>0 DEF SsFlagOK
<1>8. QED
  BY <1>5, <1>6, <1>7

\* Outside the snapshot's mappings, [cursor, next_cursor) was not mapped then.
LEMMA GapIsNone ==
  ASSUME TypeInv, SsFlagOK, Looping, ~in_ss_vmas, NEW p \in cursor .. next_cursor - 1
  PROVE  p \in Page /\ snap[p] = "none"
<1>0. /\ Top \in Nat \ {0} /\ cursor \in 0 .. Top /\ next_cursor \in 0 .. Top
      /\ next_cursor <= next_ss_vma_pos
  BY Turn
<1>1. p \in Page /\ p \in Int /\ cursor <= p /\ p < next_cursor
  BY <1>0 DEF Page
<1>2. SUFFICES ASSUME snap[p] # "none" PROVE FALSE
  BY <1>1
<1>3. PICK i \in Intervals(snap) : i.start <= p /\ p < i.end
  BY <1>1, <1>2, IntervalCovers
<1>4. i.start \in 0 .. Top - 1 /\ i.end \in 1 .. Top
  BY IntervalShape
<1>5. ss_vma_iter <= i.start
  <2>1. i.end <= cursor \/ ss_vma_iter <= i.start
    BY DEF SsFlagOK, TypeInv
  <2>2. QED
    BY <2>1, <1>0, <1>1, <1>3, <1>4
<1>6. CASE AtHead
  BY <1>0, <1>4, <1>5, <1>6 DEF AtHead, ListHead
<1>7. CASE ~AtHead
  <2>1. PICK j \in Intervals(snap) : j.start = ss_vma_iter /\ next_ss_vma_pos = j.start
    BY <1>7, Turn
  <2>2. j.start \in Int
    BY IntervalShape
  <2>3. QED
    BY <2>1, <2>2, <1>0, <1>1, <1>3, <1>4, <1>5
<1>8. QED
  BY <1>6, <1>7

\* A step that keeps the cursor from going back keeps BackOK.
LEMMA BackForward ==
  ASSUME TypeInv, BackOK, Looping, advance, UNCHANGED layoutVars, cursor <= next_cursor
  PROVE  BackOK'
<1>0. /\ Top \in Nat \ {0} /\ next_cursor \in 0 .. Top /\ cursor \in 0 .. Top
      /\ cursor' = next_cursor /\ all_vmas' = all_vmas /\ all_vmas = Intervals(snap)
      /\ before' = before /\ in_ss_vmas \in BOOLEAN
  BY Turn DEF advance, layoutVars, TypeInv, TypeOK
<1>1. SUFFICES ASSUME in_ss_vmas', NEW i \in Intervals(snap), i.start = ss_vma_iter',
                      NEW p \in next_cursor .. i.start - 1
               PROVE  before[p] = "rwx"
  BY <1>0 DEF BackOK
<1>2. i.start \in Int
  BY IntervalShape
<1>3. CASE in_ss_vmas
  <2>1. ss_vma_iter' = ss_vma_iter
    BY <1>1, <1>3 DEF advance
  <2>2. p \in cursor .. i.start - 1
    BY <1>0, <1>2
  <2>3. QED
    BY <2>1, <2>2, <1>0, <1>1, <1>3 DEF BackOK
<1>4. CASE ~in_ss_vmas
  <2>1. ss_vma_iter' = ss_vma_iter /\ next_cursor = next_ss_vma_pos
    BY <1>1, <1>4 DEF advance
  <2>2. next_cursor = i.start
    BY <2>1, <1>1, <1>4, Turn
  <2>3. QED
    BY <2>2, <1>0, <1>2
<1>5. QED
  BY <1>3, <1>4

\* The iterator moves on: what lies from the next mapping on lay behind this one.
LEMMA PartNext ==
  ASSUME TypeInv, PartOK, NEW w \in mm, w.id = vma_iter, vma_iter' = VmNext(mm, w.id),
         WellFormed(mm'), before' = before,
         \A v \in mm : v # w => v \in mm',
         \A v \in mm' : (v \in mm /\ v # w) \/ v.end <= w.end
  PROVE  PartOK'
<1>1. SUFFICES ASSUME NEW x \in mm', NEW v \in mm', x.id = vma_iter', x.start <= v.start
               PROVE  \E i \in Intervals(before) :
                        v.end <= i.end /\ v.kind = before[i.start] /\ i.start <= v.start
  BY DEF PartOK
<1>2. PICK m, m2 : m = mm /\ m2 = mm'
  OBVIOUS
<1>3. WellFormed(m) /\ WellFormed(m2)
  BY <1>2 DEF TypeInv
<1>4. /\ \A u \in m : u.start \in Int /\ u.end \in Int /\ u.start < u.end /\ u.id # NULL
      /\ \A u \in m2 : u.start \in Int /\ u.end \in Int /\ u.start < u.end /\ u.id # NULL
  BY <1>3, VmaShape
<1>5. VmNext(m, w.id) # NULL
  BY <1>1, <1>2, <1>4
<1>6. PICK n \in m : VmNext(m, w.id) = n.id /\ w.end <= n.start /\ n # w
  BY <1>2, <1>3, <1>5, NextFacts
<1>7. x = n
  BY <1>1, <1>2, <1>3, <1>6, VmaApart
<1>8. ~(v.end <= w.end)
  BY <1>1, <1>2, <1>4, <1>6, <1>7
<1>9. v \in mm /\ v # w /\ w.start <= v.start
  BY <1>1, <1>2, <1>4, <1>6, <1>7, <1>8
<1>10. QED
  BY <1>9 DEF PartOK

LEMMA UnmapPath ==
  ASSUME TypeInv, SsFlagOK, PathOK, ~Merged, Unmap
  PROVE  PathOK'
<1>1. PICK w \in mm :
        /\ w.id = vma_iter /\ in_vmas = TRUE /\ in_ss_vmas = FALSE
        /\ w.start <= cursor /\ cursor < next_cursor /\ next_cursor <= w.end
        /\ mm' = (mm \ {w}) \cup Rest(mm, w, cursor, next_cursor)
        /\ WellFormed(mm') /\ cursor' = next_cursor
        /\ next_cursor = w.end => vma_iter' = VmNext(mm, w.id) /\ in_vmas' = FALSE
        /\ next_cursor # w.end => /\ vma_iter' = vma_iter /\ in_vmas' = TRUE
                                  /\ in_ss_vmas' = TRUE /\ next_cursor = next_ss_vma_pos
  BY UnmapFacts
<1>0. /\ Looping /\ advance /\ UNCHANGED layoutVars
      /\ Top \in Nat \ {0} /\ cursor \in 0 .. Top /\ next_cursor \in 0 .. Top
      /\ snap' = snap /\ before' = before /\ all_vmas' = all_vmas
      /\ PartOK /\ EdgeOK /\ CutOK /\ BackOK
  BY Turn DEF Unmap, layoutVars, PathOK
<1>2. PICK m, m2, s, e : m = mm /\ m2 = mm' /\ s = cursor /\ e = next_cursor
  OBVIOUS
<1>3. WellFormed(m) /\ WellFormed(m2) /\ w \in m /\ m2 = (m \ {w}) \cup Rest(m, w, s, e)
  BY <1>1, <1>2 DEF TypeInv
<1>4. w.start \in 0 .. Top - 1 /\ w.end \in 1 .. Top /\ w.start < w.end
  BY <1>3, VmaShape
<1>5. \A v \in m2 : \/ v \in m /\ v # w
                    \/ w.start < s /\ v = LowerPart(w, s)
                    \/ w.end > e /\ v = UpperPart(m, w, s, e)
  BY <1>3 DEF Rest
<1>6. BackOK'
  BY <1>0, <1>1, BackForward
<1>7. CASE e = w.end
  <2>1. \A v \in m2 : (v \in m /\ v # w) \/ v.end <= w.end
    BY <1>0, <1>1, <1>2, <1>4, <1>5, <1>7 DEF LowerPart
  <2>2. \A v \in m : v # w => v \in m2
    BY <1>3
  <2>3. PartOK'
    BY <2>1, <2>2, <1>0, <1>1, <1>2, <1>7, PartNext
  <2>4. EdgeOK' /\ CutOK'
    BY <1>1, <1>2, <1>7 DEF EdgeOK, CutOK
  <2>5. QED
    BY <2>3, <2>4, <1>6 DEF PathOK
<1>8. CASE e # w.end
  <2>1. /\ vma_iter' = w.id /\ in_vmas' = TRUE /\ in_ss_vmas' = TRUE /\ cursor' = e
        /\ e < w.end /\ s < e /\ w.start <= s /\ s \in 0 .. Top - 1 /\ e \in 0 .. Top - 1
    BY <1>0, <1>1, <1>2, <1>4, <1>8
  <2>2. PICK i \in Intervals(before) :
          /\ w.end <= i.end /\ w.kind = before[i.start]
          /\ i.start <= w.start \/ (w.kind = "rwx" /\ i.start <= s)
    BY <1>0, <1>1, <1>2, <1>4 DEF PartOK
  <2>3. i.start \in 0 .. Top - 1 /\ i.end \in 1 .. Top /\ i.start <= s
    BY <2>1, <2>2, <1>4, IntervalShape
  <2>4. \A u \in m : u # w => u.id # w.id
    BY <1>3, VmaApart
  <2>5. \A x \in m2 : x.id = w.id =>
          \/ w.start < s /\ x = LowerPart(w, s)
          \/ x = UpperPart(m, w, s, e) /\ ~(w.start < s)
    <3>1. w.start < s => UpperPart(m, w, s, e).id # w.id
      BY <1>3, FreshFacts DEF UpperPart
    <3>2. QED
      BY <3>1, <2>4, <1>5
  <2>6. /\ LowerPart(w, s).start = w.start /\ LowerPart(w, s).end = s /\ LowerPart(w, s).kind = w.kind
        /\ UpperPart(m, w, s, e).start = e /\ UpperPart(m, w, s, e).end = w.end
        /\ UpperPart(m, w, s, e).kind = w.kind
    BY DEF LowerPart, UpperPart
  <2>7. PartOK'
    <3>1. SUFFICES ASSUME NEW x \in m2, NEW v \in m2, x.id = w.id, x.start <= v.start
                   PROVE  \E j \in Intervals(before) :
                            /\ v.end <= j.end /\ v.kind = before[j.start]
                            /\ \/ j.start <= v.start
                               \/ v = x /\ in_vmas' /\ v.kind = "rwx" /\ j.start <= cursor'
      BY <2>1, <1>0, <1>2 DEF PartOK
    <3>2. x.start \in Int /\ v.start \in Int /\ w.start <= x.start
      <4>1. x.start \in Int /\ v.start \in Int
        BY <1>3, VmaShape
      <4>2. QED
        BY <4>1, <3>1, <2>1, <2>5, <2>6, <1>4
    <3>3. CASE v \in m /\ v # w
      <4>1. w.start <= v.start
        BY <3>1, <3>2, <1>4
      <4>2. QED
        BY <4>1, <3>3, <1>0, <1>1, <1>2 DEF PartOK
    <3>4. CASE w.start < s /\ v = LowerPart(w, s)
      <4>1. v.start = w.start /\ v.end <= i.end /\ v.kind = before[i.start]
        BY <3>4, <2>1, <2>2, <2>3, <2>6, <1>4
      <4>2. v.id = w.id
        BY <3>4 DEF LowerPart
      <4>3. v = x
        BY <4>2, <3>1, <1>3, VmaApart
      <4>4. i.start <= v.start \/ (v.kind = "rwx" /\ i.start <= cursor')
        BY <4>1, <2>1, <2>2, <2>3
      <4>5. QED
        BY <4>1, <4>3, <4>4, <2>1
    <3>5. CASE w.end > e /\ v = UpperPart(m, w, s, e)
      <4>1. v.end <= i.end /\ v.kind = before[i.start] /\ i.start <= v.start
        BY <3>5, <2>1, <2>2, <2>3, <2>6
      <4>2. QED
        BY <4>1
    <3>6. QED
      BY <3>3, <3>4, <3>5, <1>5
  <2>8. EdgeOK'
    BY <2>1 DEF EdgeOK
  <2>9. ss_vma_iter' = ss_vma_iter /\ e = ss_vma_iter /\ snap[e] # "none"
    <3>1. ss_vma_iter' = ss_vma_iter
      BY <1>0, <1>1 DEF advance
    <3>2. ~AtHead
      BY <1>0, <1>1, <1>2, <1>8, Turn
    <3>3. PICK j \in Intervals(snap) : j.start = ss_vma_iter
      BY <3>2, <1>0, Turn
    <3>4. next_ss_vma_pos = j.start
      BY <3>3, <1>0, <1>1, Turn
    <3>5. snap[j.start] # "none"
      BY IntervalShape
    <3>6. QED
      BY <3>1, <3>3, <3>4, <3>5, <1>1, <1>2, <1>8
  <2>10. w.start < s => \A p \in s .. e - 1 : before[p] = "rwx"
    <3>1. SUFFICES ASSUME w.start < s PROVE \A p \in s .. e - 1 : before[p] = "rwx"
      OBVIOUS
    <3>2. snap[s - 1] # "none"
      BY <3>1, <1>0, <1>1, <1>2 DEF EdgeOK
    <3>3. \A p \in s .. e - 1 : snap[p] = "none"
      BY <1>0, <1>1, <1>2, GapIsNone
    <3>4. ~(i.start < s)
      <4>1. SUFFICES ASSUME i.start < s PROVE Merged
        OBVIOUS
      <4>2. s \in Page /\ e \in Page /\ e < i.end
        BY <2>1, <2>2, <2>3, <1>4 DEF Page
      <4>3. QED
        BY <4>1, <4>2, <3>2, <3>3, <2>1, <2>9 DEF Merged
    <3>5. w.kind = "rwx" /\ i.start = s
      BY <3>1, <3>4, <2>1, <2>2, <2>3, <1>4
    <3>6. \A p \in s .. e - 1 : p \in i.start .. i.end - 1
      BY <3>5, <2>1, <2>2, <2>3, <1>4
    <3>7. QED
      BY <3>5, <3>6, <2>2, IntervalShape
  <2>11. CutOK'
    <3>1. SUFFICES ASSUME NEW x \in m2, x.id = w.id, x.end <= e
                   PROVE  \A p \in x.end .. e - 1 : before[p] = "rwx"
      BY <2>1, <2>9, <1>0, <1>2 DEF CutOK
    <3>2. w.start < s /\ x.end = s
      BY <3>1, <2>1, <2>5, <2>6, <1>4
    <3>3. QED
      BY <3>2, <2>10
  <2>12. QED
    BY <2>7, <2>8, <2>11, <1>6 DEF PathOK
<1>9. QED
  BY <1>7, <1>8

\* Where an iteration leaves a mapping of the snapshot, the page before is in it.
LEMMA EdgeHere ==
  ASSUME TypeInv, Looping, advance, in_ss_vmas, ~in_ss_vmas'
  PROVE  snap[next_cursor - 1] # "none"
<1>1. next_cursor = next_ss_vma_pos
  BY DEF advance
<1>2. ~AtHead
  BY Turn
<1>3. PICK i \in Intervals(snap) : i.start = ss_vma_iter /\ next_ss_vma_pos = i.end
  BY <1>2, Turn
<1>4. i.end - 1 \in i.start .. i.end - 1
  BY IntervalShape
<1>5. snap[i.end - 1] # "none"
  BY <1>4, IntervalShape
<1>6. QED
  BY <1>1, <1>3, <1>5

LEMMA MapBackPath ==
  ASSUME TypeInv, PathOK, MapBack
  PROVE  PathOK'
<1>0. /\ Looping /\ advance /\ UNCHANGED layoutVars
      /\ snap' = snap /\ before' = before /\ all_vmas' = all_vmas
      /\ PartOK /\ BackOK
  BY DEF MapBack, layoutVars, PathOK
<1>1. /\ in_vmas = FALSE /\ in_ss_vmas = TRUE /\ cursor < next_cursor
      /\ cursor' = next_cursor /\ vma_iter' = vma_iter
      /\ WellFormed(mm')
      /\ next_cursor = next_vma_pos => in_vmas' = TRUE
      /\ next_cursor # next_vma_pos => in_vmas' = FALSE
  BY MapBackFacts
<1>2. PICK m, m2, s, e : m = mm /\ m2 = mm' /\ s = cursor /\ e = next_cursor
  OBVIOUS
<1>3. PICK P, n : MappedAs(m, s, e, P, n, m2)
  BY <1>2, MapBackFacts
<1>4. WellFormed(m) /\ WellFormed(m2)
  BY <1>1, <1>2 DEF TypeInv
<1>5. s \in 0 .. Top /\ e \in 0 .. Top /\ Top \in Nat \ {0} /\ s < e /\ cursor' = e
  BY <1>0, <1>1, <1>2, Turn
<1>6. /\ \A v \in m : v.start \in Int /\ v.end \in Int /\ v.id # NULL /\ v.start < v.end
      /\ \A v \in m2 : v.start \in Int /\ v.end \in Int /\ v.id # NULL /\ v.start < v.end
  BY <1>4, VmaShape
<1>7. /\ m2 = (m \ P) \cup {n} /\ P \subseteq m
      /\ n.start <= s /\ e <= n.end /\ n.kind = "rwx"
      /\ \A v \in P : v.kind = "rwx" /\ (v.end = s \/ v.start = e)
      /\ e < n.end => \E v \in P : v.start = e /\ v.end = n.end
      /\ (\E v \in P : v.id = n.id) \/ (\A v \in m : v.id # n.id)
      /\ \A v \in m \ P : v.end <= n.start \/ n.end <= v.start
  BY <1>3 DEF MappedAs
<1>8. BackOK'
  <2>1. cursor <= next_cursor
    BY <1>2, <1>5
  <2>2. QED
    BY <2>1, <1>0, BackForward
<1>9. CASE vma_iter = NULL
  <2>1. \A x \in m2 : x.id # vma_iter'
    BY <1>1, <1>6, <1>9
  <2>2. QED
    BY <2>1, <1>2, <1>8 DEF PathOK, PartOK, EdgeOK, CutOK
<1>10. CASE vma_iter # NULL
  <2>1. PICK w \in m : w.id = vma_iter /\ next_vma_pos = w.start
    BY <1>0, <1>1, <1>2, <1>10, Turn
  <2>2. e <= w.start /\ (e = w.start => in_vmas' = TRUE) /\ (e # w.start => in_vmas' = FALSE)
    BY <2>1, <1>0, <1>1, <1>2, Turn
  <2>3. \A v \in m : w.start <= v.start =>
          \E i \in Intervals(before) :
            v.end <= i.end /\ v.kind = before[i.start] /\ i.start <= v.start
    BY <2>1, <1>0, <1>1, <1>2 DEF PartOK
  <2>4. \A x \in m2 : x.id = w.id => x = w \/ (x = n /\ w \in P)
    <3>1. TAKE x \in m2
    <3>2. HAVE x.id = w.id
    <3>3. CASE x \in m
      BY <3>2, <3>3, <1>4, VmaApart
    <3>4. CASE x \notin m
      <4>1. x = n /\ ~(\A v \in m : v.id # n.id)
        BY <3>2, <3>4, <1>7
      <4>2. PICK v \in P : v.id = n.id
        BY <4>1, <1>7
      <4>3. v = w
        BY <3>2, <4>1, <4>2, <1>4, <1>7, VmaApart
      <4>4. QED
        BY <4>1, <4>2, <4>3
    <3>5. QED
      BY <3>3, <3>4
  \* Where vm_mmap merged into the iterator's mapping, that one began at e.
  <2>5. w \in P => w.start = e /\ n.end = w.end /\ w.kind = "rwx"
    <3>1. SUFFICES ASSUME w \in P PROVE w.start = e /\ n.end = w.end /\ w.kind = "rwx"
      OBVIOUS
    <3>2. w.start = e /\ w.kind = "rwx"
      BY <3>1, <2>2, <1>5, <1>6, <1>7
    <3>3. w.end <= n.end
      BY <3>1, <1>3 DEF MappedAs
    <3>4. n \in m2 /\ e < n.end
      BY <3>2, <3>3, <1>5, <1>6, <1>7
    <3>5. PICK v \in P : v.start = e /\ v.end = n.end
      BY <3>4, <1>7
    <3>6. v = w
      BY <3>1, <3>2, <3>5, <1>4, <1>6, <1>7, VmaApart
    <3>7. QED
      BY <3>2, <3>5, <3>6
  <2>6. PartOK'
    <3>1. SUFFICES ASSUME NEW x \in m2, NEW v \in m2, x.id = w.id, x.start <= v.start
                   PROVE  \E i \in Intervals(before) :
                            /\ v.end <= i.end /\ v.kind = before[i.start]
                            /\ \/ i.start <= v.start
                               \/ v = x /\ in_vmas' /\ v.kind = "rwx" /\ i.start <= cursor'
      BY <2>1, <1>0, <1>1, <1>2 DEF PartOK
    <3>2. CASE x = w
      <4>1. v # n
        BY <3>1, <3>2, <2>2, <1>5, <1>6, <1>7
      <4>2. v \in m
        BY <4>1, <1>7
      <4>3. QED
        BY <4>2, <3>1, <3>2, <2>3
    <3>3. CASE x = n /\ w \in P
      <4>1. w.start = e /\ n.end = w.end /\ w.kind = "rwx" /\ in_vmas' = TRUE
        BY <3>3, <2>2, <2>5
      <4>2. CASE v = n
        <5>1. PICK i \in Intervals(before) :
                w.end <= i.end /\ w.kind = before[i.start] /\ i.start <= w.start
          BY <2>3, <1>6
        <5>2. QED
          BY <5>1, <4>1, <4>2, <3>3, <1>5, <1>7
      <4>3. CASE v # n
        <5>1. v \in m \ P
          BY <4>3, <1>7
        <5>2. v.end <= n.start \/ n.end <= v.start
          BY <5>1, <1>7
        <5>3. w.start <= v.start
          BY <5>2, <4>1, <3>1, <3>3, <1>5, <1>6
        <5>4. QED
          BY <5>1, <5>3, <2>3
      <4>4. QED
        BY <4>2, <4>3
    <3>4. QED
      BY <3>1, <3>2, <3>3, <2>4
  <2>7. EdgeOK'
    <3>1. SUFFICES ASSUME ~in_ss_vmas' PROVE snap[e - 1] # "none"
      BY <1>0, <1>5 DEF EdgeOK
    <3>2. QED
      BY <3>1, <1>0, <1>1, <1>2, EdgeHere
  <2>8. CutOK'
    <3>1. ASSUME NEW x \in m2, x.id = w.id, in_vmas' PROVE ~(x.end <= e)
      <4>1. w.start = e
        BY <3>1, <2>2
      <4>2. x.end = w.end
        BY <3>1, <2>4, <2>5
      <4>3. QED
        BY <4>1, <4>2, <1>5, <1>6
    <3>2. QED
      BY <3>1, <2>1, <1>1, <1>2, <1>5 DEF CutOK
  <2>9. QED
    BY <2>6, <2>7, <2>8, <1>8 DEF PathOK
<1>11. QED
  BY <1>9, <1>10

LEMMA SkipPath ==
  ASSUME TypeInv, SsFlagOK, PathOK, Skip
  PROVE  PathOK'
<1>0. /\ Looping /\ advance /\ UNCHANGED layoutVars /\ mm' = mm
      /\ snap' = snap /\ before' = before /\ all_vmas' = all_vmas /\ all_vmas = Intervals(snap)
      /\ PartOK /\ BackOK /\ CutOK /\ in_vmas \in BOOLEAN /\ in_ss_vmas \in BOOLEAN
  BY DEF Skip, layoutVars, PathOK, TypeInv, TypeOK
<1>1. PICK m, s, e, vp : m = mm /\ s = cursor /\ e = next_cursor /\ vp = next_vma_pos
  OBVIOUS
<1>2. WellFormed(m)
  BY <1>1 DEF TypeInv
<1>3. /\ s \in 0 .. Top /\ e \in 0 .. Top /\ Top \in Nat \ {0} /\ vp \in 0 .. Top + 1
      /\ e <= vp /\ cursor' = e
      /\ ~in_vmas => s <= e
      /\ e # vp => s <= e
  BY <1>0, <1>1, Turn DEF advance
<1>4. \A v \in m : v.start \in Int /\ v.end \in Int /\ v.id # NULL /\ v.start < v.end
  BY <1>2, VmaShape
<1>5. CASE vma_iter = NULL
  <2>1. in_vmas = FALSE /\ vma_iter' = NULL
    BY <1>0, <1>5, Turn DEF advance
  <2>2. \A x \in m : x.id # vma_iter'
    BY <2>1, <1>4
  <2>3. BackOK'
    BY <2>1, <1>0, <1>1, <1>3, BackForward
  <2>4. QED
    BY <2>2, <2>3, <1>0, <1>1 DEF PathOK, PartOK, EdgeOK, CutOK
<1>6. CASE vma_iter # NULL
  <2>1. PICK w \in m : /\ w.id = vma_iter /\ vp = (IF in_vmas THEN w.end ELSE w.start)
                       /\ next_vma_iter = VmNext(m, w.id)
    BY <1>0, <1>1, <1>6, Turn
  <2>2. \A x \in m : x.id = w.id => x = w
    BY <1>2, VmaApart
  <2>3. CASE in_vmas = TRUE /\ e = vp
    <3>1. vma_iter' = VmNext(m, w.id) /\ in_vmas' = FALSE /\ cursor' = w.end /\ e = w.end
      BY <2>1, <2>3, <1>0, <1>1, <1>3 DEF advance
    <3>2. \A v \in m : (v \in m /\ v # w) \/ v.end <= w.end
      BY <1>4
    <3>3. PartOK'
      BY <3>1, <3>2, <2>1, <1>0, <1>1, <1>2, PartNext
    <3>4. EdgeOK' /\ CutOK'
      BY <3>1 DEF EdgeOK, CutOK
    <3>5. BackOK'
      <4>1. CASE s <= e
        BY <4>1, <1>0, <1>1, BackForward
      <4>2. CASE ~(s <= e)
        <5>1. in_ss_vmas /\ s = ss_vma_iter /\ \A p \in w.end .. s - 1 : before[p] = "rwx"
          <6>1. w.end <= cursor /\ w \in mm /\ w.id = vma_iter /\ in_vmas
            BY <4>2, <3>1, <2>1, <2>3, <1>1, <1>3, <1>4
          <6>2. in_ss_vmas /\ cursor = ss_vma_iter /\ \A p \in w.end .. cursor - 1 : before[p] = "rwx"
            BY <6>1, <1>0 DEF CutOK
          <6>3. QED
            BY <6>2, <1>1
        <5>2. ~AtHead
          BY <5>1, <1>0, Turn
        <5>3. PICK i \in Intervals(snap) : i.start = ss_vma_iter /\ next_ss_vma_pos = i.end
          BY <5>1, <5>2, <1>0, Turn
        <5>4. next_cursor # next_ss_vma_pos
          BY <5>1, <5>3, <4>2, <1>1, <1>3, IntervalShape
        <5>5. ss_vma_iter' = ss_vma_iter
          BY <5>4, <1>0 DEF advance
        <5>6. ASSUME NEW j \in Intervals(snap), j.start = ss_vma_iter
              PROVE  \A p \in cursor' .. j.start - 1 : before[p] = "rwx"
          BY <5>1, <5>6, <3>1
        <5>7. QED
          BY <5>5, <5>6, <1>0 DEF BackOK
      <4>3. QED
        BY <4>1, <4>2
    <3>6. QED
      BY <3>3, <3>4, <3>5 DEF PathOK
  <2>4. CASE ~(in_vmas = TRUE /\ e = vp)
    <3>1. vma_iter' = w.id /\ s <= e /\ (in_vmas => in_vmas')
      BY <2>1, <2>4, <1>0, <1>1, <1>3 DEF advance
    <3>2. BackOK'
      BY <3>1, <1>0, <1>1, BackForward
    <3>3. PartOK'
      <4>1. SUFFICES ASSUME NEW v \in m, w.start <= v.start
                     PROVE  \E i \in Intervals(before) :
                              /\ v.end <= i.end /\ v.kind = before[i.start]
                              /\ \/ i.start <= v.start
                                 \/ v = w /\ in_vmas' /\ v.kind = "rwx" /\ i.start <= cursor'
        BY <3>1, <2>2, <1>0, <1>1 DEF PartOK
      <4>2. PICK i \in Intervals(before) :
              /\ v.end <= i.end /\ v.kind = before[i.start]
              /\ i.start <= v.start \/ (v = w /\ in_vmas /\ v.kind = "rwx" /\ i.start <= s)
        BY <4>1, <2>1, <1>0, <1>1 DEF PartOK
      <4>3. i.start <= s => i.start <= cursor'
        BY <3>1, <1>3, IntervalShape
      <4>4. QED
        BY <4>2, <4>3, <3>1
    <3>4. CutOK'
      <4>1. in_vmas' => ~(w.end <= e)
        <5>1. CASE in_vmas = TRUE
          BY <5>1, <2>1, <2>4, <1>3, <1>4
        <5>2. CASE in_vmas = FALSE
          <6>1. in_vmas' => e = vp
            BY <5>2, <1>0, <1>1 DEF advance
          <6>2. QED
            BY <6>1, <5>2, <2>1, <1>3, <1>4
        <5>3. QED
          BY <5>1, <5>2, <1>0
      <4>2. QED
        BY <4>1, <3>1, <2>2, <1>0, <1>1, <1>3 DEF CutOK
    <3>5. EdgeOK'
      <4>1. SUFFICES ASSUME in_vmas', ~in_ss_vmas', w.start < e PROVE snap[e - 1] # "none"
        BY <3>1, <2>2, <1>0, <1>1, <1>3 DEF EdgeOK
      <4>2. in_vmas = TRUE
        <5>1. SUFFICES ASSUME in_vmas = FALSE PROVE FALSE
          BY <1>0
        <5>2. e = vp
          BY <5>1, <4>1, <1>0, <1>1 DEF advance
        <5>3. QED
          BY <5>1, <5>2, <4>1, <2>1, <1>3, <1>4
      <4>3. in_ss_vmas
        \* Outside the snapshot's mapping nothing would be skipped: the cursor stays.
        <5>1. SUFFICES ASSUME in_ss_vmas = FALSE PROVE FALSE
          BY <1>0
        <5>2. next_cursor = next_ss_vma_pos
          BY <4>2, <2>4, <1>0, <1>1, Turn
        <5>3. in_ss_vmas' = TRUE
          BY <5>1, <5>2, <1>0 DEF advance
        <5>4. QED
          BY <5>3, <4>1
      <4>4. QED
        BY <4>1, <4>3, <1>0, <1>1, EdgeHere
    <3>6. QED
      BY <3>2, <3>3, <3>4, <3>5 DEF PathOK
  <2>5. QED
    BY <2>3, <2>4
<1>7. QED
  BY <1>5, <1>6

\* The layouts do not change, nor what they say.
LEMMA LayoutsStay ==
  ASSUME [Next]_vars
  PROVE  /\ UNCHANGED layoutVars
         /\ snap' = snap /\ before' = before /\ all_vmas' = all_vmas
         /\ Merged' <=> Merged
         /\ FirstRestore' <=> FirstRestore
         /\ \A p : Target(p)' = Target(p)
<1>1. UNCHANGED layoutVars
  BY DEF Next, vars, Unmap, MapBack, Skip, UnmapFails, MapBackFails, Finish
<1>2. snap' = snap /\ before' = before /\ all_vmas' = all_vmas
  BY <1>1 DEF layoutVars
<1>3. QED
  BY <1>1, <1>2 DEF Merged, FirstRestore, Target

\* An entry of the snapshot's list is mapped as its first page.
LEMMA InSnapshot ==
  ASSUME TypeInv, SsFlagOK, Looping, in_ss_vmas, NEW p \in cursor .. next_cursor - 1
  PROVE  /\ p \in Page /\ p < next_ss_vma_pos
         /\ ss_vma_iter <= p => snap[p] = snap[ss_vma_iter] /\ snap[p] # "none"
<1>0. /\ Top \in Nat \ {0} /\ cursor \in 0 .. Top /\ next_cursor \in 0 .. Top
      /\ next_cursor <= next_ss_vma_pos /\ next_ss_vma_pos \in 0 .. Top + 1
  BY Turn
<1>1. p \in Page /\ p \in Int /\ p < next_cursor /\ p < next_ss_vma_pos
  BY <1>0 DEF Page
<1>2. ~AtHead
  BY Turn
<1>3. PICK i \in Intervals(snap) : i.start = ss_vma_iter /\ next_ss_vma_pos = i.end
  BY <1>2, Turn
<1>4. ss_vma_iter <= p => snap[p] = snap[i.start] /\ snap[p] # "none"
  BY <1>1, <1>3, IntervalInside
<1>5. QED
  BY <1>1, <1>3, <1>4

LEMMA OnlyStep ==
  ASSUME TypeInv, TowardsOK, [Next]_vars, ~Merged, NEW p \in Page
  PROVE  KindAt(p)' \in {before[p], Target(p)}
<1>1. KindAt(p) \in {before[p], Target(p)} /\ SsFlagOK /\ BackOK
  BY DEF TowardsOK, OnlyTowardsSnapshot, PathOK
<1>0. Top \in Nat /\ p \in Int
  BY RestoreVmasAssumption DEF Page
<1>2. CASE Unmap
  <2>1. KindAt(p)' = IF cursor <= p /\ p < next_cursor THEN "none" ELSE KindAt(p)
    BY <1>2, UnmapKinds
  <2>2. CASE cursor <= p /\ p < next_cursor
    <3>1. p \in cursor .. next_cursor - 1 /\ Looping /\ ~in_ss_vmas
      BY <1>0, <1>2, <2>2, Turn DEF Unmap, New
    <3>2. snap[p] = "none"
      BY <3>1, <1>1, GapIsNone
    <3>3. QED
      BY <2>1, <2>2, <3>2 DEF Target
  <2>3. QED
    BY <2>1, <2>2, <1>1
<1>3. CASE MapBack
  <2>1. KindAt(p)' = IF cursor <= p /\ p < next_cursor THEN "rwx" ELSE KindAt(p)
    BY <1>3, MapBackKinds
  <2>2. CASE cursor <= p /\ p < next_cursor
    <3>1. /\ p \in cursor .. next_cursor - 1 /\ Looping /\ in_ss_vmas
          /\ snap[ss_vma_iter] \in Anon /\ KindAt(p) = "none"
      BY <1>0, <1>3, <2>2, Turn, MapBackKinds DEF MapBack, Missing
    <3>2. CASE ss_vma_iter <= p
      <4>1. snap[p] \in Anon /\ snap[p] # "none"
        BY <3>1, <3>2, <1>1, InSnapshot
      <4>2. before[p] = "none"
        BY <4>1, <3>1, <1>1 DEF Target
      <4>3. QED
        BY <4>1, <4>2, <2>1, <2>2 DEF Target
    <3>3. CASE ~(ss_vma_iter <= p)
      <4>1. ~AtHead
        BY <3>1, Turn
      <4>2. PICK i \in Intervals(snap) : i.start = ss_vma_iter
        BY <4>1, <3>1, Turn
      <4>3. p \in cursor .. i.start - 1
        <5>1. i.start \in Int /\ cursor \in Int
          BY <3>1, Turn, IntervalShape
        <5>2. QED
          BY <5>1, <4>2, <3>3, <2>2, <1>0
      <4>4. before[p] = "rwx"
        BY <4>2, <4>3, <3>1, <1>1 DEF BackOK, TypeInv
      <4>5. QED
        BY <4>4, <2>1, <2>2
    <3>4. QED
      BY <3>2, <3>3
  <2>3. QED
    BY <2>1, <2>2, <1>1
<1>4. CASE Skip \/ UnmapFails \/ MapBackFails \/ Finish \/ UNCHANGED vars
  <2>1. mm' = mm
    BY <1>4 DEF Skip, UnmapFails, MapBackFails, Finish, vars
  <2>2. KindAt(p)' = KindAt(p)
    BY <2>1 DEF KindAt
  <2>3. QED
    BY <2>2, <1>1
<1>5. QED
  BY <1>2, <1>3, <1>4 DEF Next

LEMMA TowardsStep ==
  TypeInv /\ TowardsOK /\ [Next]_vars => TowardsOK'
<1>1. SUFFICES ASSUME TypeInv, TowardsOK, [Next]_vars PROVE TowardsOK'
  OBVIOUS
<1>2. /\ UNCHANGED layoutVars /\ before' = before /\ snap' = snap /\ all_vmas' = all_vmas
      /\ Merged' <=> Merged
      /\ \A p : Target(p)' = Target(p)
  BY <1>1, LayoutsStay
<1>3. SsFlagOK /\ (~Merged => PathOK)
  BY <1>1 DEF TowardsOK
<1>4. OnlyTowardsSnapshot'
  <2>1. SUFFICES ASSUME ~Merged, NEW p \in Page PROVE KindAt(p)' \in {before[p], Target(p)}
    BY <1>2 DEF OnlyTowardsSnapshot
  <2>2. QED
    BY <2>1, <1>1, OnlyStep
<1>5. SsFlagOK' /\ (~Merged' => PathOK')
  <2>1. CASE Unmap
    <3>1. Looping /\ advance
      BY <2>1 DEF Unmap
    <3>2. QED
      BY <3>1, <2>1, <1>1, <1>2, <1>3, SsFlagStep, UnmapPath
  <2>2. CASE MapBack
    <3>1. Looping /\ advance
      BY <2>2 DEF MapBack
    <3>2. QED
      BY <3>1, <2>2, <1>1, <1>2, <1>3, SsFlagStep, MapBackPath
  <2>3. CASE Skip
    <3>1. Looping /\ advance
      BY <2>3 DEF Skip
    <3>2. QED
      BY <3>1, <2>3, <1>1, <1>2, <1>3, SsFlagStep, SkipPath
  <2>4. CASE UnmapFails \/ MapBackFails \/ Finish \/ UNCHANGED vars
    <3>1. mm' = mm /\ UNCHANGED iterVars
      BY <2>4 DEF UnmapFails, MapBackFails, Finish, vars
    <3>2. SsFlagOK'
      BY <3>1, <1>2, <1>3 DEF SsFlagOK, iterVars
    <3>3. PathOK => PartOK' /\ EdgeOK' /\ CutOK' /\ BackOK'
      BY <3>1, <1>2 DEF iterVars, PathOK, PartOK, EdgeOK, CutOK, BackOK
    <3>4. QED
      BY <3>2, <3>3, <1>2, <1>3 DEF PathOK
  <2>5. QED
    BY <2>1, <2>2, <2>3, <2>4, <1>1 DEF Next
<1>6. QED
  BY <1>4, <1>5 DEF TowardsOK

LEMMA TowardsHolds ==
  Spec => []TowardsOK
<1>1. Spec => [](TypeInv /\ TowardsOK)
  BY TypeInit, TypeStep, TowardsInit, TowardsStep, PTL DEF Spec
<1>2. QED
  BY <1>1, PTL

\* At every step of restore_vmas, one after which vm_munmap or vm_mmap fails
\* included, a page is mapped as it was or as it has to be, if no new mapping was
\* merged with two old ones: vm_munmap takes nothing of the snapshot and vm_mmap
\* adds nothing else (memory.c:604-626).  It holds of every restore: where the
\* cursor goes back it goes over pages that already had all permissions.
THEOREM TowardsSnapshotOnly ==
  Spec => []OnlyTowardsSnapshot
<1>1. TowardsOK => OnlyTowardsSnapshot
  BY DEF TowardsOK
<1>2. QED
  BY <1>1, TowardsHolds, PTL

-----------------------------------------------------------------------------
(* What a first restore leaves. *)

\* On a first restore the flags hold for [cursor, next_cursor).
LEMMA FlagsAre ==
  TypeInv /\ TowardsOK => FlagsHold
<1>1. SUFFICES ASSUME TypeInv, TowardsOK, Looping, FirstRestore, ~Merged,
                      NEW p \in cursor .. next_cursor - 1
               PROVE  /\ in_vmas <=> KindAt(p) # "none"
                      /\ in_ss_vmas <=> snap[p] # "none"
  BY DEF FlagsHold
<1>2. /\ Top \in Nat \ {0} /\ cursor \in 0 .. Top /\ next_cursor \in 0 .. Top
      /\ in_vmas \in BOOLEAN /\ in_ss_vmas \in BOOLEAN
      /\ SsFlagOK /\ BackOK /\ CutOK
  BY <1>1, Turn DEF TypeInv, TypeOK, TowardsOK, PathOK
<1>3. p \in Page /\ p \in Int /\ cursor <= p /\ p < next_cursor
  BY <1>2 DEF Page
<1>4. in_ss_vmas <=> snap[p] # "none"
  <2>1. CASE in_ss_vmas
    <3>1. ~AtHead
      BY <2>1, <1>1, Turn
    <3>2. PICK i \in Intervals(snap) : i.start = ss_vma_iter
      BY <3>1, <1>1, Turn
    <3>3. i.start \in 0 .. Top - 1
      BY IntervalShape
    <3>4. i.start <= p
      <4>1. SUFFICES ASSUME p < i.start PROVE FALSE
        BY <1>3, <3>3
      <4>2. p \in cursor .. i.start - 1
        BY <4>1, <1>2, <1>3, <3>3
      <4>3. before[p] = "rwx"
        BY <4>2, <3>2, <2>1, <1>1, <1>2 DEF BackOK, TypeInv
      <4>4. QED
        BY <4>3, <1>1, <1>3 DEF FirstRestore
    <3>5. QED
      BY <3>2, <3>4, <2>1, <1>1, <1>2, InSnapshot
  <2>2. CASE ~in_ss_vmas
    BY <2>2, <1>1, <1>2, GapIsNone
  <2>3. QED
    BY <2>1, <2>2
<1>5. PICK m : m = mm
  OBVIOUS
<1>6. WellFormed(m) /\ KindAt(p) = Kind(m, p)
  BY <1>1, <1>5 DEF TypeInv, KindAt, Kind
<1>7. \A v \in m : v.start \in Int /\ v.end \in Int /\ v.kind # "none"
  BY <1>6, VmaShape
<1>8. in_vmas <=> KindAt(p) # "none"
  <2>1. CASE in_vmas
    <3>1. vma_iter # NULL
      BY <2>1, <1>1, Turn
    <3>2. PICK w \in m : w.id = vma_iter /\ next_vma_pos = w.end
      BY <3>1, <2>1, <1>1, <1>5, Turn
    <3>3. w.start <= cursor /\ next_cursor <= w.end
      BY <3>2, <2>1, <1>1, <1>5, Turn DEF TypeInv, IterOK
    <3>4. w.start <= p /\ p < w.end
      BY <3>3, <1>2, <1>3, <1>7
    <3>5. Kind(m, p) = w.kind
      BY <3>4, <1>3, <1>6, KindIs
    <3>6. QED
      BY <3>5, <2>1, <1>6, <1>7
  <2>2. CASE ~in_vmas
    <3>1. \A v \in m : v.end <= cursor \/ next_cursor <= v.start
      <4>1. CASE vma_iter = NULL
        BY <4>1, <1>1, <1>5 DEF TypeInv, IterOK
      <4>2. CASE vma_iter # NULL
        <5>1. PICK w \in m : w.id = vma_iter /\ next_vma_pos = w.start /\ next_cursor <= w.start
          BY <4>2, <2>2, <1>1, <1>5, Turn
        <5>2. \A v \in m : v.end <= cursor \/ w.start <= v.start
          BY <5>1, <2>2, <1>1, <1>5 DEF TypeInv, IterOK
        <5>3. QED
          BY <5>1, <5>2, <1>2, <1>7
      <4>3. QED
        BY <4>1, <4>2
    <3>2. \A v \in m : ~(v.start <= p /\ p < v.end)
      BY <3>1, <1>2, <1>3, <1>7
    <3>3. QED
      BY <3>2, <2>2, <1>3, <1>6, KindIs
  <2>3. QED
    BY <2>1, <2>2
<1>9. QED
  BY <1>4, <1>8

\* "in_vmas and in_ss_vmas hold for the interval [cursor, next_cursor)"
\* (memory.c:602) in every iteration of a first restore: what the loop decides on
\* is what the two lists say, although vm_munmap and vm_mmap change one of them.
THEOREM FlagsHoldAlways ==
  Spec => []FlagsHold
BY FlagsAre, TypeInvHolds, TowardsHolds, PTL

LEMMA FirstForward ==
  ASSUME TypeInv, TowardsOK, Looping, FirstRestore, ~Merged
  PROVE  cursor <= next_cursor
<1>0. /\ Top \in Nat \ {0} /\ cursor \in 0 .. Top /\ next_cursor \in 0 .. Top
      /\ next_vma_pos \in 0 .. Top + 1 /\ next_ss_vma_pos \in 0 .. Top + 1
      /\ next_cursor = next_vma_pos \/ next_cursor = next_ss_vma_pos
      /\ cursor <= next_ss_vma_pos
      /\ CutOK
  BY Turn DEF TowardsOK, PathOK
<1>1. SUFFICES cursor <= next_vma_pos
  BY <1>0
<1>2. CASE in_vmas
  <2>1. vma_iter # NULL
    BY <1>2, Turn
  <2>2. PICK w \in mm : w.id = vma_iter /\ next_vma_pos = w.end
    BY <2>1, <1>2, Turn
  <2>3. SUFFICES ASSUME w.end < cursor PROVE FALSE
    BY <2>2, <1>0
  <2>4. w.end \in w.end .. cursor - 1 /\ w.end \in Page /\ w.end <= cursor
    BY <2>2, <2>3, <1>0 DEF Page
  <2>5. before[w.end] = "rwx"
    BY <2>2, <2>4, <1>0, <1>2 DEF CutOK
  <2>6. QED
    BY <2>4, <2>5 DEF FirstRestore
<1>3. CASE ~in_vmas
  BY <1>3, Turn
<1>4. QED
  BY <1>2, <1>3

\* What an iteration does to a page of [cursor, next_cursor) is what it needs.
LEMMA PageRestored ==
  ASSUME TypeInv, TowardsOK, Looping, FirstRestore, ~Merged, Unmap \/ MapBack \/ Skip,
         NEW p \in cursor .. next_cursor - 1, KindAt(p) = before[p]
  PROVE  KindAt(p)' = Target(p)
<1>0. /\ Top \in Nat \ {0} /\ cursor \in 0 .. Top /\ next_cursor \in 0 .. Top
      /\ SsFlagOK /\ BackOK
  BY Turn DEF TowardsOK, PathOK
<1>1. p \in Page /\ p \in Int /\ cursor <= p /\ p < next_cursor
  BY <1>0 DEF Page
<1>2. /\ in_vmas <=> before[p] # "none"
      /\ in_ss_vmas <=> snap[p] # "none"
  BY FlagsAre DEF FlagsHold
<1>3. CASE Unmap
  <2>1. KindAt(p)' = "none"
    BY <1>1, <1>3, UnmapKinds
  <2>2. before[p] # "none" /\ snap[p] = "none"
    BY <1>2, <1>3 DEF Unmap, New
  <2>3. QED
    BY <2>1, <2>2 DEF Target
<1>4. ASSUME in_ss_vmas PROVE snap[p] = snap[ss_vma_iter]
  <2>1. ~AtHead
    BY <1>4, Turn
  <2>2. PICK i \in Intervals(snap) : i.start = ss_vma_iter
    BY <2>1, Turn
  <2>3. i.start \in 0 .. Top - 1
    BY IntervalShape
  <2>4. i.start <= p
    <3>1. SUFFICES ASSUME p < i.start PROVE FALSE
      BY <1>1, <2>3
    <3>2. p \in cursor .. i.start - 1
      BY <3>1, <1>0, <1>1, <2>3
    <3>3. before[p] = "rwx"
      BY <3>2, <2>2, <1>0, <1>4 DEF BackOK, TypeInv
    <3>4. QED
      BY <3>3, <1>1 DEF FirstRestore
  <2>5. QED
    BY <2>2, <2>4, <1>0, <1>4, InSnapshot
<1>5. CASE MapBack
  <2>1. KindAt(p)' = "rwx"
    BY <1>1, <1>5, MapBackKinds
  <2>2. before[p] = "none" /\ snap[p] \in Anon
    BY <1>2, <1>4, <1>5 DEF MapBack, Missing
  <2>3. QED
    BY <2>1, <2>2 DEF Target
<1>6. CASE Skip
  <2>1. KindAt(p)' = before[p]
    BY <1>6 DEF Skip, KindAt
  <2>2. ~(before[p] # "none" /\ snap[p] = "none")
    BY <1>0, <1>1, <1>2, <1>6 DEF Skip, New
  <2>3. ~(before[p] = "none" /\ snap[p] \in Anon)
    <3>1. SUFFICES ASSUME before[p] = "none", snap[p] \in Anon PROVE FALSE
      OBVIOUS
    <3>2. in_ss_vmas /\ ~in_vmas
      BY <3>1, <1>2 DEF Anon
    <3>3. Missing
      BY <3>2, <1>0, <1>1 DEF Missing
    <3>4. QED
      BY <3>1, <3>2, <3>3, <1>4, <1>6 DEF Skip
  <2>4. QED
    BY <2>1, <2>2, <2>3 DEF Target
<1>7. QED
  BY <1>3, <1>5, <1>6

LEMMA KindsStep ==
  TypeInv /\ TowardsOK /\ KindsOK /\ [Next]_vars => KindsOK'
<1>1. SUFFICES ASSUME TypeInv, TowardsOK, KindsOK, [Next]_vars, FirstRestore, ~Merged,
                      NEW p \in Page
               PROVE  KindAt(p)' = IF p < cursor' THEN Target(p) ELSE before[p]
  BY LayoutsStay DEF KindsOK
<1>2. KindAt(p) = IF p < cursor THEN Target(p) ELSE before[p]
  BY <1>1 DEF KindsOK
<1>3. CASE Unmap \/ MapBack \/ Skip
  <2>1. Looping /\ cursor' = next_cursor
    BY <1>3 DEF Unmap, MapBack, Skip, advance
  <2>2. p \in Int /\ cursor \in Int /\ next_cursor \in Int /\ cursor <= next_cursor
    BY <1>1, <2>1, Turn, FirstForward DEF Page
  <2>3. CASE cursor <= p /\ p < next_cursor
    <3>1. p \in cursor .. next_cursor - 1 /\ KindAt(p) = before[p]
      BY <2>2, <2>3, <1>2
    <3>2. KindAt(p)' = Target(p)
      BY <3>1, <2>1, <1>1, <1>3, PageRestored
    <3>3. QED
      BY <3>2, <2>1, <2>3
  <2>4. CASE ~(cursor <= p /\ p < next_cursor)
    <3>1. KindAt(p)' = KindAt(p)
      <4>1. CASE Unmap
        BY <4>1, <2>4, <1>1, UnmapKinds
      <4>2. CASE MapBack
        BY <4>2, <2>4, <1>1, MapBackKinds
      <4>3. CASE Skip
        BY <4>3 DEF Skip, KindAt
      <4>4. QED
        BY <4>1, <4>2, <4>3, <1>3
    <3>2. p < cursor <=> p < cursor'
      BY <2>1, <2>2, <2>4
    <3>3. QED
      BY <3>1, <3>2, <1>2
  <2>5. QED
    BY <2>3, <2>4
<1>4. CASE UnmapFails \/ MapBackFails \/ Finish \/ UNCHANGED vars
  <2>1. mm' = mm /\ cursor' = cursor
    BY <1>4 DEF UnmapFails, MapBackFails, Finish, vars, iterVars
  <2>2. KindAt(p)' = KindAt(p)
    BY <2>1 DEF KindAt
  <2>3. QED
    BY <2>1, <2>2, <1>2
<1>5. QED
  BY <1>1, <1>3, <1>4 DEF Next

LEMMA KindsInit ==
  Init => KindsOK
<1>1. SUFFICES ASSUME Init, NEW p \in Page PROVE KindAt(p) = before[p] /\ ~(p < cursor)
  BY DEF KindsOK
<1>2. ~(p < 0)
  BY RestoreVmasAssumption DEF Page
<1>3. cursor = 0
  BY <1>1 DEF Init
<1>4. QED
  BY <1>1, <1>2, <1>3, InitKinds

LEMMA DoneStep ==
  DoneOK /\ [Next]_vars => DoneOK'
BY DEF DoneOK, Next, vars, iterVars, AtHead, Looping, Unmap, MapBack, Skip, UnmapFails,
       MapBackFails, Finish

LEMMA RestoredAtEnd ==
  TypeInv /\ TowardsOK /\ KindsOK /\ DoneOK => MappingsRestored
<1>1. SUFFICES ASSUME TypeInv, TowardsOK, KindsOK, DoneOK, pc = "done", ~gave_up,
                      FirstRestore, ~Merged, NEW p \in Page
               PROVE  KindAt(p) = Target(p)
  BY DEF MappingsRestored
<1>2. vma_iter = NULL /\ AtHead
  BY <1>1 DEF DoneOK
<1>3. KindAt(p) = IF p < cursor THEN Target(p) ELSE before[p]
  BY <1>1 DEF KindsOK
<1>4. SUFFICES ASSUME ~(p < cursor) PROVE Target(p) = before[p]
  BY <1>3
<1>0. Top \in Nat \ {0} /\ p \in Int /\ p < Top /\ cursor \in 0 .. Top
  BY <1>1, RestoreVmasAssumption DEF TypeInv, TypeOK, Page
<1>5. before[p] = "none"
  <2>1. PICK m : m = mm
    OBVIOUS
  <2>2. WellFormed(m) /\ KindAt(p) = Kind(m, p)
    BY <2>1, <1>1 DEF TypeInv, KindAt, Kind
  <2>3. \A v \in m : v.end <= cursor
    BY <2>1, <1>1, <1>2 DEF TypeInv, IterOK
  <2>4. \A v \in m : v.end \in Int
    BY <2>2, VmaShape
  <2>5. \A v \in m : ~(v.start <= p /\ p < v.end)
    BY <2>3, <2>4, <1>0, <1>4
  <2>6. QED
    BY <2>2, <2>5, <1>3, <1>4, KindIs
<1>6. snap[p] = "none"
  <2>1. SUFFICES ASSUME snap[p] # "none" PROVE FALSE
    OBVIOUS
  <2>2. PICK i \in Intervals(snap) : i.start <= p /\ p < i.end
    BY <2>1, IntervalCovers
  <2>3. i.start \in 0 .. Top - 1 /\ i.end \in 1 .. Top
    BY IntervalShape
  <2>4. ~in_ss_vmas
    BY <1>1, <1>2 DEF TypeInv, SsOK
  <2>5. i.end <= cursor \/ ss_vma_iter <= i.start
    BY <2>4, <1>1 DEF TowardsOK, SsFlagOK, TypeInv
  <2>6. QED
    BY <2>2, <2>3, <2>5, <1>0, <1>2, <1>4 DEF AtHead, ListHead
<1>7. QED
  BY <1>5, <1>6 DEF Target, Anon

\* A restore_vmas that runs to its end leaves exactly the mappings of the snapshot
\* on a first restore: new mappings are gone, missing anonymous ones are back with
\* all permissions, nothing else changed, if no new mapping was merged with two old
\* ones (memory.c:602-631).
THEOREM SnapshotMappingsBack ==
  Spec => []MappingsRestored
<1>1. Init => DoneOK
  BY DEF Init, DoneOK
<1>2. Spec => [](TypeInv /\ TowardsOK /\ KindsOK /\ DoneOK)
  BY <1>1, TypeInit, TypeStep, TowardsInit, TowardsStep, KindsInit, KindsStep, DoneStep, PTL DEF Spec
<1>3. QED
  BY <1>2, RestoredAtEnd, PTL
=============================================================================
