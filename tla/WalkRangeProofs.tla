-------------------------- MODULE WalkRangeProofs --------------------------
(***************************************************************************)
(* The walk of a take decides every page as the range lists say, for every *)
(* page size, fan-out of the page tables, layout, range and set of tables  *)
(* that exist.                                                             *)
(*                                                                         *)
(* The argument: what the two addresses of the fast paths claim of the     *)
(* pages from the walk on (FreshFor) is what the lists say, and an answer  *)
(* only replaces one of them by a larger one.                              *)
(***************************************************************************)
EXTENDS WalkRange, TLAPS

Contradicted(p) == Excluded(p) /\ Included(p)

\* What the fast paths say of the pages from lo on, if the two addresses are na
\* and nb, is right.
FreshFor(lo, na, nb) ==
  \A p \in Int : lo <= p /\ ~Contradicted(p) =>
    /\ p + PageSize < nb => ~Wanted(p)
    /\ nb <= p + PageSize /\ p + PageSize < na => Wanted(p)

FreshFrom(lo) == FreshFor(lo, next_allowed_address, next_blocked_address)

HasTable(p) == \E a \in tables : a \div Span[PMD] = p \div Span[PMD]

\* Where the walk is, and what it has remembered.
PlaceOK ==
  /\ pc = "user" => taken = {} /\ pvma = 0 /\ next_allowed_address = 0 /\ next_blocked_address = 0
  /\ pc \in {"user", "vma"} => addr = 0
  /\ pc = "vma" => /\ pvma >= 1
                   /\ pvma <= Len(mappings) => FreshFrom(mappings[pvma].start)
  /\ pc = "walk" => /\ pvma \in 1 .. Len(mappings) /\ Walked(mappings[pvma])
                    /\ level = PTE => HasTable(addr)
                    /\ FreshFrom(addr)

\* A page the walk has been asked about is taken exactly if the lists want it.
ListsObeyed ==
  /\ taken \subseteq Visited
  /\ \A p \in Visited : ~Contradicted(p) => (p \in taken <=> Wanted(p))

WalkInv == TypeOK /\ PlaceOK /\ ListsObeyed

\* A list is empty, or holds one of the ranges it was given.
Given(list, ranges) == (list = NoRange /\ ranges = {}) \/ list \in ranges
ListsGiven == Given(blocklist, excluded) /\ Given(allowlist, included)

-----------------------------------------------------------------------------
(* Addresses and spans. *)

LEMMA SpanFacts ==
  /\ PageSize \in Nat /\ PageSize > 0 /\ Top \in Nat /\ Span[PTE] = PageSize
  /\ \A l \in Levels : Span[l] \in Nat /\ Span[l] > 0
  /\ \A l \in Levels \ {PGD} : Span[l + 1] % Span[l] = 0
BY WalkAssumption DEF Levels, PTE, PGD

\* x lies in the block of size a that begins at (x \div a) * a.
LEMMA Block ==
  ASSUME NEW x \in Nat, NEW a \in Nat, a > 0
  PROVE  /\ x \div a \in Nat
         /\ (x \div a) * a <= x /\ x < (x \div a) * a + a
         /\ (x \div a + 1) * a = (x \div a) * a + a
<1>1. PICK k \in Int : k = x \div a
  OBVIOUS
<1>2. k * a <= x /\ x < k * a + a
  BY <1>1
<1>3. k \in Nat
  BY <1>2
<1>4. QED
  BY <1>1, <1>2, <1>3

\* The block x lies in is the only one it lies in.
LEMMA InBlock ==
  ASSUME NEW x \in Nat, NEW a \in Nat, a > 0, NEW k \in Nat, k * a <= x, x < k * a + a
  PROVE  x \div a = k
OBVIOUS

LEMMA Multiple ==
  ASSUME NEW x \in Nat, NEW a \in Nat, a > 0, x % a = 0
  PROVE  \E k \in Nat : x = k * a
<1>1. PICK k \in Int : k = x \div a
  OBVIOUS
<1>2. x = k * a
  BY <1>1
<1>3. k \in Nat
  BY <1>2
<1>4. QED
  BY <1>2, <1>3

LEMMA MultipleMod ==
  ASSUME NEW k \in Nat, NEW a \in Nat, a > 0
  PROVE  (k * a) % a = 0 /\ k * a \in Nat
OBVIOUS

\* Multiples of a are a apart.
LEMMA Apart ==
  ASSUME NEW a \in Nat, a > 0, NEW j \in Nat, NEW k \in Nat, j * a < k * a
  PROVE  j * a + a <= k * a
<1>1. j < k
  OBVIOUS
<1>2. QED
  BY <1>1

\* A multiple of a multiple.
LEMMA Divides ==
  ASSUME NEW a \in Nat, NEW b \in Nat, NEW x \in Nat, a > 0, b > 0, b % a = 0, x % b = 0
  PROVE  x % a = 0
<1>1. PICK m \in Int : b = m * a
  OBVIOUS
<1>2. PICK n \in Int : x = n * b
  OBVIOUS
<1>3. x = (n * m) * a /\ n * m \in Int
  BY <1>1, <1>2
<1>4. QED
  BY <1>3

\* Two addresses in one block are in one block of any larger size.
LEMMA SameBlock ==
  ASSUME NEW a \in Nat, NEW b \in Nat, NEW x \in Nat, NEW y \in Nat, a > 0, b > 0, b % a = 0,
         x \div a = y \div a
  PROVE  x \div b = y \div b
<1> DEFINE k == x \div b
           q == x \div a
<1>1. k \in Nat /\ k * b <= x /\ x < k * b + b
  BY Block
<1>2. q \in Nat /\ q * a <= x /\ x < q * a + a /\ q * a <= y /\ y < q * a + a
  BY Block
<1>3. PICK m \in Nat : b = m * a
  BY Multiple
<1>4. PICK u \in Nat : k * b = u * a
  <2>1. k * b = (k * m) * a /\ k * m \in Nat
    BY <1>1, <1>3
  <2>2. QED
    BY <2>1
<1>5. PICK w \in Nat : k * b + b = w * a
  <2>1. k * b + b = (u + m) * a /\ u + m \in Nat
    BY <1>3, <1>4
  <2>2. QED
    BY <2>1
<1> HIDE DEF k, q
<1>6. u * a <= q * a
  <2>1. SUFFICES ASSUME q * a < u * a PROVE FALSE
    BY <1>2, <1>4
  <2>2. q * a + a <= u * a
    BY <2>1, <1>2, <1>4, Apart
  <2>3. QED
    BY <2>2, <1>1, <1>2, <1>4
<1>7. q * a + a <= w * a
  BY <1>1, <1>2, <1>5, Apart
<1>8. k * b <= y /\ y < k * b + b
  BY <1>2, <1>4, <1>5, <1>6, <1>7, <1>1
<1>9. y \div b = k
  BY <1>8, <1>1, InBlock
<1>10. QED
  BY <1>9 DEF k

\* The spans of the levels divide each other.
LEMMA SpansDivide ==
  ASSUME NEW l \in Levels
  PROVE  Span[l] % PageSize = 0 /\ (l >= PMD => Span[l] % Span[PMD] = 0)
<1>1. /\ PageSize \in Nat /\ PageSize > 0 /\ Span[0] = PageSize
      /\ Span[0] \in Nat /\ Span[1] \in Nat /\ Span[2] \in Nat /\ Span[3] \in Nat /\ Span[4] \in Nat
      /\ Span[0] > 0 /\ Span[1] > 0 /\ Span[2] > 0 /\ Span[3] > 0 /\ Span[4] > 0
  BY SpanFacts DEF Levels, PTE
<1>2. Span[1] % Span[0] = 0 /\ Span[2] % Span[1] = 0 /\ Span[3] % Span[2] = 0 /\ Span[4] % Span[3] = 0
  BY SpanFacts DEF Levels, PGD
<1>3. Span[2] % Span[0] = 0
  BY <1>1, <1>2, Divides
<1>4. Span[3] % Span[0] = 0 /\ Span[3] % Span[1] = 0
  BY <1>1, <1>2, <1>3, Divides
<1>5. Span[4] % Span[0] = 0 /\ Span[4] % Span[1] = 0
  BY <1>1, <1>2, <1>4, Divides
<1>6. Span[0] % Span[0] = 0 /\ Span[1] % Span[1] = 0
  BY <1>1
<1>7. QED
  BY <1>1, <1>2, <1>3, <1>4, <1>5, <1>6 DEF Levels, PMD

-----------------------------------------------------------------------------
(* What snapshot_walk_check_range answers. *)

LEMMA RangeFacts ==
  ASSUME TypeOK
  PROVE  \A r \in {blocklist, allowlist} :
           /\ r.start \in Int /\ r.end \in Int
           /\ \A s, e \in Addr : Intersects(r, s, e) => r.end \in Addr
BY SpanFacts, WalkAssumption DEF TypeOK, Addr, NoRange, Intersects

\* The answer is right for the pages of [s, e), and what is remembered after it is
\* right from s on.
LEMMA AnswerRight ==
  ASSUME TypeOK, NEW s \in Addr, NEW e \in Addr, s < e, FreshFrom(s)
  PROVE  LET ans == snapshot_walk_check_range(s, e)
         IN  /\ ans.allowed \in Addr /\ ans.blocked \in Addr
             /\ FreshFor(s, ans.allowed, ans.blocked)
             /\ ans.action = "CONTINUE" =>
                  \A p \in Int : s <= p /\ p + PageSize <= e /\ ~Contradicted(p) => ~Wanted(p)
             /\ ans.action # "CONTINUE" /\ e = s + PageSize /\ ~Contradicted(s) => Wanted(s)
<1> DEFINE na == next_allowed_address
           nb == next_blocked_address
           ans == snapshot_walk_check_range(s, e)
<1>0. /\ s \in Int /\ e \in Int /\ na \in Int /\ nb \in Int /\ PageSize \in Int /\ PageSize > 0
      /\ na \in Addr /\ nb \in Addr
  BY SpanFacts DEF TypeOK, Addr
<1>r. /\ blocklist.start \in Int /\ blocklist.end \in Int
      /\ allowlist.start \in Int /\ allowlist.end \in Int
      /\ Intersects(blocklist, s, e) => blocklist.end \in Addr
      /\ Intersects(allowlist, s, e) => allowlist.end \in Addr
  BY RangeFacts
<1>f. \A p \in Int : s <= p /\ ~Contradicted(p) =>
         /\ p + PageSize < nb => ~Wanted(p)
         /\ nb <= p + PageSize /\ p + PageSize < na => Wanted(p)
  BY DEF FreshFrom, FreshFor
<1>1. CASE e < nb
  <2>1. ans = [action |-> "CONTINUE", allowed |-> na, blocked |-> nb]
    BY <1>1, <1>0 DEF snapshot_walk_check_range
  <2>2. QED
    BY <2>1, <1>1, <1>0, <1>f DEF FreshFor
<1>2. CASE nb <= e /\ e < na
  <2>1. ans = [action |-> "SUBTREE", allowed |-> na, blocked |-> nb]
    BY <1>2, <1>0 DEF snapshot_walk_check_range
  <2>2. QED
    BY <2>1, <1>2, <1>0, <1>f DEF FreshFor
<1>3. CASE nb <= e /\ na <= e /\ Intersects(blocklist, s, e) /\ Within(blocklist, s, e)
  <2>1. ans = [action |-> "CONTINUE", allowed |-> na, blocked |-> blocklist.end]
    BY <1>3, <1>0 DEF snapshot_walk_check_range
  <2>2. \A p \in Int : s <= p /\ p + PageSize <= blocklist.end => Excluded(p)
    BY <1>3, <1>0, <1>r DEF Excluded, Within
  <2>3. \A p \in Int : s <= p /\ p + PageSize <= blocklist.end /\ ~Contradicted(p) => ~Wanted(p)
    BY <2>2 DEF Contradicted, Wanted
  <2>4. e <= blocklist.end
    BY <1>3 DEF Within
  <2>5. FreshFor(s, na, blocklist.end)
    BY <2>3, <2>4, <1>3, <1>0, <1>r DEF FreshFor
  <2>6. QED
    BY <2>1, <2>3, <2>4, <2>5, <1>3, <1>0, <1>r
<1>4. CASE /\ nb <= e /\ na <= e /\ ~(Intersects(blocklist, s, e) /\ Within(blocklist, s, e))
           /\ Intersects(allowlist, s, e)
  <2>1. ans = [action |-> "SUBTREE", blocked |-> nb,
               allowed |-> IF Within(allowlist, s, e) THEN allowlist.end ELSE na]
    BY <1>4, <1>0 DEF snapshot_walk_check_range
  <2>2. e = s + PageSize => Wanted(s)
    BY <1>4 DEF Wanted, Included
  <2>3. CASE Within(allowlist, s, e)
    <3>1. \A p \in Int : s <= p /\ p + PageSize < allowlist.end => Wanted(p)
      BY <2>3, <1>0, <1>r DEF Wanted, Included, Intersects, Within
    <3>2. FreshFor(s, allowlist.end, nb)
      BY <3>1, <1>f, <1>0, <1>r DEF FreshFor
    <3>3. QED
      BY <2>1, <2>2, <2>3, <3>2, <1>4, <1>0, <1>r
  <2>4. CASE ~Within(allowlist, s, e)
    <3>1. FreshFor(s, na, nb)
      BY <1>f DEF FreshFor
    <3>2. QED
      BY <2>1, <2>2, <2>4, <3>1, <1>0
  <2>5. QED
    BY <2>3, <2>4
<1>5. CASE /\ nb <= e /\ na <= e /\ ~(Intersects(blocklist, s, e) /\ Within(blocklist, s, e))
           /\ ~Intersects(allowlist, s, e) /\ block
  <2>1. ans = [action |-> "CONTINUE", allowed |-> na, blocked |-> e]
    BY <1>5, <1>0 DEF snapshot_walk_check_range
  <2>2. \A p \in Int : s <= p /\ p + PageSize <= e => ~Wanted(p)
    BY <1>5, <1>0, <1>r DEF Wanted, Included, Intersects
  <2>3. FreshFor(s, na, e)
    BY <2>2, <1>5, <1>0 DEF FreshFor
  <2>4. QED
    BY <2>1, <2>2, <2>3, <1>0
<1>6. CASE /\ nb <= e /\ na <= e /\ ~(Intersects(blocklist, s, e) /\ Within(blocklist, s, e))
           /\ ~Intersects(allowlist, s, e) /\ ~block
  <2>1. ans = [action |-> "SUBTREE", blocked |-> nb,
               allowed |-> IF Intersects(blocklist, s, e) THEN na ELSE e]
    BY <1>6, <1>0 DEF snapshot_walk_check_range
  <2>2. ~Within(blocklist, s, e)
    BY <1>6, <1>0, <1>r DEF Within, Intersects
  <2>3. e = s + PageSize => Wanted(s)
    BY <2>2, <1>6 DEF Wanted, Excluded
  <2>4. CASE Intersects(blocklist, s, e)
    <3>1. FreshFor(s, na, nb)
      BY <1>f DEF FreshFor
    <3>2. QED
      BY <2>1, <2>3, <2>4, <3>1, <1>0
  <2>5. CASE ~Intersects(blocklist, s, e)
    <3>1. \A p \in Int : s <= p /\ p + PageSize < e => Wanted(p)
      BY <2>5, <1>6, <1>0, <1>r DEF Wanted, Excluded, Intersects, Within
    <3>2. FreshFor(s, e, nb)
      BY <3>1, <1>f, <1>0 DEF FreshFor
    <3>3. QED
      BY <2>1, <2>3, <2>5, <3>2, <1>0
  <2>6. QED
    BY <2>4, <2>5
<1>7. QED
  BY <1>1, <1>2, <1>3, <1>4, <1>5, <1>6, <1>0

-----------------------------------------------------------------------------
(* The entry the walk is at. *)

LEMMA LayoutFacts ==
  ASSUME TypeOK
  PROVE  /\ Len(mappings) \in Nat
         /\ \A k \in 1 .. Len(mappings) :
              /\ mappings[k].start \in Addr /\ mappings[k].end \in Addr
              /\ mappings[k].start < mappings[k].end
              /\ mappings[k].start % PageSize = 0 /\ mappings[k].end % PageSize = 0
              /\ \A j \in 1 .. k - 1 : mappings[j].end <= mappings[k].start
<1> DEFINE R == [start : Addr, end : Addr, plain : BOOLEAN]
<1>1. mappings \in Layouts /\ mappings \in Seq(R)
  BY WalkAssumption DEF TypeOK
<1>2. Len(mappings) \in Nat /\ \A k \in 1 .. Len(mappings) : mappings[k] \in R
  <2> HIDE DEF R
  <2>1. QED
    BY <1>1
<1>3. QED
  BY <1>1, <1>2, WalkAssumption

\* Pages do not straddle a page boundary.
LEMMA PageFits ==
  ASSUME NEW p \in Nat, NEW q \in Nat, p < q, p % PageSize = 0, q % PageSize = 0
  PROVE  p + PageSize <= q
<1>1. PageSize \in Nat /\ PageSize > 0
  BY SpanFacts
<1>2. PICK j \in Nat : p = j * PageSize
  BY <1>1, Multiple
<1>3. PICK k \in Nat : q = k * PageSize
  BY <1>1, Multiple
<1>4. QED
  BY <1>1, <1>2, <1>3, Apart

LEMMA EntryFacts ==
  ASSUME TypeOK, PlaceOK, pc = "walk"
  PROVE  LET m == mappings[pvma]
         IN  /\ addr \in Addr /\ NextAddr \in Addr /\ m.start \in Addr /\ m.end \in Addr
             /\ m.start <= addr /\ addr < NextAddr /\ NextAddr <= m.end
             /\ addr % PageSize = 0 /\ NextAddr % PageSize = 0
             /\ NextAddr # m.end => /\ NextAddr % Span[level] = 0
                                    /\ NextAddr = (addr \div Span[level] + 1) * Span[level]
             /\ \A p \in Nat : addr <= p /\ p < NextAddr => p \div Span[level] = addr \div Span[level]
             /\ level = PTE => NextAddr = addr + PageSize
<1> DEFINE m == mappings[pvma]
           S == Span[level]
           q == addr \div S
<1>1. /\ m.start \in Addr /\ m.end \in Addr /\ m.start < m.end
      /\ m.start % PageSize = 0 /\ m.end % PageSize = 0
  BY LayoutFacts DEF PlaceOK
<1>2. S \in Nat /\ S > 0 /\ S % PageSize = 0 /\ PageSize \in Nat /\ PageSize > 0 /\ Top \in Nat
  BY SpanFacts, SpansDivide DEF TypeOK
<1>3. addr \in Addr /\ addr \in Nat /\ m.start <= addr /\ addr < m.end /\ (addr = m.start \/ addr % S = 0)
  BY DEF TypeOK, Addr
<1>4. addr % PageSize = 0
  BY <1>1, <1>2, <1>3, Divides
<1>5. q \in Nat /\ q * S <= addr /\ addr < q * S + S /\ (q + 1) * S = q * S + S
  BY <1>2, <1>3, Block
<1> HIDE DEF q
<1>6. (q + 1) * S \in Nat /\ ((q + 1) * S) % S = 0
  BY <1>2, <1>5, MultipleMod
<1>7. ((q + 1) * S) % PageSize = 0
  BY <1>2, <1>6, Divides
<1>8. NextAddr = IF (q + 1) * S < m.end THEN (q + 1) * S ELSE m.end
  BY DEF NextAddr, q
<1> HIDE DEF m, S
<1>9. /\ NextAddr \in Nat /\ addr < NextAddr /\ NextAddr <= m.end /\ NextAddr <= q * S + S
      /\ NextAddr % PageSize = 0 /\ NextAddr \in Addr
      /\ NextAddr # m.end => NextAddr % S = 0 /\ NextAddr = (q + 1) * S
  <2>1. CASE (q + 1) * S < m.end
    <3>1. NextAddr = (q + 1) * S
      BY <2>1, <1>8
    <3>2. QED
      BY <3>1, <2>1, <1>1, <1>2, <1>3, <1>5, <1>6, <1>7 DEF Addr
  <2>2. CASE ~((q + 1) * S < m.end)
    <3>1. NextAddr = m.end
      BY <2>2, <1>8
    <3>2. QED
      BY <3>1, <2>2, <1>1, <1>2, <1>3, <1>5, <1>6 DEF Addr
  <2>3. QED
    BY <2>1, <2>2
<1>10. ASSUME NEW p \in Nat, addr <= p, p < NextAddr PROVE p \div S = q
  <2>1. q * S <= p /\ p < q * S + S
    BY <1>10, <1>5, <1>9, <1>3, <1>2
  <2>2. QED
    BY <2>1, <1>2, <1>5, InBlock
<1>11. ASSUME level = PTE PROVE NextAddr = addr + PageSize
  <2>1. S = PageSize
    BY <1>11, SpanFacts DEF S
  <2>2. addr + PageSize <= NextAddr
    BY <1>3, <1>4, <1>9, PageFits
  <2>3. PICK k \in Nat : addr = k * PageSize
    BY <1>2, <1>3, <1>4, Multiple
  <2>4. q * PageSize = addr
    <3>1. ~(q * PageSize < k * PageSize)
      BY <2>1, <2>3, <1>5, <1>2, Apart
    <3>2. QED
      BY <3>1, <2>1, <2>3, <1>5, <1>2
  <2>5. QED
    BY <2>1, <2>2, <2>4, <1>9, <1>3, <1>2
<1>12. QED
  BY <1>1, <1>3, <1>4, <1>9, <1>10, <1>11 DEF m, S, q

-----------------------------------------------------------------------------
(* The step behind an entry. *)

\* The pages of the entry that have a page table.
EntryPages == {p \in addr .. NextAddr - 1 : p % PageSize = 0 /\ HasTable(p)}

\* The set of levels the walk goes on at has a largest member.
LEMMA LevelFacts ==
  ASSUME NEW T \in SUBSET Levels, T # {}
  PROVE  Max(T) \in T /\ \A l \in T : l <= Max(T)
<1>1. \A l \in T : l = 0 \/ l = 1 \/ l = 2 \/ l = 3 \/ l = 4
  BY DEF Levels
<1>2. ASSUME NEW x \in T, \A y \in T : x >= y
      PROVE  Max(T) \in T /\ \A l \in T : l <= Max(T)
  <2>1. \E z \in T : \A y \in T : z >= y
    BY <1>2
  <2>2. Max(T) \in T /\ \A y \in T : Max(T) >= y
    BY <2>1 DEF Max
  <2>3. QED
    BY <2>2, <1>1
<1>3. CASE 4 \in T
  BY <1>1, <1>2, <1>3
<1>4. CASE 3 \in T /\ 4 \notin T
  BY <1>1, <1>2, <1>4
<1>5. CASE 2 \in T /\ 3 \notin T /\ 4 \notin T
  BY <1>1, <1>2, <1>5
<1>6. CASE 1 \in T /\ 2 \notin T /\ 3 \notin T /\ 4 \notin T
  BY <1>1, <1>2, <1>6
<1>7. CASE 1 \notin T /\ 2 \notin T /\ 3 \notin T /\ 4 \notin T
  BY <1>1, <1>2, <1>7
<1>8. QED
  BY <1>3, <1>4, <1>5, <1>6, <1>7

\* Nothing but the calls before the snapshot changes what the lists say.
LEMMA SameLists ==
  ASSUME UNCHANGED callVars
  PROVE  /\ \A p : Wanted(p)' = Wanted(p) /\ Contradicted(p)' = Contradicted(p)
         /\ \A p : HasTable(p)' = HasTable(p)
         /\ \A m : Walked(m)' = Walked(m)
BY DEF callVars, Wanted, Contradicted, Excluded, Included, Within, Intersects, HasTable, Walked

\* What holds from lo on holds from later on.
LEMMA FreshLater ==
  ASSUME UNCHANGED callVars, NEW lo \in Int, NEW hi \in Int, lo <= hi,
         FreshFor(lo, next_allowed_address', next_blocked_address')
  PROVE  FreshFrom(hi)'
<1>1. \A p \in Int : hi <= p => lo <= p
  OBVIOUS
<1>2. QED
  BY <1>1, SameLists DEF FreshFrom, FreshFor

\* Where the walk goes on at the same or a higher level, it is at an entry of
\* that level; and where it goes on at a pte, in the same page table.
LEMMA LevelBehind ==
  ASSUME TypeOK, PlaceOK, pc = "walk", NextAddr # mappings[pvma].end, Advance
  PROVE  /\ level' \in Levels /\ addr' = NextAddr /\ NextAddr % Span[level'] = 0
         /\ level' = PTE => level = PTE /\ NextAddr \div Span[PMD] = addr \div Span[PMD]
<1> DEFINE T == {l \in Levels : l = level \/ (l > level /\ NextAddr % Span[l] = 0)}
<1>1. level' = Max(T) /\ addr' = NextAddr
  BY DEF Advance
<1>2. level \in Levels /\ level \in T
  BY DEF TypeOK
<1>3. Max(T) \in T /\ \A l \in T : l <= Max(T)
  BY <1>2, LevelFacts
<1>4. NextAddr % Span[level] = 0
  BY EntryFacts
<1>5. level' \in T
  BY <1>1, <1>3
<1>6. level' \in Levels /\ NextAddr % Span[level'] = 0
  BY <1>4, <1>5
<1>7. ASSUME level' = PTE
      PROVE  level = PTE /\ NextAddr \div Span[PMD] = addr \div Span[PMD]
  <2>1. level = PTE
    BY <1>2, <1>3, <1>1, <1>7 DEF Levels, PTE
  <2>2. PMD \notin T
    <3>1. ~(PMD <= PTE)
      BY DEF PTE, PMD
    <3>2. QED
      BY <3>1, <1>3, <1>1, <1>7
  <2>3. NextAddr % Span[PMD] # 0
    BY <2>1, <2>2 DEF Levels, PTE, PMD
  <2> DEFINE b == Span[PMD]
             k == NextAddr \div b
  <2>4. b \in Nat /\ b > 0 /\ b % PageSize = 0 /\ PageSize \in Nat /\ PageSize > 0
    BY SpanFacts, SpansDivide DEF Levels, PMD
  <2>5. /\ addr \in Nat /\ NextAddr \in Nat /\ NextAddr = addr + PageSize
        /\ addr % PageSize = 0 /\ NextAddr % PageSize = 0
    BY <2>1, EntryFacts DEF Addr
  <2>6. k \in Nat /\ k * b <= NextAddr /\ NextAddr < k * b + b
    BY <2>4, <2>5, Block
  <2>7. (k * b) % b = 0 /\ k * b \in Nat
    BY <2>4, <2>6, MultipleMod
  <2>8. k * b # NextAddr
    BY <2>3, <2>7
  <2>9. (k * b) % PageSize = 0
    BY <2>4, <2>7, Divides
  <2> HIDE DEF b, k
  <2>10. k * b + PageSize <= NextAddr
    BY <2>5, <2>6, <2>7, <2>8, <2>9, PageFits
  <2>11. addr \div b = k
    BY <2>4, <2>5, <2>6, <2>7, <2>10, InBlock
  <2>12. QED
    BY <2>1, <2>11 DEF b, k
<1>8. QED
  BY <1>1, <1>6, <1>7

\* The pages of the entry are asked about for the first time.
LEMMA EntryIsNew ==
  ASSUME TypeOK, PlaceOK, pc = "walk"
  PROVE  EntryPages \cap Visited = {}
<1>1. SUFFICES ASSUME NEW p \in EntryPages, NEW k \in 1 .. Len(mappings),
                      mappings[k].start <= p, p < mappings[k].end,
                      k < pvma \/ (k = pvma /\ p < addr)
               PROVE  FALSE
  BY DEF Visited
<1>2. pvma \in 1 .. Len(mappings) /\ addr \in Int /\ p \in Int /\ addr <= p /\ mappings[pvma].start <= addr
  BY EntryFacts DEF EntryPages, PlaceOK, Addr
<1>3. k < pvma
  BY <1>1, <1>2
<1>4. mappings[k].end <= mappings[pvma].start
  BY <1>2, <1>3, LayoutFacts
<1>5. mappings[k].end \in Int /\ mappings[pvma].start \in Int
  BY <1>2, LayoutFacts, SpanFacts DEF Addr
<1>6. QED
  BY <1>1, <1>2, <1>4, <1>5

\* A step behind the entry adds its pages to the ones asked about.
LEMMA AdvanceVisits ==
  ASSUME TypeOK, PlaceOK, pc = "walk", Advance, UNCHANGED callVars
  PROVE  Visited' = Visited \cup EntryPages
<1> DEFINE m == mappings[pvma]
<1>1. /\ addr \in Int /\ NextAddr \in Int /\ m.start \in Int /\ m.end \in Int /\ m.start >= 0 /\ m.end <= Top
      /\ m.start <= addr /\ addr < NextAddr /\ NextAddr <= m.end /\ Top \in Int
      /\ pvma \in 1 .. Len(mappings) /\ Len(mappings) \in Nat /\ Walked(m)
  BY EntryFacts, LayoutFacts, SpanFacts DEF PlaceOK, Addr
<1>2. \A k \in 1 .. Len(mappings) : mappings[k].start \in Int /\ mappings[k].end \in Int
  BY LayoutFacts, SpanFacts DEF Addr
<1> DEFINE Covers(p, k) == mappings[k].start <= p /\ p < mappings[k].end /\ Walked(mappings[k])
           Asked(p) == \E k \in 1 .. Len(mappings) : Covers(p, k) /\ (k < pvma \/ (k = pvma /\ p < addr))
           AskedNow(p) == \E k \in 1 .. Len(mappings) :
                            Covers(p, k) /\ (k < pvma' \/ (k = pvma' /\ pc' \in {"walk", "error"} /\ p < addr'))
<1>3. Visited = {p \in 0 .. Top - 1 : p % PageSize = 0 /\ HasTable(p) /\ Asked(p)}
  BY DEF Visited, HasTable
<1>4. Visited' = {p \in 0 .. Top - 1 : p % PageSize = 0 /\ HasTable(p) /\ AskedNow(p)}
  BY SameLists DEF Visited, HasTable, callVars
<1>5. ASSUME NEW p \in Int PROVE AskedNow(p) <=> Asked(p) \/ (addr <= p /\ p < NextAddr)
  <2>1. Covers(p, pvma) <=> m.start <= p /\ p < m.end
    BY <1>1
  <2> HIDE DEF Covers, m
  <2>2. CASE NextAddr = m.end
    <3>1. pvma' = pvma + 1 /\ pc' = "vma"
      BY <2>2 DEF Advance, m
    <3>2. AskedNow(p) <=> \E k \in 1 .. Len(mappings) : Covers(p, k) /\ k <= pvma
      BY <3>1, <1>1
    <3>3. QED
      BY <3>2, <2>1, <2>2, <1>1
  <2>3. CASE NextAddr # m.end
    <3>1. pvma' = pvma /\ pc' = "walk" /\ addr' = NextAddr
      BY <2>3 DEF Advance, m
    <3>2. QED
      BY <3>1, <2>1, <1>1
  <2>4. QED
    BY <2>2, <2>3
<1>6. EntryPages = {p \in 0 .. Top - 1 : p % PageSize = 0 /\ HasTable(p) /\ addr <= p /\ p < NextAddr}
  BY <1>1 DEF EntryPages
<1> HIDE DEF Asked, AskedNow
<1>7. QED
  BY <1>3, <1>4, <1>5, <1>6, <1>1

\* The types and the place after a step behind the entry.
LEMMA AdvanceKeeps ==
  ASSUME TypeOK, PlaceOK, pc = "walk", Advance, UNCHANGED callVars,
         next_allowed_address' \in Addr, next_blocked_address' \in Addr, taken' \subseteq Addr,
         FreshFor(addr, next_allowed_address', next_blocked_address')
  PROVE  TypeOK' /\ PlaceOK'
<1> DEFINE m == mappings[pvma]
<1>1. /\ addr \in Int /\ NextAddr \in Int /\ NextAddr \in Addr /\ m.start \in Int /\ m.end \in Int
      /\ m.start <= addr /\ addr < NextAddr /\ NextAddr <= m.end
      /\ pvma \in 1 .. Len(mappings) /\ Len(mappings) \in Nat /\ Walked(m) /\ 0 \in Addr
  BY EntryFacts, LayoutFacts, SpanFacts DEF PlaceOK, Addr
<1>2. CASE NextAddr = m.end
  <2>1. pvma' = pvma + 1 /\ pc' = "vma" /\ addr' = 0 /\ level' = PGD
    BY <1>2 DEF Advance
  <2>2. TypeOK'
    BY <2>1, <1>1 DEF TypeOK, callVars, Levels, PGD
  <2>3. ASSUME pvma' <= Len(mappings) PROVE FreshFrom(mappings[pvma].start)'
    <3>1. pvma + 1 \in 1 .. Len(mappings)
      BY <2>1, <2>3, <1>1
    <3>2. mappings[pvma].end <= mappings[pvma + 1].start /\ mappings[pvma + 1].start \in Int
      BY <3>1, <1>1, LayoutFacts, SpanFacts DEF Addr
    <3>3. mappings' = mappings /\ pvma' = pvma + 1
      BY <2>1 DEF callVars
    <3>4. \A x \in Int : addr <= x => FreshFrom(x)'
      BY <1>1, FreshLater
    <3>5. PICK y \in Int : y = mappings[pvma + 1].start /\ addr <= y
      BY <3>2, <1>1, <1>2
    <3>6. FreshFrom(y)'
      BY <3>4, <3>5
    <3>7. y = mappings'[pvma'].start
      BY <3>3, <3>5
    <3>8. QED
      BY <3>6, <3>7 DEF FreshFrom, FreshFor
  <2>4. QED
    BY <2>1, <2>2, <2>3, <1>1 DEF PlaceOK, callVars
<1>3. CASE NextAddr # m.end
  <2>1. pvma' = pvma /\ pc' = "walk" /\ addr' = NextAddr
    BY <1>3 DEF Advance
  <2>2. /\ level' \in Levels /\ NextAddr % Span[level'] = 0
        /\ level' = PTE => level = PTE /\ NextAddr \div Span[PMD] = addr \div Span[PMD]
    BY <1>3, LevelBehind
  <2>3. TypeOK'
    BY <2>1, <2>2, <1>1, <1>3 DEF TypeOK, callVars
  <2>4. level' = PTE => HasTable(addr)'
    BY <2>1, <2>2 DEF PlaceOK, HasTable, callVars
  <2>5. FreshFrom(addr)'
    BY <2>1, <1>1, SameLists DEF FreshFor, FreshFrom
  <2>6. Walked(mappings[pvma])'
    BY <1>1, <2>1 DEF Walked, Intersects, callVars
  <2>7. QED
    BY <2>1, <2>3, <2>4, <2>5, <2>6, <1>1 DEF PlaceOK, callVars
<1>4. QED
  BY <1>2, <1>3

\* The decisions stay right if those on the pages of the entry are.
LEMMA DecisionsKept ==
  ASSUME TypeOK, PlaceOK, ListsObeyed, pc = "walk", UNCHANGED callVars,
         Visited' = Visited \cup EntryPages,
         taken \subseteq taken', taken' \subseteq taken \cup EntryPages,
         \A p \in EntryPages : ~Contradicted(p) => (p \in taken' <=> Wanted(p))
  PROVE  ListsObeyed'
<1>1. taken' \subseteq Visited'
  BY DEF ListsObeyed
<1>2. ASSUME NEW p \in Visited', ~Contradicted(p) PROVE p \in taken' <=> Wanted(p)
  <2>1. CASE p \in EntryPages
    BY <2>1, <1>2
  <2>2. CASE p \in Visited
    <3>1. p \notin EntryPages
      BY <2>2, EntryIsNew
    <3>2. p \in taken' <=> p \in taken
      BY <3>1
    <3>3. QED
      BY <3>2, <2>2, <1>2 DEF ListsObeyed, Contradicted
  <2>3. QED
    BY <2>1, <2>2
<1>3. \A p : Wanted(p)' = Wanted(p) /\ Contradicted(p)' = Contradicted(p)
  BY SameLists
<1>4. QED
  BY <1>1, <1>2, <1>3 DEF ListsObeyed, Contradicted

-----------------------------------------------------------------------------
(* The actions. *)

LEMMA WalkInit == Init => WalkInv
<1>1. SUFFICES ASSUME Init PROVE WalkInv
  OBVIOUS
<1>2. TypeOK
  <2>1. 0 \in Addr /\ 0 \in 0 .. Len(mappings) + 1
    <3> DEFINE R == [start : Addr, end : Addr, plain : BOOLEAN]
    <3>1. mappings \in Seq(R)
      BY <1>1, WalkAssumption DEF Init
    <3> HIDE DEF R
    <3>2. Len(mappings) \in Nat
      BY <3>1
    <3>3. QED
      BY <3>2, SpanFacts DEF Addr
  <2>2. level \in Levels /\ pc # "walk" /\ {blocklist, allowlist} \subseteq Ranges \cup {NoRange}
    BY <1>1 DEF Init, Levels, PGD
  <2>3. QED
    BY <1>1, <2>1, <2>2 DEF Init, TypeOK
<1>3. PlaceOK
  BY <1>1 DEF Init, PlaceOK
<1>4. ListsObeyed
  <2>1. Visited = {}
    BY <1>1 DEF Init, Visited
  <2>2. QED
    BY <1>1, <2>1 DEF Init, ListsObeyed
<1>5. QED
  BY <1>2, <1>3, <1>4 DEF WalkInv

\* Nothing is remembered before the take, and no page has been asked about.
LEMMA CallsKeep ==
  ASSUME WalkInv, pc = "user", UNCHANGED <<mappings, tables, nextVars, level, addr, taken>>,
         {blocklist', allowlist'} \subseteq Ranges \cup {NoRange}, block' \in BOOLEAN,
         excluded' \subseteq Ranges, included' \subseteq Ranges,
         \/ UNCHANGED <<pvma, pc>>
         \/ pvma' = 1 /\ pc' = "vma"
  PROVE  WalkInv'
<1> USE DEF WalkInv
<1>1. pvma = 0 /\ taken = {} /\ next_allowed_address = 0 /\ next_blocked_address = 0
  BY DEF PlaceOK
<1>2. Len(mappings) \in Nat
  BY LayoutFacts
<1>3. TypeOK'
  BY <1>1, <1>2 DEF TypeOK, nextVars
<1>4. PlaceOK'
  <2>1. ASSUME pvma' = 1, 1 <= Len(mappings) PROVE FreshFrom(mappings[pvma].start)'
    <3>1. mappings[1].start \in Int /\ mappings[1].start >= 0
      BY <2>1, <1>2, LayoutFacts, SpanFacts DEF Addr
    <3>2. \A p \in Int : mappings[1].start <= p => ~(p + PageSize < 0)
      BY <3>1, SpanFacts
    <3>3. QED
      BY <2>1, <1>1, <3>1, <3>2, SpanFacts DEF FreshFrom, FreshFor, nextVars
  <2>2. QED
    BY <1>1, <2>1 DEF PlaceOK, nextVars
<1>5. ListsObeyed'
  <2>1. Visited' = {}
    BY <1>1 DEF Visited
  <2>2. QED
    BY <1>1, <2>1 DEF ListsObeyed
<1>6. QED
  BY <1>3, <1>4, <1>5

LEMMA NextVmaFailsKeeps ==
  ASSUME WalkInv, next_vma_fails
  PROVE  WalkInv'
<1> USE DEF WalkInv
<1>1. /\ pc = "vma" /\ pc' = "error" /\ addr = 0 /\ UNCHANGED callVars /\ UNCHANGED nextVars
      /\ UNCHANGED <<pvma, level, addr, taken>>
  BY DEF next_vma_fails, PlaceOK
<1>2. TypeOK' /\ PlaceOK'
  BY <1>1 DEF TypeOK, PlaceOK, callVars, nextVars
<1>3. \A p \in 0 .. Top - 1 : ~(p < addr)
  BY <1>1, SpanFacts
<1>4. Visited' = Visited
  BY <1>1, <1>3, SameLists DEF Visited, callVars
<1>5. ListsObeyed'
  BY <1>1, <1>4, SameLists DEF ListsObeyed, Contradicted
<1>6. QED
  BY <1>2, <1>5

LEMMA NextVmaKeeps ==
  ASSUME WalkInv, next_vma
  PROVE  WalkInv'
<1> USE DEF WalkInv
<1>1. /\ pc = "vma" /\ UNCHANGED callVars /\ UNCHANGED nextVars /\ taken' = taken
      /\ pvma \in 1 .. Len(mappings) + 1 /\ Len(mappings) \in Nat
  BY LayoutFacts DEF next_vma, PlaceOK, TypeOK
<1>2. \A k \in 1 .. Len(mappings) : /\ mappings[k].start \in Addr /\ mappings[k].start \in Int
                                     /\ mappings[k].end \in Int /\ mappings[k].start < mappings[k].end
  BY LayoutFacts, SpanFacts DEF Addr
<1>3. Visited' = Visited => ListsObeyed'
  BY <1>1, SameLists DEF ListsObeyed, Contradicted
<1> DEFINE Covers(p, k) == mappings[k].start <= p /\ p < mappings[k].end /\ Walked(mappings[k])
           Asked(p) == \E k \in 1 .. Len(mappings) : Covers(p, k) /\ k < pvma
           AskedNow(p) == \E k \in 1 .. Len(mappings) :
                            Covers(p, k) /\ (k < pvma' \/ (k = pvma' /\ pc' \in {"walk", "error"} /\ p < addr'))
<1>4. Visited = {p \in 0 .. Top - 1 : p % PageSize = 0 /\ HasTable(p) /\ Asked(p)}
  BY <1>1 DEF Visited, HasTable
<1>5. Visited' = {p \in 0 .. Top - 1 : p % PageSize = 0 /\ HasTable(p) /\ AskedNow(p)}
  BY <1>1, SameLists DEF Visited, HasTable, callVars
<1>6. ASSUME NEW p \in 0 .. Top - 1 PROVE AskedNow(p) <=> Asked(p)
  <2>1. p \in Int
    BY SpanFacts
  <2>2. CASE pvma > Len(mappings)
    <3>1. pc' = "done" /\ pvma' = pvma
      BY <2>2 DEF next_vma
    <3>2. QED
      BY <3>1
  <2>3. CASE pvma <= Len(mappings) /\ Walked(mappings[pvma])
    <3>1. pc' = "walk" /\ pvma' = pvma /\ addr' = mappings[pvma].start
      BY <2>3, <1>1 DEF next_vma
    <3>2. QED
      BY <3>1, <2>1, <1>1, <1>2
  <2>4. CASE pvma <= Len(mappings) /\ ~Walked(mappings[pvma])
    <3>1. pc' = "vma" /\ pvma' = pvma + 1
      BY <2>4, <1>1 DEF next_vma
    <3>2. AskedNow(p) <=> \E k \in 1 .. Len(mappings) : Covers(p, k) /\ k < pvma + 1
      BY <3>1
    <3>3. ~Covers(p, pvma)
      BY <2>4
    <3> HIDE DEF Covers
    <3>4. QED
      BY <3>2, <3>3, <1>1
  <2>5. QED
    BY <2>2, <2>3, <2>4, <1>1
<1> HIDE DEF Asked, AskedNow
<1>7. Visited' = Visited
  BY <1>4, <1>5, <1>6
<1>8. TypeOK' /\ PlaceOK'
  <2>1. CASE pvma > Len(mappings)
    <3>1. pc' = "done" /\ UNCHANGED <<pvma, addr, level>>
      BY <2>1 DEF next_vma
    <3>2. QED
      BY <3>1, <1>1 DEF TypeOK, PlaceOK, callVars, nextVars
  <2>2. CASE pvma <= Len(mappings) /\ Walked(mappings[pvma])
    <3>1. pc' = "walk" /\ pvma' = pvma /\ addr' = mappings[pvma].start /\ level' = PGD
      BY <2>2, <1>1 DEF next_vma
    <3>2. TypeOK'
      BY <3>1, <2>2, <1>1, <1>2 DEF TypeOK, callVars, nextVars, Levels, PGD
    <3>3. FreshFrom(mappings[pvma].start)
      BY <2>2, <1>1 DEF PlaceOK
    <3>4. FreshFrom(addr)'
      BY <3>1, <3>3, <1>1, SameLists DEF FreshFrom, FreshFor, nextVars
    <3>5. Walked(mappings[pvma])'
      BY <3>1, <2>2, <1>1 DEF Walked, Intersects, callVars
    <3>6. QED
      BY <3>1, <3>2, <3>4, <3>5, <2>2, <1>1 DEF PlaceOK, callVars, PGD, PTE
  <2>3. CASE pvma <= Len(mappings) /\ ~Walked(mappings[pvma])
    <3>1. pc' = "vma" /\ pvma' = pvma + 1 /\ UNCHANGED <<addr, level>>
      BY <2>3, <1>1 DEF next_vma
    <3>2. TypeOK'
      BY <3>1, <2>3, <1>1 DEF TypeOK, callVars, nextVars
    <3>3. ASSUME pvma + 1 <= Len(mappings) PROVE FreshFrom(mappings[pvma].start)'
      <4>1. FreshFrom(mappings[pvma].start)
        BY <2>3, <1>1 DEF PlaceOK
      <4>2. mappings[pvma].end <= mappings[pvma + 1].start
        BY <3>3, <1>1, LayoutFacts
      <4>3. PICK y \in Int : y = mappings[pvma + 1].start /\ mappings[pvma].start <= y
        BY <4>2, <3>3, <1>1, <1>2
      <4>4. \A p \in Int : y <= p => mappings[pvma].start <= p
        BY <4>3, <2>3, <1>1, <1>2
      <4>5. y = mappings'[pvma'].start
        BY <4>3, <3>1, <1>1 DEF callVars
      <4>6. QED
        BY <4>1, <4>4, <4>5, <1>1, SameLists DEF FreshFrom, FreshFor, nextVars
    <3>4. QED
      BY <3>1, <3>2, <3>3, <2>3, <1>1 DEF PlaceOK, callVars
  <2>4. QED
    BY <2>1, <2>2, <2>3, <1>1
<1>9. QED
  BY <1>3, <1>7, <1>8

\* Under a hole there is no page with a table.
LEMMA HoleKeeps ==
  ASSUME WalkInv, hole
  PROVE  WalkInv'
<1> USE DEF WalkInv
<1>1. /\ pc = "walk" /\ ~Present /\ Advance /\ UNCHANGED callVars /\ UNCHANGED nextVars /\ taken' = taken
  BY DEF hole
<1>2. EntryPages = {}
  <2>1. SUFFICES ASSUME NEW p \in EntryPages PROVE FALSE
    OBVIOUS
  <2>2. PICK a \in tables : a \div Span[PMD] = p \div Span[PMD]
    BY DEF EntryPages, HasTable
  <2>3. level \in Levels /\ level # PTE /\ ~(\E x \in tables : x \div Span[level] = addr \div Span[level])
    BY <1>1 DEF Present, TypeOK
  <2>4. level >= PMD
    BY <2>3 DEF Levels, PTE, PMD
  <2>5. /\ Span[PMD] \in Nat /\ Span[PMD] > 0 /\ Span[level] \in Nat /\ Span[level] > 0
        /\ Span[level] % Span[PMD] = 0
    BY <2>3, <2>4, SpanFacts, SpansDivide DEF Levels, PMD
  <2>6. addr \in Nat /\ p \in Nat /\ addr <= p /\ p < NextAddr
    BY <1>1, EntryFacts, SpanFacts DEF EntryPages, Addr
  <2>7. a \in Nat
    BY WalkAssumption, SpanFacts DEF TypeOK, Addr
  <2>8. a \div Span[level] = p \div Span[level]
    <3>1. PICK small \in Nat, large \in Nat : small = Span[PMD] /\ large = Span[level]
      BY <2>5
    <3>2. small > 0 /\ large > 0 /\ large % small = 0 /\ a \div small = p \div small
      BY <2>2, <2>5, <3>1
    <3>3. \A x, y \in Nat : x \div small = y \div small => x \div large = y \div large
      BY <3>2, SameBlock
    <3>4. a \div large = p \div large
      BY <3>2, <3>3, <2>6, <2>7
    <3>5. QED
      BY <3>1, <3>4
  <2>9. p \div Span[level] = addr \div Span[level]
    BY <1>1, <2>6, EntryFacts
  <2>10. QED
    BY <2>3, <2>8, <2>9
<1>3. Visited' = Visited \cup EntryPages
  BY <1>1, AdvanceVisits
<1>4. ListsObeyed'
  BY <1>1, <1>2, <1>3, DecisionsKept
<1>5. TypeOK' /\ PlaceOK'
  <2>1. FreshFor(addr, next_allowed_address', next_blocked_address')
    BY <1>1 DEF PlaceOK, FreshFrom, nextVars
  <2>2. next_allowed_address' \in Addr /\ next_blocked_address' \in Addr /\ taken' \subseteq Addr
    BY <1>1 DEF TypeOK, nextVars
  <2>3. QED
    BY <1>1, <2>1, <2>2, AdvanceKeeps
<1>6. QED
  BY <1>4, <1>5

\* The answer at the entry the walk is at.
LEMMA EntryAnswer ==
  ASSUME WalkInv, pc = "walk", Remember
  PROVE  /\ next_allowed_address' \in Addr /\ next_blocked_address' \in Addr
         /\ FreshFor(addr, next_allowed_address', next_blocked_address')
         /\ Answer.action = "CONTINUE" => \A p \in EntryPages : ~Contradicted(p) => ~Wanted(p)
         /\ Answer.action # "CONTINUE" /\ level = PTE /\ ~Contradicted(addr) => Wanted(addr)
<1> USE DEF WalkInv
<1>1. addr \in Addr /\ NextAddr \in Addr /\ addr < NextAddr /\ FreshFrom(addr)
  BY EntryFacts DEF PlaceOK
<1>2. /\ Answer.allowed \in Addr /\ Answer.blocked \in Addr
      /\ FreshFor(addr, Answer.allowed, Answer.blocked)
      /\ Answer.action = "CONTINUE" =>
           \A p \in Int : addr <= p /\ p + PageSize <= NextAddr /\ ~Contradicted(p) => ~Wanted(p)
      /\ Answer.action # "CONTINUE" /\ NextAddr = addr + PageSize /\ ~Contradicted(addr) => Wanted(addr)
  BY <1>1, AnswerRight DEF Answer
<1>3. ASSUME NEW p \in EntryPages PROVE p \in Int /\ addr <= p /\ p + PageSize <= NextAddr
  <2>1. p \in Nat /\ NextAddr \in Nat /\ addr <= p /\ p < NextAddr /\ p % PageSize = 0
    BY <1>1, SpanFacts DEF EntryPages, Addr
  <2>2. NextAddr % PageSize = 0
    BY EntryFacts
  <2>3. QED
    BY <2>1, <2>2, PageFits
<1>4. level = PTE => NextAddr = addr + PageSize
  BY EntryFacts
<1>5. QED
  BY <1>2, <1>3, <1>4 DEF Remember

\* The walk goes one level down, at the same address.
LEMMA DescendKeeps ==
  ASSUME WalkInv, pc = "walk", Present, level # PTE, Remember, Descend, UNCHANGED callVars, taken' = taken
  PROVE  WalkInv'
<1> USE DEF WalkInv
<1>1. /\ next_allowed_address' \in Addr /\ next_blocked_address' \in Addr
      /\ FreshFor(addr, next_allowed_address', next_blocked_address')
  BY EntryAnswer
<1>2. level' = level - 1 /\ addr' = addr /\ pvma' = pvma /\ pc' = "walk" /\ level \in 1 .. 4 /\ level' \in Levels
  BY DEF Descend, TypeOK, Levels, PTE
<1>3. addr = mappings[pvma].start \/ addr % Span[level - 1] = 0
  <2>1. SUFFICES ASSUME addr % Span[level] = 0 PROVE addr % Span[level - 1] = 0
    BY DEF TypeOK
  <2>2. level - 1 \in Levels \ {PGD} /\ level \in Levels
    BY <1>2 DEF Levels, PGD
  <2>3. Span[(level - 1) + 1] % Span[level - 1] = 0
    BY <2>2, SpanFacts
  <2>4. /\ Span[level] % Span[level - 1] = 0 /\ Span[level] \in Nat /\ Span[level] > 0
        /\ Span[level - 1] \in Nat /\ Span[level - 1] > 0 /\ addr \in Nat
    BY <2>2, <2>3, <1>2, SpanFacts DEF TypeOK, Addr
  <2>5. QED
    BY <2>1, <2>4, Divides
<1>4. TypeOK'
  BY <1>1, <1>2, <1>3 DEF TypeOK, callVars
<1>5. level' = PTE => HasTable(addr)
  BY <1>2 DEF Present, HasTable, PTE, PMD
<1>6. FreshFrom(addr)'
  BY <1>1, <1>2, SameLists DEF FreshFrom, FreshFor
<1>7. Walked(mappings[pvma])'
  BY <1>2 DEF PlaceOK, Walked, Intersects, callVars
<1>8. PlaceOK'
  BY <1>2, <1>5, <1>6, <1>7 DEF PlaceOK, HasTable, callVars
<1>9. Visited' = Visited
  BY <1>2, SameLists DEF Visited, callVars
<1>10. ListsObeyed'
  BY <1>9, SameLists DEF ListsObeyed, Contradicted
<1>11. QED
  BY <1>4, <1>8, <1>10

LEMMA PudPmdKeeps ==
  ASSUME WalkInv, pud_pmd_entry
  PROVE  WalkInv'
<1> USE DEF WalkInv
<1>1. /\ pc = "walk" /\ Present /\ level \in {PMD, PUD} /\ level # PTE /\ Remember
      /\ UNCHANGED callVars /\ taken' = taken
  BY DEF pud_pmd_entry, AtEntry, PMD, PUD, PTE
<1>2. CASE Answer.action # "CONTINUE"
  BY <1>1, <1>2, DescendKeeps DEF pud_pmd_entry
<1>3. CASE Answer.action = "CONTINUE"
  <2>1. Advance
    BY <1>3 DEF pud_pmd_entry
  <2>2. TypeOK' /\ PlaceOK'
    BY <1>1, <2>1, EntryAnswer, AdvanceKeeps DEF TypeOK
  <2>3. Visited' = Visited \cup EntryPages
    BY <1>1, <2>1, AdvanceVisits
  <2>4. \A p \in EntryPages : p \notin taken'
    BY <1>1, EntryIsNew DEF ListsObeyed
  <2>5. \A p \in EntryPages : ~Contradicted(p) => ~Wanted(p)
    BY <1>1, <1>3, EntryAnswer
  <2>6. ListsObeyed'
    BY <1>1, <2>3, <2>4, <2>5, DecisionsKept
  <2>7. QED
    BY <2>2, <2>6
<1>4. QED
  BY <1>2, <1>3

LEMMA PteKeeps ==
  ASSUME WalkInv, snapshot_pte_entry
  PROVE  WalkInv'
<1> USE DEF WalkInv
<1>1. /\ pc = "walk" /\ level = PTE /\ Remember /\ Advance /\ UNCHANGED callVars
      /\ taken' = IF Answer.action = "CONTINUE" THEN taken ELSE taken \cup {addr}
  BY DEF snapshot_pte_entry, AtEntry
<1>2. TypeOK' /\ PlaceOK'
  BY <1>1, EntryAnswer, AdvanceKeeps DEF TypeOK
<1>3. Visited' = Visited \cup EntryPages
  BY <1>1, AdvanceVisits
<1>4. EntryPages = {addr}
  <2>1. addr \in Nat /\ NextAddr = addr + PageSize /\ addr % PageSize = 0 /\ PageSize \in Nat /\ PageSize > 0
    BY <1>1, EntryFacts, SpanFacts DEF Addr
  <2>2. HasTable(addr)
    BY <1>1 DEF PlaceOK
  <2>3. ASSUME NEW p \in EntryPages PROVE p = addr
    <3>1. p \in Nat /\ addr <= p /\ p < addr + PageSize /\ p % PageSize = 0
      BY <2>1 DEF EntryPages
    <3>2. ~(addr < p)
      BY <3>1, <2>1, PageFits
    <3>3. QED
      BY <3>1, <3>2, <2>1
  <2>4. addr \in EntryPages
    BY <2>1, <2>2 DEF EntryPages
  <2>5. QED
    BY <2>3, <2>4
<1>5. addr \notin taken
  BY <1>1, <1>4, EntryIsNew DEF ListsObeyed
<1>6. ~Contradicted(addr) => (addr \in taken' <=> Wanted(addr))
  BY <1>1, <1>4, <1>5, EntryAnswer
<1>7. ListsObeyed'
  BY <1>1, <1>3, <1>4, <1>6, DecisionsKept
<1>8. QED
  BY <1>2, <1>7

LEMMA PteFailsKeeps ==
  ASSUME WalkInv, pte_entry_fails
  PROVE  WalkInv'
<1> USE DEF WalkInv
<1>1. /\ pc = "walk" /\ pc' = "error" /\ Remember /\ UNCHANGED callVars
      /\ UNCHANGED <<pvma, level, addr, taken>>
  BY DEF pte_entry_fails, AtEntry
<1>2. next_allowed_address' \in Addr /\ next_blocked_address' \in Addr
  BY <1>1, EntryAnswer
<1>3. TypeOK' /\ PlaceOK'
  BY <1>1, <1>2 DEF TypeOK, PlaceOK, callVars
<1>4. Visited' = Visited
  BY <1>1, SameLists DEF Visited, callVars
<1>5. ListsObeyed'
  BY <1>1, <1>4, SameLists DEF ListsObeyed, Contradicted
<1>6. QED
  BY <1>3, <1>5

LEMMA WalkPreserved == WalkInv /\ [Next]_vars => WalkInv'
<1>1. SUFFICES ASSUME WalkInv, [Next]_vars PROVE WalkInv'
  OBVIOUS
<1>2. ASSUME NEW r \in Ranges, exclude_vmrange(r) \/ include_vmrange(r) PROVE WalkInv'
  BY <1>1, <1>2, CallsKeep DEF exclude_vmrange, include_vmrange, MayCall, WalkInv, TypeOK
<1>3. ASSUME NEW b \in BOOLEAN, take_memory_snapshot(b) PROVE WalkInv'
  BY <1>1, <1>3, CallsKeep DEF take_memory_snapshot, WalkInv, TypeOK
<1>4. ASSUME pgd_p4d_entry PROVE WalkInv'
  BY <1>1, <1>4, DescendKeeps DEF pgd_p4d_entry, AtEntry
<1>5. ASSUME UNCHANGED vars PROVE WalkInv'
  <2>1. UNCHANGED callVars /\ UNCHANGED nextVars /\ UNCHANGED <<pvma, level, addr, taken, pc>>
    BY <1>5 DEF vars
  <2>2. TypeOK'
    BY <1>1, <2>1 DEF WalkInv, TypeOK, callVars, nextVars
  <2>3. \A x : FreshFrom(x)' = FreshFrom(x)
    BY <2>1, SameLists DEF FreshFrom, FreshFor, nextVars
  <2>4. PlaceOK'
    BY <1>1, <2>1, <2>3, SameLists
       DEF WalkInv, PlaceOK, callVars, nextVars, HasTable, Walked, Intersects, FreshFrom, FreshFor
  <2>5. Visited' = Visited
    BY <2>1, SameLists DEF Visited, callVars
  <2>6. ListsObeyed'
    BY <1>1, <2>1, <2>5, SameLists DEF WalkInv, ListsObeyed, Contradicted
  <2>7. QED
    BY <2>2, <2>4, <2>6 DEF WalkInv
<1>6. QED
  BY <1>1, <1>2, <1>3, <1>4, <1>5, NextVmaKeeps, NextVmaFailsKeeps, HoleKeeps, PudPmdKeeps, PteKeeps, PteFailsKeeps
     DEF Next, Walk

-----------------------------------------------------------------------------
\* The walk stays within its mapping, decides rightly and remembers what is so.
THEOREM WalkInvHolds == Spec => []WalkInv
BY WalkInit, WalkPreserved, PTL DEF Spec

\* The walk stays inside its mapping and at entries of its level, for every
\* fan-out of the page tables (memory.c:499).
THEOREM WalkTypeCorrect == Spec => []TypeOK
<1>1. WalkInv => TypeOK
  BY DEF WalkInv
<1>2. QED
  BY <1>1, WalkInvHolds, PTL

LEMMA ListsGivenHolds == Spec => []ListsGiven
<1>1. Init => ListsGiven
  BY DEF Init, ListsGiven, Given
<1>2. ListsGiven /\ [Next]_vars => ListsGiven'
  <2>1. SUFFICES ASSUME ListsGiven, [Next]_vars PROVE ListsGiven'
    OBVIOUS
  <2>2. ASSUME UNCHANGED <<blocklist, allowlist, excluded, included>> PROVE ListsGiven'
    BY <2>1, <2>2 DEF ListsGiven, Given
  <2>3. ASSUME NEW r \in Ranges, exclude_vmrange(r) \/ include_vmrange(r) PROVE ListsGiven'
    BY <2>1, <2>3 DEF exclude_vmrange, include_vmrange, ListsGiven, Given
  <2>4. ASSUME NEW b \in BOOLEAN, take_memory_snapshot(b) PROVE ListsGiven'
    BY <2>2, <2>4 DEF take_memory_snapshot
  <2>5. ASSUME Walk PROVE UNCHANGED callVars
    BY <2>5 DEF Walk, next_vma, next_vma_fails, hole, pgd_p4d_entry, pud_pmd_entry,
                snapshot_pte_entry, pte_entry_fails
  <2>6. QED
    BY <2>1, <2>2, <2>3, <2>4, <2>5 DEF Next, vars, callVars
<1>3. QED
  BY <1>1, <1>2, PTL DEF Spec

\* Given one range at most, a list says what the caller said.
LEMMA ListsSay ==
  ASSUME TypeOK, ListsGiven, AtMostOne(excluded), AtMostOne(included)
  PROVE  /\ \A p \in Addr : AskedIn(p) <=> Included(p)
         /\ \A p \in Addr : AskedOut(p) <=> Excluded(p)
<1>1. Top \in Int /\ PageSize \in Int /\ PageSize > 0 /\ \A p \in Addr : p \in Int /\ 0 <= p /\ p <= Top
  BY SpanFacts DEF Addr
<1>2. (allowlist = NoRange /\ included = {}) \/ included = {allowlist}
  BY DEF ListsGiven, Given, AtMostOne
<1>3. (blocklist = NoRange /\ excluded = {}) \/ excluded = {blocklist}
  BY DEF ListsGiven, Given, AtMostOne
<1>4. ASSUME NEW p \in Addr PROVE ~Intersects(NoRange, p, p + PageSize) /\ ~Within(NoRange, p, p + PageSize)
  BY <1>1 DEF Intersects, Within, NoRange
<1>5. QED
  BY <1>2, <1>3, <1>4 DEF AskedIn, AskedOut, Included, Excluded

\* Whatever range each list was given, and whatever mappings and page tables there
\* are, the pages taken are the ones the caller wants (memory.c:330-428, 469-507).
THEOREM TakesTheWanted == Spec => []DecisionsRight
<1>1. ASSUME WalkInv, ListsGiven PROVE DecisionsRight
  <2>1. taken \subseteq Visited
    BY <1>1 DEF WalkInv, ListsObeyed
  <2>2. SUFFICES ASSUME AtMostOne(excluded), AtMostOne(included),
                        NEW k \in 1 .. Len(mappings), NEW p \in Behind(k),
                        ~(AskedOut(p) /\ AskedIn(p)), ~Sibling(p, mappings[k])
                 PROVE  p \in taken <=> CallerWants(p, mappings[k])
    BY <2>1 DEF DecisionsRight
  <2>3. /\ Len(mappings) \in Nat /\ mappings[k].start \in Nat /\ mappings[k].end \in Addr
        /\ mappings[k].end \in Nat /\ mappings[k].end % PageSize = 0 /\ mappings[k].end <= Top
        /\ Top \in Nat /\ PageSize \in Nat /\ PageSize > 0
    BY <1>1, LayoutFacts, SpanFacts DEF WalkInv, Addr
  <2>4. p \in Nat /\ mappings[k].start <= p /\ p < mappings[k].end /\ p % PageSize = 0
    BY <2>3 DEF Behind
  <2>5. p \in Addr /\ p \in 0 .. Top - 1 /\ p + PageSize <= mappings[k].end
    BY <2>3, <2>4, PageFits DEF Addr
  <2>6. (AskedIn(p) <=> Included(p)) /\ (AskedOut(p) <=> Excluded(p))
    BY <1>1, <2>2, <2>5, ListsSay DEF WalkInv
  <2>7. (\E r \in included : Intersects(r, mappings[k].start, mappings[k].end))
          <=> Intersects(allowlist, mappings[k].start, mappings[k].end)
    <3>1. ~Intersects(NoRange, mappings[k].start, mappings[k].end)
      BY <2>3 DEF Intersects, NoRange
    <3>2. (allowlist = NoRange /\ included = {}) \/ included = {allowlist}
      BY <1>1, <2>2 DEF ListsGiven, Given, AtMostOne
    <3>3. QED
      BY <3>1, <3>2
  <2>8. CASE Walked(mappings[k])
    <3>1. p \in Visited
      BY <2>2, <2>4, <2>5, <2>8 DEF Visited, Behind
    <3>2. p \in taken <=> Wanted(p)
      BY <1>1, <2>2, <2>6, <3>1 DEF WalkInv, ListsObeyed, Contradicted
    <3>3. QED
      BY <3>2, <2>2, <2>6, <2>7, <2>8 DEF Wanted, CallerWants, Sibling, Walked
  <2>9. CASE ~Walked(mappings[k])
    <3>1. ~Included(p)
      <4>1. allowlist.start \in Int /\ allowlist.end \in Int
        BY <1>1, RangeFacts DEF WalkInv
      <4>2. ~Intersects(allowlist, mappings[k].start, mappings[k].end)
        BY <2>9 DEF Walked
      <4>3. QED
        BY <4>1, <4>2, <2>3, <2>4, <2>5 DEF Included, Intersects
    <3>2. ~CallerWants(p, mappings[k])
      BY <3>1, <2>6, <2>9 DEF CallerWants, Walked
    <3>3. p \notin Visited
      <4>1. SUFFICES ASSUME NEW j \in 1 .. Len(mappings), Walked(mappings[j]),
                            mappings[j].start <= p, p < mappings[j].end
                     PROVE  FALSE
        BY DEF Visited
      <4>2. mappings[j].start \in Nat /\ mappings[j].end \in Nat
        BY <1>1, LayoutFacts, SpanFacts DEF WalkInv, Addr
      <4>3. j # k
        BY <4>1, <2>9
      <4>4. CASE j < k
        <5>1. mappings[j].end <= mappings[k].start
          BY <4>4, <1>1, <2>3, LayoutFacts DEF WalkInv
        <5>2. QED
          BY <5>1, <4>1, <4>2, <2>3, <2>4
      <4>5. CASE k < j
        <5>1. mappings[k].end <= mappings[j].start
          BY <4>5, <1>1, <2>3, LayoutFacts DEF WalkInv
        <5>2. QED
          BY <5>1, <4>1, <4>2, <2>3, <2>4
      <4>6. QED
        BY <4>3, <4>4, <4>5, <2>3
    <3>4. QED
      BY <3>2, <3>3, <2>1
  <2>10. QED
    BY <2>8, <2>9
<1>2. QED
  BY <1>1, WalkInvHolds, ListsGivenHolds, PTL

\* The addresses carried from entry to entry, from level to level and from mapping
\* to mapping are never stale (memory.c:339-345).
THEOREM FastPathsNeverStale == Spec => []FastPathsAgree
<1>1. ASSUME WalkInv PROVE FastPathsAgree
  <2>1. SUFFICES ASSUME pc = "walk", NEW p \in addr .. Top - 1, ~Contradicted(p)
                 PROVE  /\ p + PageSize < next_blocked_address => ~Wanted(p)
                        /\ next_blocked_address <= p + PageSize /\ p + PageSize < next_allowed_address
                             => Wanted(p)
    BY DEF FastPathsAgree, Contradicted
  <2>2. p \in Int /\ addr <= p
    BY <1>1, SpanFacts DEF WalkInv, TypeOK, Addr
  <2>3. FreshFrom(addr)
    BY <1>1, <2>1 DEF WalkInv, PlaceOK
  <2>4. QED
    BY <2>1, <2>2, <2>3 DEF FreshFrom, FreshFor
<1>2. QED
  BY <1>1, WalkInvHolds, PTL
=============================================================================
