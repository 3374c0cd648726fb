------------------------- MODULE ProgramBreakProofs -------------------------
(***************************************************************************)
(* What restore_brk does, for every page size, address space and set of    *)
(* breaks.  The two properties speak of the restore that would come now,   *)
(* so they follow from the type invariant and from arithmetic: a distance  *)
(* from an aligned address is rounded up as its end is.                    *)
(***************************************************************************)
EXTENDS ProgramBreak, TLAPS

-----------------------------------------------------------------------------
(* Rounding. *)

LEMMA Multiples ==
  ASSUME NEW a \in Int, NEW b \in Int, a * PageSize < b * PageSize
  PROVE  a < b /\ a * PageSize + PageSize <= b * PageSize
<1>1. a < b
  BY BreakAssumption
<1>2. QED
  BY <1>1, BreakAssumption

\* PAGE_ALIGN rounds up to a multiple of the page size, by less than a page.
LEMMA AlignUp ==
  ASSUME NEW x \in Nat
  PROVE  \E k \in Nat : /\ PAGE_ALIGN(x) = k * PageSize
                        /\ x <= k * PageSize /\ k * PageSize < x + PageSize
<1>1. PICK k \in Int : k = (x + PageSize - 1) \div PageSize
  BY BreakAssumption
<1>2. k * PageSize <= x + PageSize - 1 /\ x + PageSize - 1 < k * PageSize + PageSize
  BY <1>1, BreakAssumption
<1>3. k \in Nat
  BY <1>2, BreakAssumption
<1>4. QED
  BY <1>1, <1>2, <1>3, BreakAssumption DEF PAGE_ALIGN

\* The multiple that is less than a page above x is PAGE_ALIGN(x).
LEMMA AlignUnique ==
  ASSUME NEW x \in Nat, NEW k \in Nat, x <= k * PageSize, k * PageSize < x + PageSize
  PROVE  PAGE_ALIGN(x) = k * PageSize
<1>1. (x + PageSize - 1) \div PageSize = k
  BY BreakAssumption
<1>2. QED
  BY <1>1 DEF PAGE_ALIGN

LEMMA AlignedMultiple ==
  ASSUME NEW x \in Nat, Aligned(x)
  PROVE  \E k \in Nat : x = k * PageSize
<1>1. PICK k \in Int : k = x \div PageSize
  BY BreakAssumption
<1>2. x = k * PageSize
  BY <1>1, BreakAssumption DEF Aligned
<1>3. k \in Nat
  BY <1>2, BreakAssumption
<1>4. QED
  BY <1>2, <1>3

LEMMA AlignAligned ==
  ASSUME NEW x \in Nat, Aligned(x)
  PROVE  PAGE_ALIGN(x) = x
<1>1. PICK k \in Nat : x = k * PageSize
  BY AlignedMultiple
<1>2. QED
  BY <1>1, AlignUnique, BreakAssumption

\* What PAGE_ALIGN returns is aligned.
LEMMA AlignIsAligned ==
  ASSUME NEW x \in Nat
  PROVE  PAGE_ALIGN(x) \in Nat /\ Aligned(PAGE_ALIGN(x))
<1>1. PICK k \in Nat : PAGE_ALIGN(x) = k * PageSize
  BY AlignUp
<1>2. k * PageSize \in Nat /\ (k * PageSize) % PageSize = 0
  BY BreakAssumption
<1>3. QED
  BY <1>1, <1>2 DEF Aligned

\* From an aligned address, rounding the length is rounding the end.
LEMMA AlignDistance ==
  ASSUME NEW a \in Nat, NEW b \in Nat, Aligned(a), a <= b
  PROVE  a + PAGE_ALIGN(b - a) = PAGE_ALIGN(b)
<1>1. PICK k \in Nat : a = k * PageSize
  BY AlignedMultiple
<1>2. PICK m \in Nat : /\ PAGE_ALIGN(b - a) = m * PageSize
                       /\ b - a <= m * PageSize /\ m * PageSize < b - a + PageSize
  BY AlignUp
<1>3. k + m \in Nat /\ (k + m) * PageSize = k * PageSize + m * PageSize
  BY BreakAssumption
<1>4. b <= (k + m) * PageSize /\ (k + m) * PageSize < b + PageSize
  BY <1>1, <1>2, <1>3, BreakAssumption
<1>5. PAGE_ALIGN(b) = (k + m) * PageSize
  BY <1>3, <1>4, AlignUnique
<1>6. QED
  BY <1>1, <1>2, <1>3, <1>5, BreakAssumption

\* No page lies between two multiples in the wrong order.
LEMMA SpanEmpty ==
  ASSUME NEW a \in Nat, NEW b \in Nat, Aligned(a), Aligned(b), b <= a
  PROVE  Span(a, b) = {}
<1>1. PICK k \in Nat : a = k * PageSize
  BY AlignedMultiple
<1>2. PICK m \in Nat : b = m * PageSize
  BY AlignedMultiple
<1>3. SUFFICES ASSUME NEW q \in Pages, a < (q + 1) * PageSize, q * PageSize < b PROVE FALSE
  BY DEF Span
<1>4. q \in Int
  BY BreakAssumption DEF Pages
<1>5. k < q + 1 /\ q < m
  BY <1>1, <1>2, <1>3, <1>4, Multiples
<1>6. m * PageSize <= k * PageSize /\ k < m
  BY <1>1, <1>2, <1>4, <1>5
<1>7. QED
  BY <1>6, BreakAssumption

-----------------------------------------------------------------------------
(* What restore_brk does to the mappings. *)

Addresses == 0 .. NPages * PageSize

LEMMA AddressesNat == Addresses \subseteq Nat /\ Pages \subseteq Int /\ PageSize \in Nat
BY BreakAssumption DEF Addresses, Pages

\* What the two calls can do from an aligned address, and from another.
LEMMA Calls ==
  ASSUME NEW a, NEW len, NEW what, NEW c \in Remap(a, len, what)
  PROVE  \/ ~c.ok /\ c.mem = mem
         \/ c.ok /\ Aligned(a) /\ c.mem = Mapping(Span(a, a + PAGE_ALIGN(len)), what)
BY DEF Remap

LEMMA Served ==
  ASSUME NEW a, NEW len, NEW what, Aligned(a)
  PROVE  \E c \in Remap(a, len, what) : c.ok
<1>1. [ok |-> TRUE, mem |-> Mapping(Span(a, a + PAGE_ALIGN(len)), what)] \in Remap(a, len, what)
  BY DEF Remap
<1>2. QED
  BY <1>1

\* The four ways it ends.
LEMMA Outcomes ==
  ASSUME TypeOK, NEW b \in Addresses, NEW r \in restore_brk(b)
  PROVE  \/ r.mem = mem /\ r.ok /\ r.brk = b /\ PAGE_ALIGN(brk) = PAGE_ALIGN(b)
         \/ r = Failure
         \/ /\ b <= brk /\ Aligned(b) /\ r.ok /\ r.brk = b
            /\ r.mem = Mapping(Span(b, PAGE_ALIGN(brk)), "none")
         \/ /\ b > brk /\ Aligned(brk) /\ ~find_vma(brk, b + PageSize) /\ r.ok /\ r.brk = b
            /\ r.mem = Mapping(Span(brk, PAGE_ALIGN(b)), "heap")
<1> brk \in Nat /\ b \in Nat
  BY AddressesNat DEF TypeOK, Addresses
<1>1. CASE PAGE_ALIGN(brk) = PAGE_ALIGN(b)
  BY <1>1 DEF restore_brk, Success
<1>2. CASE PAGE_ALIGN(brk) # PAGE_ALIGN(b) /\ b <= brk
  <2>1. r \in After(vm_munmap(b, brk - b), b)
    BY <1>2 DEF restore_brk
  <2>2. PICK c \in Remap(b, brk - b, "none") : r = IF c.ok THEN Success(b, c.mem) ELSE Failure
    BY <2>1 DEF After, vm_munmap
  <2>3. CASE ~c.ok
    BY <2>2, <2>3
  <2>4. CASE c.ok
    <3>1. Aligned(b) /\ c.mem = Mapping(Span(b, b + PAGE_ALIGN(brk - b)), "none")
      BY <2>4, Calls
    <3>2. b + PAGE_ALIGN(brk - b) = PAGE_ALIGN(brk)
      BY <1>2, <3>1, AlignDistance
    <3>3. QED
      BY <1>2, <2>2, <2>4, <3>1, <3>2 DEF Success
  <2>5. QED
    BY <2>3, <2>4
<1>3. CASE PAGE_ALIGN(brk) # PAGE_ALIGN(b) /\ b > brk /\ find_vma(brk, b + PageSize)
  BY <1>3 DEF restore_brk
<1>4. CASE PAGE_ALIGN(brk) # PAGE_ALIGN(b) /\ b > brk /\ ~find_vma(brk, b + PageSize)
  <2>1. r \in After(vm_brk(brk, b - brk), b)
    BY <1>4 DEF restore_brk
  <2>2. PICK c \in Remap(brk, b - brk, "heap") : r = IF c.ok THEN Success(b, c.mem) ELSE Failure
    BY <2>1 DEF After, vm_brk
  <2>3. CASE ~c.ok
    BY <2>2, <2>3
  <2>4. CASE c.ok
    <3>1. Aligned(brk) /\ c.mem = Mapping(Span(brk, brk + PAGE_ALIGN(b - brk)), "heap")
      BY <2>4, Calls
    <3>2. brk + PAGE_ALIGN(b - brk) = PAGE_ALIGN(b)
      BY <1>4, <3>1, AlignDistance
    <3>3. QED
      BY <1>4, <2>2, <2>4, <3>1, <3>2 DEF Success
  <2>5. QED
    BY <2>3, <2>4
<1>5. QED
  BY <1>1, <1>2, <1>3, <1>4

\* Success is among the outcomes when the address is aligned and the way is free.
LEMMA CanSucceed ==
  ASSUME TypeOK, NEW b \in Addresses, Aligned(brk), Aligned(b),
         b > brk => ~find_vma(brk, b + PageSize)
  PROVE  \E r \in restore_brk(b) : r.ok
<1> brk \in Nat /\ b \in Nat
  BY AddressesNat DEF TypeOK, Addresses
<1>1. CASE PAGE_ALIGN(brk) = PAGE_ALIGN(b)
  BY <1>1 DEF restore_brk, Success
<1>2. CASE PAGE_ALIGN(brk) # PAGE_ALIGN(b) /\ b <= brk
  <2>1. PICK c \in Remap(b, brk - b, "none") : c.ok
    BY Served
  <2>2. Success(b, c.mem) \in After(vm_munmap(b, brk - b), b)
    BY <2>1 DEF After, vm_munmap
  <2>3. QED
    BY <1>2, <2>2 DEF restore_brk, Success
<1>3. CASE PAGE_ALIGN(brk) # PAGE_ALIGN(b) /\ b > brk
  <2>1. PICK c \in Remap(brk, b - brk, "heap") : c.ok
    BY Served
  <2>2. Success(b, c.mem) \in After(vm_brk(brk, b - brk), b)
    BY <2>1 DEF After, vm_brk
  <2>3. QED
    BY <1>3, <2>2 DEF restore_brk, Success
<1>4. QED
  BY <1>1, <1>2, <1>3

LEMMA BreakComesBack == TypeOK => BreakRestored
<1> SUFFICES ASSUME TypeOK, made PROVE BreakRestored
  BY DEF BreakRestored
<1> brk \in Nat /\ oldbrk \in Nat /\ oldbrk \in Addresses
  BY AddressesNat DEF TypeOK, Addresses
<1>1. ASSUME NEW r \in restore_brk(oldbrk)
      PROVE  IF r.ok
             THEN /\ r.brk = oldbrk
                  /\ \A q \in Span(PAGE_ALIGN(oldbrk), PAGE_ALIGN(brk)) : r.mem[q] = "none"
                  /\ \A q \in Span(PAGE_ALIGN(brk), PAGE_ALIGN(oldbrk)) : r.mem[q] = "heap"
             ELSE r.brk = brk /\ r.mem = mem
  <2>0. /\ PAGE_ALIGN(brk) \in Nat /\ Aligned(PAGE_ALIGN(brk))
        /\ PAGE_ALIGN(oldbrk) \in Nat /\ Aligned(PAGE_ALIGN(oldbrk))
    BY AlignIsAligned
  <2>1. CASE r.mem = mem /\ r.ok /\ r.brk = oldbrk /\ PAGE_ALIGN(brk) = PAGE_ALIGN(oldbrk)
    <3>1. Span(PAGE_ALIGN(brk), PAGE_ALIGN(brk)) = {}
      BY <2>0, SpanEmpty
    <3>2. QED
      BY <2>1, <3>1
  <2>2. CASE r = Failure
    BY <2>2 DEF Failure
  <2>3. CASE /\ oldbrk <= brk /\ Aligned(oldbrk) /\ r.ok /\ r.brk = oldbrk
             /\ r.mem = Mapping(Span(oldbrk, PAGE_ALIGN(brk)), "none")
    <3>1. PAGE_ALIGN(oldbrk) = oldbrk /\ oldbrk <= PAGE_ALIGN(brk)
      BY <2>3, AlignAligned, AlignUp, BreakAssumption
    <3>2. Span(PAGE_ALIGN(brk), oldbrk) = {}
      BY <2>0, <2>3, <3>1, SpanEmpty
    <3>3. \A q \in Span(oldbrk, PAGE_ALIGN(brk)) : r.mem[q] = "none"
      BY <2>3 DEF Mapping, Span
    <3>4. QED
      BY <2>3, <3>1, <3>2, <3>3
  <2>4. CASE /\ oldbrk > brk /\ Aligned(brk) /\ r.ok /\ r.brk = oldbrk
             /\ r.mem = Mapping(Span(brk, PAGE_ALIGN(oldbrk)), "heap")
    <3>1. PAGE_ALIGN(brk) = brk /\ brk <= PAGE_ALIGN(oldbrk)
      BY <2>4, AlignAligned, AlignUp, BreakAssumption
    <3>2. Span(PAGE_ALIGN(oldbrk), brk) = {}
      BY <2>0, <2>4, <3>1, SpanEmpty
    <3>3. \A q \in Span(brk, PAGE_ALIGN(oldbrk)) : r.mem[q] = "heap"
      BY <2>4 DEF Mapping, Span
    <3>4. QED
      BY <2>4, <3>1, <3>2, <3>3
  <2>5. QED
    BY <2>1, <2>2, <2>3, <2>4, Outcomes
<1>2. ASSUME Aligned(brk), Aligned(oldbrk), oldbrk > brk => ~InTheWay
      PROVE  \E r \in restore_brk(oldbrk) : r.ok
  <2>1. PAGE_ALIGN(brk) = brk /\ PAGE_ALIGN(oldbrk) = oldbrk
    BY <1>2, AlignAligned
  <2>2. QED
    BY <1>2, <2>1, CanSucceed DEF InTheWay
<1>3. QED
  BY <1>1, <1>2 DEF BreakRestored

LEMMA NeighboursStay == TypeOK => NeighboursKept
<1> SUFFICES ASSUME TypeOK, made, NEW r \in restore_brk(oldbrk), NEW q \in Pages
             PROVE  /\ q \notin Span(PAGE_ALIGN(oldbrk), PAGE_ALIGN(brk))
                          \cup Span(PAGE_ALIGN(brk), PAGE_ALIGN(oldbrk)) => r.mem[q] = mem[q]
                    /\ r.mem[q] = "heap" => mem[q] \in {"heap", "none"}
  BY DEF NeighboursKept
<1> brk \in Nat /\ oldbrk \in Nat /\ oldbrk \in Addresses
  BY AddressesNat DEF TypeOK, Addresses
<1>1. CASE r.mem = mem
  BY <1>1 DEF TypeOK
<1>2. CASE Aligned(oldbrk) /\ r.mem = Mapping(Span(oldbrk, PAGE_ALIGN(brk)), "none")
  <2>1. PAGE_ALIGN(oldbrk) = oldbrk
    BY <1>2, AlignAligned
  <2>2. QED
    BY <1>2, <2>1 DEF Mapping, TypeOK
<1>3. CASE /\ Aligned(brk) /\ ~find_vma(brk, oldbrk + PageSize)
           /\ r.mem = Mapping(Span(brk, PAGE_ALIGN(oldbrk)), "heap")
  <2>1. PAGE_ALIGN(brk) = brk
    BY <1>3, AlignAligned
  <2>2. q \in Span(brk, PAGE_ALIGN(oldbrk)) => mem[q] = "none"
    <3>1. PAGE_ALIGN(oldbrk) \in Nat /\ PAGE_ALIGN(oldbrk) < oldbrk + PageSize
      BY AlignUp, BreakAssumption
    <3>2. q * PageSize \in Int
      BY AddressesNat
    <3>3. q \in Span(brk, PAGE_ALIGN(oldbrk)) => q \in Span(brk, oldbrk + PageSize)
      BY <3>1, <3>2, AddressesNat DEF Span
    <3>4. QED
      BY <1>3, <3>3 DEF find_vma
  <2>3. QED
    BY <1>3, <2>1, <2>2 DEF Mapping, TypeOK
<1>4. QED
  BY <1>1, <1>2, <1>3, Outcomes DEF Failure

-----------------------------------------------------------------------------
\* The restore leaves the state well typed, whichever way it ends.
LEMMA RestoreTyped ==
  ASSUME TypeOK, NEW b \in Addresses, NEW r \in restore_brk(b)
  PROVE  r.brk \in Addresses /\ r.mem \in [Pages -> {"none", "image", "heap", "other"}]
<1>1. \A S, what : what \in {"none", "heap"} =>
                     Mapping(S, what) \in [Pages -> {"none", "image", "heap", "other"}]
  BY DEF TypeOK, Mapping
<1>2. r.mem = mem \/ \E S : r.mem = Mapping(S, "none") \/ r.mem = Mapping(S, "heap")
  BY Outcomes DEF Failure
<1>3. r.brk \in {brk, b}
  BY Outcomes DEF Failure
<1>4. QED
  BY <1>1, <1>2, <1>3 DEF TypeOK, Addresses

LEMMA TypePreserved == TypeOK /\ [Next]_vars => TypeOK'
<1> SUFFICES ASSUME TypeOK, [Next]_vars PROVE TypeOK'
  OBVIOUS
<1>1. CASE UNCHANGED vars
  BY <1>1 DEF TypeOK, vars
<1>2. ASSUME NEW b \in Breaks, sys_brk(b) PROVE TypeOK'
  <2>1. b \in 0 .. NPages * PageSize
    <3>1. (NPages - 1) * PageSize <= NPages * PageSize /\ StartPage * PageSize >= 0
      BY BreakAssumption
    <3>2. b \in StartPage * PageSize .. (NPages - 1) * PageSize
      BY BreakAssumption
    <3>3. NPages * PageSize \in Int /\ (NPages - 1) * PageSize \in Int /\ StartPage * PageSize \in Int
      BY BreakAssumption
    <3>4. QED
      BY <3>1, <3>2, <3>3
  <2>2. mem' \in [Pages -> {"none", "image", "heap", "other"}]
    BY <1>2 DEF sys_brk, TypeOK, Mapping
  <2>3. QED
    BY <1>2, <2>1, <2>2 DEF sys_brk, TypeOK
<1>3. ASSUME NEW q \in Pages, Mmap(q) \/ Munmap(q) PROVE TypeOK'
  BY <1>3 DEF Mmap, Munmap, TypeOK
<1>4. CASE vmrange \/ take_snapshot \/ clean_snapshot
  <2>1. 0 \in 0 .. NPages * PageSize
    BY BreakAssumption
  <2>2. QED
    BY <1>4, <2>1 DEF vmrange, take_snapshot, clean_snapshot, TypeOK
<1>5. CASE recover_snapshot
  <2>1. oldbrk \in Addresses
    BY DEF TypeOK, Addresses
  <2>2. brk' \in Addresses /\ mem' \in [Pages -> {"none", "image", "heap", "other"}]
    BY <1>5, <2>1, RestoreTyped DEF recover_snapshot
  <2>3. QED
    BY <1>5, <2>2 DEF recover_snapshot, TypeOK, Addresses
<1>6. QED
  BY <1>1, <1>2, <1>3, <1>4, <1>5 DEF Next

\* The break stays an address and the mappings mappings, through every restore.
THEOREM BreakTypeCorrect == Spec => []TypeOK
<1>1. Init => TypeOK
  <2>1. start_brk \in 0 .. NPages * PageSize /\ 0 \in 0 .. NPages * PageSize
    BY BreakAssumption DEF start_brk
  <2>2. QED
    BY <2>1 DEF Init, TypeOK
<1>2. TypeOK /\ [Next]_vars => TypeOK'
  BY TypePreserved
<1>3. QED
  BY <1>1, <1>2, PTL DEF Spec

\* The break and the heap of the snapshot come back together or not at all, and a
\* free way between aligned breaks leaves only the kernel to fail, for every page
\* size and address space (memory.c:512-557).
THEOREM BreaksComeBack == Spec => []BreakRestored
BY BreakTypeCorrect, BreakComesBack, PTL

\* No restore of the break, aligned or not, touches a page outside the heap the
\* two breaks differ by or takes one from another mapping (memory.c:528-552).
THEOREM NeighboursAreKept == Spec => []NeighboursKept
BY BreakTypeCorrect, NeighboursStay, PTL
=============================================================================
