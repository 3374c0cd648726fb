----------------------------- MODULE WalkRange -----------------------------
(***************************************************************************)
(* Which pages take_memory_snapshot takes: the walk over the page tables   *)
(* of every mapping, with snapshot_walk_check_range asked at each of the   *)
(* five levels and remembering, in next_allowed_address and                *)
(* next_blocked_address, how far its last answer reaches.  The two are     *)
(* never reset: they are carried from level to level and from mapping to   *)
(* mapping.                                                                *)
(*                                                                         *)
(* Addresses are 0..Top; a page is PageSize of them, so that a range can   *)
(* begin or end inside a page.  The walk is at (level, addr): the entry of *)
(* that level that begins at addr, cut at the end of the mapping.          *)
(***************************************************************************)
EXTENDS Integers, Sequences, FiniteSetsExt

CONSTANTS PageSize,
          Top,         \* the end of the address space
          Span,        \* what an entry of each level covers, pte to pgd
          Layouts,     \* the mappings, as sequences in ascending order
          Ranges,      \* arguments of exclude_vmrange and include_vmrange
          MaxCalls,    \* ranges given before the take
          TableSets    \* the page tables that exist, by first address

Levels == 0 .. 4
PTE == 0
PMD == 1
PUD == 2
PGD == 4
Addr   == 0 .. Top
NoRange == [start |-> Top + 1, end |-> 0]

ASSUME WalkAssumption ==
  /\ PageSize \in Nat \ {0} /\ Top \in Nat /\ MaxCalls \in Nat
  /\ Span \in [Levels -> Nat \ {0}] /\ Span[PTE] = PageSize
  /\ \A l \in Levels \ {PGD} : Span[l + 1] % Span[l] = 0
  /\ Layouts \subseteq Seq([start : Addr, end : Addr, plain : BOOLEAN])
  /\ \A m \in Layouts : \A k \in 1 .. Len(m) :
       /\ m[k].start % PageSize = 0 /\ m[k].end % PageSize = 0 /\ m[k].start < m[k].end
       /\ \A j \in 1 .. k - 1 : m[j].end <= m[k].start
  /\ \A s \in TableSets : s \subseteq Addr
  /\ \A r \in Ranges : r.start \in Addr /\ r.end \in Addr /\ r.start <= r.end

VARIABLES
  mappings, tables,            \* the process
  blocklist, allowlist,        \* the one range each list holds, or NoRange
  excluded, included,          \* history: every range the calls were given
  block,                       \* config & AFL_SNAPSHOT_BLOCK
  next_allowed_address, next_blocked_address,
  pvma,                        \* the mapping the loop is at
  level, addr,                 \* and the entry of its walk
  taken,                       \* the pages make_snapshot_page was called for
  pc

callVars == <<mappings, tables, blocklist, allowlist, excluded, included, block>>
nextVars == <<next_allowed_address, next_blocked_address>>
vars     == <<callVars, nextVars, pvma, level, addr, taken, pc>>

Init ==
  /\ mappings \in Layouts
  /\ tables \in TableSets
  /\ blocklist = NoRange /\ allowlist = NoRange
  /\ excluded = {} /\ included = {}
  /\ block = FALSE
  /\ next_allowed_address = 0 /\ next_blocked_address = 0
  /\ pvma = 0 /\ level = PGD /\ addr = 0
  /\ taken = {}
  /\ pc = "user"

-----------------------------------------------------------------------------
(* The calls before the snapshot. *)

MayCall == pc = "user" /\ Cardinality(excluded) + Cardinality(included) < MaxCalls

\* list_add with its arguments swapped makes the new range the only one.  A call
\* that gets no memory for its vmrange changes nothing.
exclude_vmrange(r) ==
  /\ MayCall
  /\ blocklist' = r
  /\ excluded' = excluded \cup {r}
  /\ UNCHANGED <<mappings, tables, allowlist, included, block, nextVars, pvma, level, addr, taken, pc>>

include_vmrange(r) ==
  /\ MayCall
  /\ allowlist' = r
  /\ included' = included \cup {r}
  /\ UNCHANGED <<mappings, tables, blocklist, excluded, block, nextVars, pvma, level, addr, taken, pc>>

\* take_memory_snapshot begins, with a zeroed walk_data.
take_memory_snapshot(b) ==
  /\ pc = "user"
  /\ block' = b
  /\ pvma' = 1
  /\ pc' = "vma"
  /\ UNCHANGED <<mappings, tables, blocklist, allowlist, excluded, included, nextVars, level, addr, taken>>

-----------------------------------------------------------------------------
(* The walk. *)

\* intersect_blocklist, intersect_allowlist.
Intersects(r, s, e) == e > r.start /\ s < r.end
Within(r, s, e)     == r.start <= s /\ r.end >= e

\* The mapping is walked: it meets the allowlist, or the defaults take it.
Walked(m) ==
  \/ Intersects(allowlist, m.start, m.end)
  \/ m.plain /\ ~block

\* Mutant: the fast paths look at where an entry begins.
check_range_begins(s, e) ==
  LET Reply(a, allowed, blocked) == [action |-> a, allowed |-> allowed, blocked |-> blocked]
      na == next_allowed_address
      nb == next_blocked_address
  IN  CASE s < nb -> Reply("CONTINUE", na, nb)
        [] s >= nb /\ s < na -> Reply("SUBTREE", na, nb)
        [] OTHER ->
             IF Intersects(blocklist, s, e) /\ Within(blocklist, s, e)
             THEN Reply("CONTINUE", na, blocklist.end)
             ELSE IF Intersects(allowlist, s, e)
             THEN Reply("SUBTREE", IF Within(allowlist, s, e) THEN allowlist.end ELSE na, nb)
             ELSE IF block THEN Reply("CONTINUE", na, e)
             ELSE Reply("SUBTREE", IF Intersects(blocklist, s, e) THEN na ELSE e, nb)

\* Mutant: an entry that meets the blocklist is remembered as allowed too.
check_range_unguarded(s, e) ==
  LET Reply(a, allowed, blocked) == [action |-> a, allowed |-> allowed, blocked |-> blocked]
      na == next_allowed_address
      nb == next_blocked_address
  IN  CASE e < nb -> Reply("CONTINUE", na, nb)
        [] e >= nb /\ e < na -> Reply("SUBTREE", na, nb)
        [] OTHER ->
             IF Intersects(blocklist, s, e) /\ Within(blocklist, s, e)
             THEN Reply("CONTINUE", na, blocklist.end)
             ELSE IF Intersects(allowlist, s, e)
             THEN Reply("SUBTREE", IF Within(allowlist, s, e) THEN allowlist.end ELSE na, nb)
             ELSE IF block THEN Reply("CONTINUE", na, e)
             ELSE Reply("SUBTREE", e, nb)

\* snapshot_walk_check_range: its answer for [s, e) and the two addresses after it.
snapshot_walk_check_range(s, e) ==
  LET Reply(a, allowed, blocked) == [action |-> a, allowed |-> allowed, blocked |-> blocked]
      na == next_allowed_address
      nb == next_blocked_address
  IN  CASE e < nb -> Reply("CONTINUE", na, nb)
        [] e >= nb /\ e < na -> Reply("SUBTREE", na, nb)
        [] OTHER ->
             IF Intersects(blocklist, s, e) /\ Within(blocklist, s, e)
             THEN Reply("CONTINUE", na, blocklist.end)
             ELSE IF Intersects(allowlist, s, e)
             THEN Reply("SUBTREE", IF Within(allowlist, s, e) THEN allowlist.end ELSE na, nb)
             ELSE IF block THEN Reply("CONTINUE", na, e)
             ELSE Reply("SUBTREE", IF Intersects(blocklist, s, e) THEN na ELSE e, nb)

\* Mutant: the end of the mapping is not respected.
NextAddr_uncut == (addr \div Span[level] + 1) * Span[level]

\* The end of the entry the walk is at.
NextAddr ==
  LET bound == (addr \div Span[level] + 1) * Span[level]
  IN  IF bound < mappings[pvma].end THEN bound ELSE mappings[pvma].end

Answer == snapshot_walk_check_range(addr, NextAddr)

\* An entry is there if a page table below it is; a pte always is.
Present ==
  level = PTE \/ \E a \in tables : a \div Span[level] = addr \div Span[level]

AtEntry(ls) == pc = "walk" /\ level \in ls /\ Present

Remember ==
  /\ next_allowed_address' = Answer.allowed
  /\ next_blocked_address' = Answer.blocked

\* The walk goes on behind the entry, at the highest level that has an entry there.
Advance ==
  IF NextAddr = mappings[pvma].end
  THEN pvma' = pvma + 1 /\ pc' = "vma" /\ addr' = 0 /\ level' = PGD
  ELSE /\ addr' = NextAddr
       /\ level' = Max({l \in Levels : l = level \/ (l > level /\ NextAddr % Span[l] = 0)})
       /\ UNCHANGED <<pvma, pc>>

Descend == level' = level - 1 /\ UNCHANGED <<addr, pvma, pc>>

\* The loop over the mappings.
next_vma ==
  /\ pc = "vma"
  /\ IF pvma > Len(mappings) THEN pc' = "done" /\ UNCHANGED <<pvma, addr, level>>
     ELSE IF Walked(mappings[pvma])
     THEN pc' = "walk" /\ addr' = mappings[pvma].start /\ level' = PGD /\ UNCHANGED pvma
     ELSE pvma' = pvma + 1 /\ UNCHANGED <<pc, addr, level>>
  /\ UNCHANGED <<callVars, nextVars, taken>>

\* add_snapshot_vma gets no memory: -ENOMEM ends the loop.
next_vma_fails ==
  /\ pc = "vma" /\ pvma <= Len(mappings)
  /\ pc' = "error"
  /\ UNCHANGED <<callVars, nextVars, pvma, level, addr, taken>>

\* No table below this entry: the kernel calls nobody.
hole ==
  /\ pc = "walk" /\ ~Present
  /\ Advance
  /\ UNCHANGED <<callVars, nextVars, taken>>

\* snapshot_pgd_entry and snapshot_p4d_entry drop the answer.
pgd_p4d_entry ==
  /\ AtEntry(Levels \ {PTE, PMD, PUD})
  /\ Remember
  /\ Descend
  /\ UNCHANGED <<callVars, taken>>

\* Mutant: ACTION_AGAIN where ACTION_CONTINUE is meant.
pud_pmd_entry_again ==
  /\ AtEntry({PMD, PUD})
  /\ Remember
  /\ IF Answer.action = "CONTINUE" THEN UNCHANGED <<level, addr, pvma, pc>> ELSE Descend
  /\ UNCHANGED <<callVars, taken>>

\* snapshot_pud_entry and snapshot_pmd_entry make it the walk's action.
pud_pmd_entry ==
  /\ AtEntry({PMD, PUD})
  /\ Remember
  /\ IF Answer.action = "CONTINUE" THEN Advance ELSE Descend
  /\ UNCHANGED <<callVars, taken>>

snapshot_pte_entry ==
  /\ AtEntry({PTE})
  /\ Remember
  /\ Advance
  /\ taken' = IF Answer.action = "CONTINUE" THEN taken ELSE taken \cup {addr}
  /\ UNCHANGED callVars

\* make_snapshot_page gets no memory: -ENOMEM ends the walk and the loop.
pte_entry_fails ==
  /\ AtEntry({PTE}) /\ Answer.action # "CONTINUE"
  /\ Remember
  /\ pc' = "error"
  /\ UNCHANGED <<callVars, pvma, level, addr, taken>>

Walk ==
  \/ next_vma \/ next_vma_fails \/ hole
  \/ pgd_p4d_entry \/ pud_pmd_entry \/ snapshot_pte_entry \/ pte_entry_fails

Next ==
  \/ \E r \in Ranges : exclude_vmrange(r) \/ include_vmrange(r)
  \/ \E b \in BOOLEAN : take_memory_snapshot(b)
  \/ Walk

Spec == Init /\ [][Next]_vars /\ WF_vars(Walk)

-----------------------------------------------------------------------------
\* The walk stays inside its mapping, at entries that begin where its level's do
\* (memory.c:499).
TypeOK ==
  /\ mappings \in Layouts /\ tables \in TableSets
  /\ {blocklist, allowlist} \subseteq Ranges \cup {NoRange}
  /\ excluded \subseteq Ranges /\ included \subseteq Ranges
  /\ block \in BOOLEAN
  /\ next_allowed_address \in Addr /\ next_blocked_address \in Addr
  /\ pvma \in 0 .. Len(mappings) + 1
  /\ level \in Levels /\ addr \in Addr /\ taken \subseteq Addr
  /\ pc \in {"user", "vma", "walk", "done", "error"}
  /\ pc = "walk" => /\ mappings[pvma].start <= addr /\ addr < mappings[pvma].end
                    /\ addr = mappings[pvma].start \/ addr % Span[level] = 0

\* The pages behind the walk that have a page table: those of mapping k, and those
\* of the mappings it walked.
Behind(k) ==
  {p \in mappings[k].start .. mappings[k].end - 1 :
     /\ p % PageSize = 0
     /\ \E a \in tables : a \div Span[PMD] = p \div Span[PMD]
     /\ k < pvma \/ (k = pvma /\ pc \in {"walk", "error"} /\ p < addr)}

Visited ==
  {p \in 0 .. Top - 1 :
     /\ p % PageSize = 0
     /\ \E a \in tables : a \div Span[PMD] = p \div Span[PMD]
     /\ \E k \in 1 .. Len(mappings) :
          /\ mappings[k].start <= p /\ p < mappings[k].end
          /\ Walked(mappings[k])
          /\ k < pvma \/ (k = pvma /\ pc \in {"walk", "error"} /\ p < addr)}

\* What the caller said of a page: asked in by a range that has a part of it, asked
\* out by a range that has all of it.  Without a word a page is taken if it is
\* writable, private, not the stack left out, and not AFL_SNAPSHOT_BLOCK's.
AskedOut(p) == \E r \in excluded : Within(r, p, p + PageSize)
AskedIn(p)  == \E r \in included : Intersects(r, p, p + PageSize)
CallerWants(p, m) == AskedIn(p) \/ (~AskedOut(p) /\ m.plain /\ ~block)

AtMostOne(ranges) == \A r, q \in ranges : r = q

\* A page nobody asked for in a mapping that is walked only for another page of it.
Sibling(p, m) ==
  /\ ~m.plain /\ ~block /\ ~AskedIn(p)
  /\ \E r \in included : Intersects(r, m.start, m.end)

\* Whatever the levels answered and the two addresses carried over, and whether
\* its mapping is walked or skipped, a page is taken exactly if the caller wants
\* it; after -ENOMEM, the pages before the one that failed (memory.c:330-428,
\* 469-507).  Left out: several ranges in one list and siblings, on which the code
\* does not do what RangesHonoured says, and a page that is asked both in and out.
DecisionsRight ==
  /\ taken \subseteq Visited
  /\ AtMostOne(excluded) /\ AtMostOne(included) =>
       \A k \in 1 .. Len(mappings) : \A p \in Behind(k) :
         ~(AskedOut(p) /\ AskedIn(p)) /\ ~Sibling(p, mappings[k]) =>
           (p \in taken <=> CallerWants(p, mappings[k]))

\* The same without the exceptions: every call adds a range (README.md:58-66), and of
\* a shared mapping only what was included is taken ("shm_addr[1] is excluded by
\* default", test1.c:78).
RangesHonoured ==
  \A k \in 1 .. Len(mappings) : \A p \in Behind(k) :
    ~(AskedOut(p) /\ AskedIn(p)) => (p \in taken <=> CallerWants(p, mappings[k]))

\* What the two lists say of a page: one that lies in an excluded range and meets
\* no included one is left out, any part of an included range brings a page in,
\* and the rest is up to AFL_SNAPSHOT_BLOCK.
Excluded(p) == Within(blocklist, p, p + PageSize)
Included(p) == Intersects(allowlist, p, p + PageSize)
Wanted(p)   == Included(p) \/ (~Excluded(p) /\ ~block)

\* Where the fast path says blocked, the slow path would not take the page; where
\* it says allowed, the slow path would, if the lists do not contradict each
\* other there: the two addresses are never stale (memory.c:339-345).
FastPathsAgree ==
  pc = "walk" =>
    \A p \in addr .. Top - 1 :
      p % PageSize = 0 /\ ~(Excluded(p) /\ Included(p)) =>
        /\ p + PageSize < next_blocked_address => ~Wanted(p)
        /\ next_blocked_address <= p + PageSize /\ p + PageSize < next_allowed_address => Wanted(p)

\* A take ends, with every mapping walked or with -ENOMEM (memory.c:469-507).
WalkEnds == pc = "walk" ~> pc \in {"done", "error"}
=============================================================================
