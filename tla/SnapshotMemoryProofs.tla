------------------------ MODULE SnapshotMemoryProofs ------------------------
(***************************************************************************)
(* TypeOK and Inv are inductive for SnapshotMemory, whatever the pages,    *)
(* the mappings, the ranges and the configs; the safety properties follow. *)
(*                                                                         *)
(* The first part is about the page operations of SnapshotPage: field by   *)
(* field what an operation leaves in the page, and from that, that it      *)
(* keeps KernelOK, StructOK, FrameOK and SavedOK.  The second is about the *)
(* actions.                                                                *)
(***************************************************************************)
EXTENDS SnapshotMemory, TLAPS

-----------------------------------------------------------------------------
(* The page operations. *)

\* The fields do_wp_page and the hooks leave alone.
SameContent(r, g) == r.mem = g.mem /\ r.hashed = g.hashed /\ r.page_prot = g.page_prot
SameStruct(r, g) ==
  /\ r.hashed = g.hashed /\ r.page_prot = g.page_prot /\ r.page_data = g.page_data
  /\ r.has_been_copied = g.has_been_copied /\ r.dirty = g.dirty
  /\ r.in_dirty_list = g.in_dirty_list /\ r.listed = g.listed

\* What a mapping starts with is page contents.
LEMMA BackingType == \A k : Backing(k) \in Data
BY ValuesAssumption DEF Backing, Data

\* Write protecting a page changes its entry and nothing else.
LEMMA wrprotect_Fields ==
  ASSUME NEW g \in PageState, NEW r, r = wrprotect(g)
  PROVE  /\ r \in PageState
         /\ SameStruct(r, g) /\ r.has_had_pte = g.has_had_pte
         /\ r.mem = g.mem /\ r.anon = g.anon
         /\ r.pte = IF g.pte = "none" THEN "none" ELSE "ro"
BY DEF wrprotect, PageState, SameStruct

\* add_snapshot_page resets the struct and leaves the page as it is
\* (memory.c:251-278).
LEMMA add_snapshot_page_Fields ==
  ASSUME NEW g \in PageState, NEW r, r = add_snapshot_page(g)
  PROVE  /\ r \in PageState
         /\ r.pte = g.pte /\ r.anon = g.anon /\ r.mem = g.mem
         /\ r.hashed /\ r.page_prot = {} /\ r.page_data = g.page_data
         /\ ~r.has_been_copied /\ r.has_had_pte = g.has_had_pte
         /\ ~r.dirty /\ ~r.in_dirty_list /\ r.listed = g.listed
BY DEF add_snapshot_page, PageState

\* make_snapshot_page classifies the page by its entry and write protects it
\* (memory.c:280-322).
LEMMA make_snapshot_page_Fields ==
  ASSUME NEW g \in PageState, NEW r, r = make_snapshot_page(g)
  PROVE  /\ r \in PageState
         /\ r.anon = g.anon /\ r.mem = g.mem
         /\ r.pte = IF g.pte = "none" THEN "none" ELSE "ro"
         /\ r.hashed /\ r.page_data = g.page_data
         /\ r.page_prot = IF g.pte = "none" THEN {"NONE_PTE"}
                          ELSE IF g.pte = "rw" THEN {"PRIVATE"} ELSE {"COW"}
         /\ ~r.has_been_copied /\ ~r.dirty /\ ~r.in_dirty_list /\ r.listed = g.listed
<1> DEFINE s == add_snapshot_page(g)
           w == wrprotect(s)
<1>1. /\ s \in PageState
      /\ s.pte = g.pte /\ s.anon = g.anon /\ s.mem = g.mem
      /\ s.hashed /\ s.page_data = g.page_data
      /\ ~s.has_been_copied /\ ~s.dirty /\ ~s.in_dirty_list /\ s.listed = g.listed
  BY add_snapshot_page_Fields
<1> HIDE DEF s
<1>2. /\ w \in PageState
      /\ w.pte = (IF g.pte = "none" THEN "none" ELSE "ro")
      /\ w.anon = g.anon /\ w.mem = g.mem
      /\ w.hashed /\ w.page_data = g.page_data
      /\ ~w.has_been_copied /\ ~w.dirty /\ ~w.in_dirty_list /\ w.listed = g.listed
  BY <1>1, wrprotect_Fields DEF SameStruct
<1> HIDE DEF w
<1> DEFINE b == g.pte # "none"
           t == CASE g.pte = "none" -> {"NONE_PTE"}
                  [] g.pte = "rw"   -> {"PRIVATE"}
                  [] OTHER          -> {"COW"}
<1>3. r = [w EXCEPT !.has_had_pte = b, !.page_prot = t]
  BY DEF make_snapshot_page, w, s
<1>4. t = IF g.pte = "none" THEN {"NONE_PTE"}
          ELSE IF g.pte = "rw" THEN {"PRIVATE"} ELSE {"COW"}
  OBVIOUS
<1>5. t \in SUBSET Prot
  BY <1>4 DEF Prot
<1>6. b \in BOOLEAN
  OBVIOUS
<1> HIDE DEF t, b
<1>7. /\ r \in PageState
      /\ r.anon = w.anon /\ r.mem = w.mem /\ r.pte = w.pte
      /\ r.hashed = w.hashed /\ r.page_data = w.page_data /\ r.page_prot = t
      /\ r.has_been_copied = w.has_been_copied /\ r.dirty = w.dirty
      /\ r.in_dirty_list = w.in_dirty_list /\ r.listed = w.listed
  BY <1>2, <1>3, <1>5, <1>6 DEF PageState
<1> QED BY <1>2, <1>4, <1>7

\* Queueing a page changes nothing but the two list fields (memory.c:790-797).
LEMMA enqueue_dirty_Fields ==
  ASSUME NEW g \in PageState, NEW r, r = enqueue_dirty(g)
  PROVE  /\ r \in PageState
         /\ r.pte = g.pte /\ r.anon = g.anon /\ r.mem = g.mem
         /\ r.hashed = g.hashed /\ r.page_prot = g.page_prot /\ r.page_data = g.page_data
         /\ r.has_been_copied = g.has_been_copied /\ r.has_had_pte = g.has_had_pte
         /\ r.dirty = g.dirty /\ r.in_dirty_list /\ r.listed = (g.listed \/ ~g.in_dirty_list)
BY DEF enqueue_dirty, PageState

\* record_dirty_page marks a page it knows and queues it, and copies it the first
\* time; it never touches the page table entry or the bytes.
LEMMA record_dirty_page_Fields ==
  ASSUME NEW g \in PageState, NEW c \in Context, NEW r, r = record_dirty_page(g, c)
  PROVE  /\ r \in PageState
         /\ r.pte = g.pte /\ r.anon = g.anon /\ r.has_had_pte = g.has_had_pte
         /\ SameContent(r, g)
         /\ ~Recordable(g) => r = g
         /\ Recordable(g) =>
              /\ r.dirty /\ r.in_dirty_list /\ r.listed = (g.listed \/ ~g.in_dirty_list)
              /\ r.has_been_copied = (g.has_been_copied \/ c.alloc)
              /\ g.has_been_copied \/ ~c.alloc => r.page_data = g.page_data
              /\ ~g.has_been_copied /\ c.alloc /\ g.pte # "none" => r.page_data = g.mem
<1>1. CASE ~Recordable(g)
  BY <1>1 DEF record_dirty_page, SameContent
<1>2. CASE Recordable(g)
  <2> DEFINE q == enqueue_dirty(g)
             d == [q EXCEPT !.dirty = TRUE]
  <2>1. /\ q \in PageState
        /\ q.pte = g.pte /\ q.anon = g.anon /\ q.mem = g.mem
        /\ q.hashed = g.hashed /\ q.page_prot = g.page_prot /\ q.page_data = g.page_data
        /\ q.has_been_copied = g.has_been_copied /\ q.has_had_pte = g.has_had_pte
        /\ q.in_dirty_list /\ q.listed = (g.listed \/ ~g.in_dirty_list)
    BY enqueue_dirty_Fields
  <2> HIDE DEF q
  <2>2. /\ d \in PageState
        /\ d.pte = g.pte /\ d.anon = g.anon /\ d.mem = g.mem
        /\ d.hashed = g.hashed /\ d.page_prot = g.page_prot /\ d.page_data = g.page_data
        /\ d.has_been_copied = g.has_been_copied /\ d.has_had_pte = g.has_had_pte
        /\ d.dirty /\ d.in_dirty_list /\ d.listed = (g.listed \/ ~g.in_dirty_list)
    BY <2>1 DEF PageState
  <2> HIDE DEF d
  <2>3. r = IF g.has_been_copied \/ ~c.alloc THEN d
            ELSE [d EXCEPT !.page_data = IF g.pte = "none" THEN Junk ELSE g.mem,
                           !.has_been_copied = TRUE]
    BY <1>2 DEF record_dirty_page, d, q
  <2>4. CASE g.has_been_copied \/ ~c.alloc
    BY <1>2, <2>2, <2>3, <2>4 DEF SameContent, PageState, Context
  <2>5. CASE ~(g.has_been_copied \/ ~c.alloc)
    <3> DEFINE x == IF g.pte = "none" THEN Junk ELSE g.mem
    <3>1. x \in Data
      BY DEF PageState, Data
    <3>2. g.pte # "none" => x = g.mem
      OBVIOUS
    <3>3. r = [d EXCEPT !.page_data = x, !.has_been_copied = TRUE]
      BY <2>3, <2>5
    <3> HIDE DEF x
    <3>4. /\ r \in PageState
          /\ r.pte = d.pte /\ r.anon = d.anon /\ r.mem = d.mem
          /\ r.hashed = d.hashed /\ r.page_prot = d.page_prot /\ r.page_data = x
          /\ r.has_been_copied /\ r.has_had_pte = d.has_had_pte
          /\ r.dirty = d.dirty /\ r.in_dirty_list = d.in_dirty_list /\ r.listed = d.listed
      BY <2>2, <3>1, <3>3 DEF PageState
    <3> QED BY <1>2, <2>2, <2>5, <3>2, <3>4 DEF SameContent
  <2> QED BY <2>4, <2>5
<1> QED BY <1>1, <1>2

\* The kernel installs a writable entry, of the same page or of a new anonymous one.
LEMMA set_pte_Fields ==
  ASSUME NEW g \in PageState, NEW r,
         r = [g EXCEPT !.pte = "rw"] \/ r = [g EXCEPT !.pte = "rw", !.anon = TRUE]
  PROVE  /\ r \in PageState
         /\ r.pte = "rw" /\ r.mem = g.mem /\ r.has_had_pte = g.has_had_pte
         /\ SameStruct(r, g)
         /\ r = [g EXCEPT !.pte = "rw"] => r.anon = g.anon
         /\ r = [g EXCEPT !.pte = "rw", !.anon = TRUE] => r.anon
BY DEF PageState, SameStruct

\* What is said of a struct depends on the struct's fields only.
LEMMA SameStructOK ==
  ASSUME NEW g, NEW r, SameStruct(r, g)
  PROVE  /\ StructOK(g) => StructOK(r)
         /\ Copied(r) <=> Copied(g)
         /\ NonePte(r) <=> NonePte(g)
         /\ IsPrivate(r) <=> IsPrivate(g)
         /\ Recordable(r) <=> Recordable(g)
BY DEF SameStruct, StructOK, NonePte, Copied, IsPrivate, Recordable

\* page_add_new_anon_rmap_hook leaves a page with a copy alone, and queues any
\* other page it knows or is_snapshotted_address answers yes for.
LEMMA page_add_new_anon_rmap_hook_Fields ==
  ASSUME NEW g \in PageState, NEW c \in Context, StructOK(g),
         NEW r, r = page_add_new_anon_rmap_hook(g, c)
  PROVE  /\ r \in PageState
         /\ r.pte = g.pte /\ r.anon = g.anon /\ r.mem = g.mem
         /\ StructOK(r)
         /\ Copied(r) <=> Copied(g)
         /\ Copied(g) => SameStruct(r, g)
         /\ r.hashed => g.hashed \/ (c.have /\ c.tracked)
         /\ g.listed /\ g.has_had_pte => r.listed /\ r.has_had_pte
         /\ ~Copied(g) /\ c.have /\ (g.hashed \/ c.tracked) => r.listed /\ r.has_had_pte
<1>1. CASE ~c.have \/ (~g.hashed /\ ~c.tracked)
  BY <1>1 DEF page_add_new_anon_rmap_hook, SameStruct
<1>2. CASE c.have /\ (g.hashed \/ c.tracked)
  <2> DEFINE a == add_snapshot_page(g)
             s == IF g.hashed THEN g ELSE [a EXCEPT !.page_prot = {"NONE_PTE"}]
             h == [s EXCEPT !.has_had_pte = TRUE]
             e == enqueue_dirty(h)
  <2>1. /\ s \in PageState
        /\ s.pte = g.pte /\ s.anon = g.anon /\ s.mem = g.mem /\ s.hashed
        /\ g.hashed => s = g
        /\ ~g.hashed => /\ s.page_prot = {"NONE_PTE"} /\ ~s.in_dirty_list /\ ~s.dirty
                        /\ ~s.has_been_copied
    <3>1. CASE g.hashed
      BY <3>1
    <3>2. CASE ~g.hashed
      <4>1. /\ a \in PageState
            /\ a.pte = g.pte /\ a.anon = g.anon /\ a.mem = g.mem /\ a.hashed
            /\ ~a.in_dirty_list /\ ~a.dirty /\ ~a.has_been_copied
        BY add_snapshot_page_Fields
      <4> HIDE DEF a
      <4>2. s = [a EXCEPT !.page_prot = {"NONE_PTE"}]
        BY <3>2
      <4>3. {"NONE_PTE"} \in SUBSET Prot
        BY DEF Prot
      <4> QED BY <3>2, <4>1, <4>2, <4>3 DEF PageState
    <3> QED BY <3>1, <3>2
  <2>2. r = IF NonePte(s) THEN e ELSE h
    BY <1>2 DEF page_add_new_anon_rmap_hook
  <2> HIDE DEF s
  <2>3. /\ h \in PageState
        /\ h.pte = s.pte /\ h.anon = s.anon /\ h.mem = s.mem
        /\ SameStruct(h, s) /\ h.has_had_pte
    BY <2>1 DEF PageState, SameStruct
  <2> HIDE DEF h
  <2>4. /\ e \in PageState
        /\ e.pte = h.pte /\ e.anon = h.anon /\ e.mem = h.mem
        /\ e.hashed = h.hashed /\ e.page_prot = h.page_prot
        /\ e.has_been_copied = h.has_been_copied /\ e.has_had_pte = h.has_had_pte
        /\ e.dirty = h.dirty /\ e.in_dirty_list /\ e.listed = (h.listed \/ ~h.in_dirty_list)
    BY <2>3, enqueue_dirty_Fields
  <2> HIDE DEF e
  <2>5. CASE Copied(g)
    <3>1. s = g /\ ~NonePte(s)
      BY <2>1, <2>5 DEF Copied
    <3>2. r = h
      BY <2>2, <3>1
    <3>3. SameStruct(r, g)
      BY <2>3, <3>1, <3>2
    <3>4. StructOK(r) /\ (Copied(r) <=> Copied(g))
      BY <3>3, SameStructOK
    <3>5. r.listed = g.listed /\ r.hashed = g.hashed
      BY <3>3 DEF SameStruct
    <3> QED BY <1>2, <2>1, <2>3, <2>5, <3>1, <3>2, <3>3, <3>4, <3>5 DEF Copied
  <2>6. CASE ~Copied(g)
    <3>1. NonePte(s) /\ s.page_prot = {"NONE_PTE"} /\ ~s.dirty /\ ~s.has_been_copied
      BY <2>1, <2>6 DEF Copied, NonePte, StructOK
    <3>2. r = e
      BY <2>2, <3>1
    <3>3. /\ r.hashed /\ r.page_prot = {"NONE_PTE"} /\ ~r.dirty /\ ~r.has_been_copied
          /\ r.in_dirty_list /\ r.has_had_pte
      BY <2>1, <2>3, <2>4, <3>1, <3>2 DEF SameStruct
    <3>4. r.listed
      <4>1. s.listed \/ ~s.in_dirty_list
        BY <2>1 DEF StructOK, PageState
      <4> QED BY <2>3, <2>4, <3>2, <4>1 DEF SameStruct
    <3>5. StructOK(r) /\ ~Copied(r)
      <4>1. r \in PageState
        BY <2>4, <3>2
      <4>2. r.in_dirty_list = r.listed
        BY <3>3, <3>4, <4>1 DEF PageState
      <4>3. NonePte(r)
        BY <3>3 DEF NonePte
      <4> QED BY <3>3, <4>2, <4>3 DEF StructOK, Copied
    <3> QED BY <1>2, <2>1, <2>3, <2>4, <2>6, <3>2, <3>3, <3>4, <3>5
  <2> QED BY <2>5, <2>6
<1> QED BY <1>1, <1>2

\* What holds after any write fault, whichever path it took.
Faulted(r, g, c) ==
  /\ r \in PageState /\ r.pte = "rw" /\ StructOK(r)
  /\ Copied(r) <=> Copied(g)
  /\ r.hashed => g.hashed \/ (c.have /\ c.tracked)
  /\ Copied(g) => r.page_prot = g.page_prot
  /\ Copied(g) /\ ~(g.pte = "ro" /\ c.have /\ ~g.dirty) => SameStruct(r, g)
  /\ Copied(g) /\ g.pte = "ro" /\ c.have /\ ~g.dirty =>
       /\ r.dirty /\ r.listed
       /\ r.has_been_copied = (g.has_been_copied \/ c.alloc)
       /\ r.has_been_copied =>
            r.page_data = IF g.has_been_copied THEN g.page_data ELSE g.mem
  /\ g.listed /\ g.has_had_pte => r.listed /\ r.has_had_pte
  /\ ~Copied(g) /\ c.have /\ (g.hashed \/ c.tracked) /\ c.kind # "shared" =>
       (r.listed /\ r.has_had_pte) \/ g.anon \/ g.pte = "rw"
  /\ c.kind # "shared" =>
       \/ r.anon
       \/ /\ r.anon = g.anon
          /\ g.pte = "rw" \/ (Copied(g) /\ ~g.dirty /\ IsPrivate(g))

\* The kernel's own fault paths.
LEMMA do_wp_page_Fields ==
  ASSUME NEW g \in PageState, NEW c \in Context, StructOK(g),
         NEW r, r = do_wp_page(g, c) \/ r = first_touch(g, c)
  PROVE  /\ r \in PageState /\ r.pte = "rw" /\ r.mem = g.mem /\ StructOK(r)
         /\ Copied(r) <=> Copied(g)
         /\ Copied(g) => SameStruct(r, g)
         /\ r.hashed => g.hashed \/ (c.have /\ c.tracked)
         /\ g.listed /\ g.has_had_pte => r.listed /\ r.has_had_pte
         /\ c.kind # "shared" => r.anon
         /\ ~Copied(g) /\ c.have /\ (g.hashed \/ c.tracked) /\ c.kind # "shared" =>
              (r.listed /\ r.has_had_pte) \/ g.anon
<1> DEFINE k == [g EXCEPT !.pte = "rw"]
           n == [g EXCEPT !.pte = "rw", !.anon = TRUE]
<1>1. /\ k \in PageState /\ k.pte = "rw" /\ k.mem = g.mem /\ k.has_had_pte = g.has_had_pte
      /\ SameStruct(k, g) /\ k.anon = g.anon
  BY set_pte_Fields
<1>2. /\ n \in PageState /\ n.pte = "rw" /\ n.mem = g.mem /\ n.has_had_pte = g.has_had_pte
      /\ SameStruct(n, g) /\ n.anon
  BY set_pte_Fields
<1>3. \/ r = k /\ (c.kind = "shared" \/ g.anon)
      \/ r = page_add_new_anon_rmap_hook(n, c)
  BY DEF do_wp_page, first_touch
<1> HIDE DEF k, n
<1>4. CASE r = k /\ (c.kind = "shared" \/ g.anon)
  BY <1>1, <1>4, SameStructOK DEF SameStruct
<1>5. CASE r = page_add_new_anon_rmap_hook(n, c)
  <2>1. StructOK(n) /\ (Copied(n) <=> Copied(g))
    BY <1>2, SameStructOK
  <2>2. /\ r \in PageState
        /\ r.pte = n.pte /\ r.anon = n.anon /\ r.mem = n.mem
        /\ StructOK(r)
        /\ Copied(r) <=> Copied(n)
        /\ Copied(n) => SameStruct(r, n)
        /\ r.hashed => n.hashed \/ (c.have /\ c.tracked)
        /\ n.listed /\ n.has_had_pte => r.listed /\ r.has_had_pte
        /\ ~Copied(n) /\ c.have /\ (n.hashed \/ c.tracked) => r.listed /\ r.has_had_pte
    BY <1>2, <1>5, <2>1, page_add_new_anon_rmap_hook_Fields
  <2> QED BY <1>2, <2>1, <2>2 DEF SameStruct
<1> QED BY <1>3, <1>4, <1>5

\* A write fault on a protected page: the hook and the kernel behind it make the
\* page writable, recorded and with its old bytes (memory.c:843-877).
LEMMA do_wp_page_hook_Faulted ==
  ASSUME NEW g \in PageState, NEW c \in Context, StructOK(g), g.pte = "ro",
         NEW r, r = do_wp_page_hook(g, c)
  PROVE  Faulted(r, g, c) /\ r.mem = g.mem
<1> DEFINE d == IF c.have THEN record_dirty_page(g, c) ELSE g
           k == [d EXCEPT !.pte = "rw"]
<1>1. /\ d \in PageState /\ d.mem = g.mem /\ d.anon = g.anon /\ d.pte = "ro"
      /\ d.hashed = g.hashed /\ d.page_prot = g.page_prot /\ d.has_had_pte = g.has_had_pte
      /\ ~(c.have /\ Recordable(g)) => d = g
      /\ c.have /\ Recordable(g) =>
           /\ d.dirty /\ d.in_dirty_list /\ d.listed = (g.listed \/ ~g.in_dirty_list)
           /\ d.has_been_copied = (g.has_been_copied \/ c.alloc)
           /\ g.has_been_copied \/ ~c.alloc => d.page_data = g.page_data
           /\ ~g.has_been_copied /\ c.alloc => d.page_data = g.mem
  <2>1. CASE c.have
    BY <2>1, record_dirty_page_Fields DEF SameContent
  <2>2. CASE ~c.have
    BY <2>2
  <2> QED BY <2>1, <2>2
<1>2. r = IF c.have /\ Recorded(g, c) /\ IsPrivate(d) THEN k ELSE do_wp_page(d, c)
  BY DEF do_wp_page_hook
<1> HIDE DEF d
<1>3. g.listed => d.listed
  BY <1>1
<1>4. Recordable(g) <=> Copied(g) /\ ~g.dirty
  BY DEF Recordable, Copied
<1>5. c.have /\ Recordable(g) => d.listed
  BY <1>1 DEF StructOK, PageState
<1>6. StructOK(d)
  <2>1. CASE c.have /\ Recordable(g)
    <3>1. d.in_dirty_list = d.listed
      BY <1>1, <1>5, <2>1 DEF PageState
    <3>2. d.hashed /\ ~NonePte(d)
      BY <1>1, <2>1 DEF Copied, Recordable, NonePte
    <3> QED BY <3>1, <3>2 DEF StructOK
  <2>2. CASE ~(c.have /\ Recordable(g))
    BY <1>1, <2>2
  <2> QED BY <2>1, <2>2
<1>7. Copied(d) <=> Copied(g)
  BY <1>1 DEF Copied, NonePte
<1>8. CASE r = k /\ c.have /\ Recorded(g, c) /\ IsPrivate(d)
  <2>1. /\ k \in PageState /\ k.pte = "rw" /\ k.mem = d.mem
        /\ k.has_had_pte = d.has_had_pte /\ SameStruct(k, d) /\ k.anon = d.anon
    BY <1>1, set_pte_Fields
  <2>2. StructOK(k) /\ (Copied(k) <=> Copied(d))
    BY <1>6, <2>1, SameStructOK
  <2>3. Recordable(g) /\ Copied(g) /\ ~g.dirty /\ IsPrivate(g)
    BY <1>1, <1>4, <1>8 DEF Recorded, IsPrivate
  <2>4. /\ k.dirty /\ k.listed /\ k.page_prot = g.page_prot
        /\ k.has_been_copied = (g.has_been_copied \/ c.alloc)
        /\ k.has_been_copied =>
             k.page_data = IF g.has_been_copied THEN g.page_data ELSE g.mem
    BY <1>1, <1>5, <1>8, <2>1, <2>3 DEF SameStruct
  <2> HIDE DEF k
  <2> QED BY <1>1, <1>7, <1>8, <2>1, <2>2, <2>3, <2>4 DEF Faulted, SameStruct, Copied
<1>9. CASE r = do_wp_page(d, c)
  <2>1. /\ r \in PageState /\ r.pte = "rw" /\ r.mem = d.mem /\ StructOK(r)
        /\ Copied(r) <=> Copied(d)
        /\ Copied(d) => SameStruct(r, d)
        /\ r.hashed => d.hashed \/ (c.have /\ c.tracked)
        /\ d.listed /\ d.has_had_pte => r.listed /\ r.has_had_pte
        /\ c.kind # "shared" => r.anon
        /\ ~Copied(d) /\ c.have /\ (d.hashed \/ c.tracked) /\ c.kind # "shared" =>
             (r.listed /\ r.has_had_pte) \/ d.anon
    BY <1>1, <1>6, <1>9, do_wp_page_Fields
  <2>2. Copied(g) /\ ~(c.have /\ ~g.dirty) => SameStruct(r, g)
    BY <1>1, <1>4, <1>7, <2>1
  <2>3. Copied(g) => r.page_prot = g.page_prot
    BY <1>1, <1>7, <2>1 DEF SameStruct
  <2>4. Copied(g) /\ c.have /\ ~g.dirty =>
          /\ r.dirty /\ r.listed
          /\ r.has_been_copied = (g.has_been_copied \/ c.alloc)
          /\ r.has_been_copied =>
               r.page_data = IF g.has_been_copied THEN g.page_data ELSE g.mem
    BY <1>1, <1>4, <1>5, <1>7, <2>1 DEF SameStruct
  <2> QED BY <1>1, <1>3, <1>7, <2>1, <2>2, <2>3, <2>4 DEF Faulted
<1> QED BY <1>2, <1>8, <1>9

\* The same for whatever fault a store takes.
LEMMA write_fault_Faulted ==
  ASSUME NEW g \in PageState, NEW c \in Context, StructOK(g),
         NEW r, r = write_fault(g, c)
  PROVE  Faulted(r, g, c) /\ r.mem = g.mem
<1>1. CASE g.pte = "rw"
  <2>1. r = g
    BY <1>1 DEF write_fault
  <2> QED BY <1>1, <2>1 DEF Faulted, SameStruct
<1>2. CASE g.pte = "ro"
  <2>1. r = do_wp_page_hook(g, c)
    BY <1>2 DEF write_fault
  <2> QED BY <1>2, <2>1, do_wp_page_hook_Faulted
<1>3. CASE g.pte = "none"
  <2>1. r = first_touch(g, c)
    BY <1>3 DEF write_fault
  <2>2. /\ r \in PageState /\ r.pte = "rw" /\ r.mem = g.mem /\ StructOK(r)
        /\ Copied(r) <=> Copied(g)
        /\ Copied(g) => SameStruct(r, g)
        /\ r.hashed => g.hashed \/ (c.have /\ c.tracked)
        /\ g.listed /\ g.has_had_pte => r.listed /\ r.has_had_pte
        /\ c.kind # "shared" => r.anon
        /\ ~Copied(g) /\ c.have /\ (g.hashed \/ c.tracked) /\ c.kind # "shared" =>
             (r.listed /\ r.has_had_pte) \/ g.anon
    BY <2>1, do_wp_page_Fields
  <2> QED BY <1>3, <2>2 DEF Faulted, SameStruct
<1> QED BY <1>1, <1>2, <1>3 DEF PageState

\* A store is a write fault and then the bytes.
LEMMA store_Faulted ==
  ASSUME NEW g \in PageState, NEW c \in Context, StructOK(g), NEW x \in Data,
         NEW r, r = store(g, c, x)
  PROVE  Faulted(r, g, c) /\ r.mem = x
<1> DEFINE f == write_fault(g, c)
<1>1. Faulted(f, g, c)
  BY write_fault_Faulted
<1>2. r = [f EXCEPT !.mem = x]
  BY DEF store
<1> HIDE DEF f
<1>3. f \in PageState
  BY <1>1 DEF Faulted
<1>4. /\ r \in PageState /\ r.mem = x /\ r.pte = f.pte /\ r.anon = f.anon
      /\ r.has_had_pte = f.has_had_pte /\ SameStruct(r, f)
  BY <1>2, <1>3 DEF PageState, SameStruct
<1>5. StructOK(r) /\ (Copied(r) <=> Copied(f))
  BY <1>1, <1>4, SameStructOK DEF Faulted
<1> QED BY <1>1, <1>4, <1>5 DEF Faulted, SameStruct

-----------------------------------------------------------------------------
(* What each operation keeps. *)

\* The context an operation runs in is that of the page's mapping.
Fits(c, v) ==
  (c.mapped <=> v.mapped) /\ (c.writable <=> v.mapped /\ v.w) /\ c.kind = v.kind

\* A copy of the page can be had if one is needed.
CanCopy(g, c) == Recordable(g) /\ ~g.has_been_copied => c.alloc

\* A covered page is in the copied or in the zapped case.
LEMMA SavedOK_Cases ==
  ASSUME NEW g, NEW v, NEW s
  PROVE  /\ Copied(g)  => (SavedOK(g, v, s) <=> CopyOK(g, v, s))
         /\ ~Copied(g) => (SavedOK(g, v, s) <=> ZapOK(g, v, s))
BY DEF SavedOK, Copied

\* A store keeps a covered page recoverable.
LEMMA store_Keeps ==
  ASSUME NEW g \in PageState, NEW c \in Context, NEW v \in Vma, NEW x \in Data, NEW s,
         Fits(c, v), v.mapped, StructOK(g), KernelOK(g, v),
         NEW r, r = store(g, c, x)
  PROVE  /\ r \in PageState /\ StructOK(r) /\ KernelOK(r, v) /\ r.mem = x
         /\ Copied(r) <=> Copied(g)
         /\ r.hashed => g.hashed \/ (c.have /\ c.tracked)
         /\ SavedOK(g, v, s) /\ c.have /\ c.tracked /\ CanCopy(g, c) => SavedOK(r, v, s)
         /\ FrameOK(g, v) /\ (Copied(g) => SavedOK(g, v, s)) => FrameOK(r, v)
<1>1. Faulted(r, g, c) /\ r.mem = x
  BY store_Faulted
<1>2. KernelOK(r, v)
  BY <1>1 DEF KernelOK, Faulted
<1>3. ASSUME SavedOK(g, v, s), c.have, c.tracked, CanCopy(g, c)
      PROVE  SavedOK(r, v, s)
  <2>1. CASE Copied(g)
    <3>1. CopyOK(g, v, s)
      BY <1>3, <2>1, SavedOK_Cases
    <3>2. CopyOK(r, v, s)
      <4>1. CASE g.dirty
        <5>1. SameStruct(r, g)
          BY <1>1, <2>1, <4>1 DEF Faulted
        <5> QED BY <3>1, <4>1, <5>1 DEF CopyOK, SameStruct
      <4>2. CASE ~g.dirty
        <5>1. g.pte = "ro" /\ g.mem = s
          BY <3>1, <4>2 DEF CopyOK
        <5>2. g.has_been_copied \/ c.alloc
          BY <1>3, <2>1, <4>2 DEF CanCopy, Recordable, Copied
        <5> QED BY <1>1, <1>3, <2>1, <3>1, <4>2, <5>1, <5>2 DEF CopyOK, Faulted
      <4> QED BY <4>1, <4>2
    <3> QED BY <1>1, <2>1, <3>2, SavedOK_Cases DEF Faulted
  <2>2. CASE ~Copied(g)
    <3>1. ZapOK(g, v, s)
      BY <1>3, <2>2, SavedOK_Cases
    <3>2. r.listed /\ r.has_had_pte
      BY <1>1, <1>3, <2>2, <3>1 DEF ZapOK, Faulted, Fits
    <3> QED BY <1>1, <2>2, <3>1, <3>2, SavedOK_Cases DEF ZapOK, Faulted
  <2> QED BY <2>1, <2>2
<1>4. ASSUME FrameOK(g, v), Copied(g) => SavedOK(g, v, s)
      PROVE  FrameOK(r, v)
  <2>1. Copied(g) => CopyOK(g, v, s)
    BY <1>4, SavedOK_Cases
  <2> QED BY <1>1, <1>4, <2>1 DEF FrameOK, Faulted, Fits, CopyOK
<1> QED BY <1>1, <1>2, <1>3, <1>4 DEF Faulted

\* A load maps a page that was absent and changes nothing else.
LEMMA load_Keeps ==
  ASSUME NEW g \in PageState, NEW c \in Context, NEW v \in Vma, NEW s,
         Fits(c, v), v.mapped, StructOK(g), KernelOK(g, v),
         NEW r, r = load(g, c)
  PROVE  /\ r \in PageState /\ StructOK(r) /\ KernelOK(r, v) /\ r.mem = g.mem
         /\ Copied(r) <=> Copied(g)
         /\ r.hashed = g.hashed
         /\ SavedOK(g, v, s) => SavedOK(r, v, s)
         /\ FrameOK(g, v) => FrameOK(r, v)
<1>1. CASE g.pte # "none"
  BY <1>1 DEF load
<1>2. CASE g.pte = "none"
  <2> DEFINE e == IF c.kind = "shared" /\ c.writable THEN "rw" ELSE "ro"
  <2>1. r = [g EXCEPT !.pte = e]
    BY <1>2 DEF load
  <2>2. e \in {"ro", "rw"} /\ (e = "rw" => c.kind = "shared")
    OBVIOUS
  <2> HIDE DEF e
  <2>3. /\ r \in PageState /\ r.mem = g.mem /\ r.anon = g.anon /\ r.pte = e
        /\ r.has_had_pte = g.has_had_pte /\ SameStruct(r, g)
    BY <2>1, <2>2 DEF PageState, SameStruct
  <2>4. StructOK(r) /\ (Copied(r) <=> Copied(g)) /\ (IsPrivate(r) <=> IsPrivate(g))
    BY <2>3, SameStructOK
  <2>5. KernelOK(r, v) /\ FrameOK(r, v)
    BY <2>2, <2>3 DEF KernelOK, FrameOK, Fits
  <2>6. ASSUME SavedOK(g, v, s) PROVE SavedOK(r, v, s)
    <3>1. CASE Copied(g)
      <4>1. CopyOK(g, v, s)
        BY <2>6, <3>1, SavedOK_Cases
      <4>2. CopyOK(r, v, s)
        BY <1>2, <2>3, <2>4, <4>1 DEF CopyOK, SameStruct
      <4> QED BY <2>4, <3>1, <4>2, SavedOK_Cases
    <3>2. CASE ~Copied(g)
      <4>1. ZapOK(g, v, s)
        BY <2>6, <3>2, SavedOK_Cases
      <4>2. ZapOK(r, v, s)
        BY <2>2, <2>3, <4>1 DEF ZapOK, SameStruct, Fits
      <4> QED BY <2>4, <3>2, <4>2, SavedOK_Cases
    <3> QED BY <3>1, <3>2
  <2> QED BY <2>3, <2>4, <2>5, <2>6 DEF SameStruct
<1> QED BY <1>1, <1>2

\* Write protection, by fork, mprotect or the module, keeps everything; the
\* mapping may gain or lose write permission meanwhile.
LEMMA wrprotect_Keeps ==
  ASSUME NEW g \in PageState, NEW v \in Vma, NEW u \in Vma, NEW s,
         u.mapped <=> v.mapped, u.kind = v.kind, u = v \/ v.mapped, StructOK(g), KernelOK(g, v),
         NEW r, r = g \/ r = wrprotect(g)
  PROVE  /\ r \in PageState /\ StructOK(r) /\ KernelOK(r, u) /\ r.mem = g.mem
         /\ Copied(r) <=> Copied(g)
         /\ r.hashed = g.hashed
         /\ SavedOK(g, v, s) => SavedOK(r, u, s)
         /\ FrameOK(g, v) => FrameOK(r, u)
<1>1. /\ r \in PageState /\ SameStruct(r, g) /\ r.has_had_pte = g.has_had_pte
      /\ r.mem = g.mem /\ r.anon = g.anon
      /\ g.pte = "none" => r.pte = "none"
      /\ g.pte = "ro" => r.pte = "ro"
      /\ r.pte = "none" => g.pte = "none"
      /\ r.pte = "rw" => g.pte = "rw"
  BY wrprotect_Fields DEF SameStruct
<1>2. StructOK(r) /\ (Copied(r) <=> Copied(g)) /\ (IsPrivate(r) <=> IsPrivate(g))
  BY <1>1, SameStructOK
<1>3. KernelOK(r, u) /\ (FrameOK(g, v) => FrameOK(r, u))
  BY <1>1 DEF KernelOK, FrameOK
<1>4. ASSUME SavedOK(g, v, s) PROVE SavedOK(r, u, s)
  <2>1. CASE Copied(g)
    <3>1. CopyOK(g, v, s)
      BY <1>4, <2>1, SavedOK_Cases
    <3>2. CopyOK(r, u, s)
      BY <1>1, <1>2, <3>1 DEF CopyOK, SameStruct
    <3> QED BY <1>2, <2>1, <3>2, SavedOK_Cases
  <2>2. CASE ~Copied(g)
    <3>1. ZapOK(g, v, s)
      BY <1>4, <2>2, SavedOK_Cases
    <3>2. ZapOK(r, u, s)
      BY <1>1, <3>1 DEF ZapOK, SameStruct
    <3> QED BY <1>2, <2>2, <3>2, SavedOK_Cases
  <2> QED BY <2>1, <2>2
<1> QED BY <1>1, <1>2, <1>3, <1>4 DEF SameStruct

\* A write protected page of a shared mapping becomes writable: it stays
\* recoverable if it is queued already.
LEMMA unprotect_Keeps ==
  ASSUME NEW g \in PageState, NEW v \in Vma, NEW u \in Vma, NEW s,
         v.mapped, u.mapped, v.kind = "shared", u.kind = "shared",
         StructOK(g), KernelOK(g, v), g.pte = "ro",
         NEW r, r = [g EXCEPT !.pte = "rw"]
  PROVE  /\ r \in PageState /\ StructOK(r) /\ KernelOK(r, u) /\ FrameOK(r, u)
         /\ Copied(r) <=> Copied(g)
         /\ r.hashed = g.hashed
         /\ SavedOK(g, v, s) /\ ~Recordable(g) => SavedOK(r, u, s)
<1>1. /\ r \in PageState /\ SameStruct(r, g)
      /\ r.mem = g.mem /\ r.pte = "rw"
  BY set_pte_Fields DEF SameStruct, PageState
<1>2. StructOK(r) /\ (Copied(r) <=> Copied(g)) /\ (IsPrivate(r) <=> IsPrivate(g))
  BY <1>1, SameStructOK
<1>3. KernelOK(r, u) /\ FrameOK(r, u)
  BY <1>1 DEF KernelOK, FrameOK
<1>4. ASSUME SavedOK(g, v, s), ~Recordable(g) PROVE SavedOK(r, u, s)
  <2>1. Copied(g)
    BY <1>4, SavedOK_Cases DEF ZapOK
  <2>2. CopyOK(g, v, s) /\ g.dirty
    BY <1>4, <2>1, SavedOK_Cases DEF Recordable
  <2>3. CopyOK(r, u, s)
    BY <1>1, <2>2 DEF CopyOK, SameStruct
  <2> QED BY <1>2, <2>1, <2>3, SavedOK_Cases
<1> QED BY <1>1, <1>2, <1>3, <1>4 DEF SameStruct

\* munmap saves the page first: a covered page whose old bytes are the mapping's
\* first ones, or can be copied, stays recoverable.
LEMMA munmap_page_Keeps ==
  ASSUME NEW g \in PageState, NEW c \in Context, NEW v \in Vma, NEW s,
         StructOK(g), KernelOK(g, v),
         NEW r, r = munmap_page(g, c)
  PROVE  /\ r \in PageState /\ StructOK(r) /\ KernelOK(r, NoVma) /\ FrameOK(r, NoVma)
         /\ Copied(r) <=> Copied(g)
         /\ r.hashed = g.hashed
         /\ ~g.hashed => ~r.listed
         /\ /\ SavedOK(g, v, s) /\ c.have /\ CanCopy(g, c)
            /\ v.kind # "file" \/ Copied(g)
            => SavedOK(r, NoVma, s)
<1> DEFINE b == c.have /\ (g.pte # "none" \/ c.table)
           d == IF b THEN record_dirty_page(g, c) ELSE g
<1>1. /\ d \in PageState /\ d.has_had_pte = g.has_had_pte
      /\ d.hashed = g.hashed /\ d.page_prot = g.page_prot /\ d.mem = g.mem
      /\ ~(b /\ Recordable(g)) => d = g
      /\ b /\ Recordable(g) =>
           /\ d.dirty /\ d.in_dirty_list /\ d.listed = (g.listed \/ ~g.in_dirty_list)
           /\ d.has_been_copied = (g.has_been_copied \/ c.alloc)
           /\ g.has_been_copied \/ ~c.alloc => d.page_data = g.page_data
           /\ ~g.has_been_copied /\ c.alloc /\ g.pte # "none" => d.page_data = g.mem
  <2>1. CASE b
    BY <2>1, record_dirty_page_Fields DEF SameContent
  <2>2. CASE ~b
    BY <2>2
  <2> QED BY <2>1, <2>2
<1>2. r = [d EXCEPT !.pte = "none", !.anon = FALSE, !.mem = Zero]
  BY DEF munmap_page
<1> HIDE DEF d
<1>3. Zero \in Data
  BY ValuesAssumption DEF Data
<1>4. /\ r \in PageState /\ r.pte = "none" /\ ~r.anon /\ r.mem = Zero
      /\ r.has_had_pte = d.has_had_pte /\ SameStruct(r, d)
  BY <1>1, <1>2, <1>3 DEF PageState, SameStruct
<1>5. b /\ Recordable(g) => d.listed
  BY <1>1 DEF StructOK, PageState
<1>6. StructOK(d)
  <2>1. CASE b /\ Recordable(g)
    <3>1. d.in_dirty_list = d.listed
      BY <1>1, <1>5, <2>1 DEF PageState
    <3>2. d.hashed /\ ~NonePte(d)
      BY <1>1, <2>1 DEF Copied, Recordable, NonePte
    <3> QED BY <3>1, <3>2 DEF StructOK
  <2>2. CASE ~(b /\ Recordable(g))
    BY <1>1, <2>2
  <2> QED BY <2>1, <2>2
<1>7. StructOK(r) /\ (Copied(r) <=> Copied(d))
  BY <1>4, <1>6, SameStructOK
<1>8. Copied(d) <=> Copied(g)
  BY <1>1 DEF Copied, NonePte
<1>9. KernelOK(r, NoVma) /\ FrameOK(r, NoVma)
  BY <1>4 DEF KernelOK, FrameOK, NoVma, Backing
<1>10. ASSUME SavedOK(g, v, s), c.have, CanCopy(g, c), v.kind # "file" \/ Copied(g)
       PROVE  SavedOK(r, NoVma, s)
  <2>1. CASE Copied(g)
    <3>1. CopyOK(g, v, s)
      BY <1>10, <2>1, SavedOK_Cases
    <3>2. CASE g.dirty
      <4>1. d = g
        BY <1>1, <3>2 DEF Recordable
      <4>2. CopyOK(r, NoVma, s)
        BY <1>4, <3>1, <3>2, <4>1 DEF CopyOK, SameStruct
      <4> QED BY <1>7, <1>8, <2>1, <4>2, SavedOK_Cases
    <3>3. CASE ~g.dirty
      <4>1. Recordable(g) /\ g.pte = "ro" /\ g.mem = s
        BY <2>1, <3>1, <3>3 DEF Recordable, Copied, CopyOK
      <4>2. g.has_been_copied \/ c.alloc
        BY <1>10, <4>1 DEF CanCopy
      <4>3. b /\ (g.has_been_copied => g.page_data = s)
        BY <1>10, <3>1, <4>1 DEF CopyOK
      <4>4. d.dirty /\ d.listed /\ d.has_been_copied /\ d.page_data = s
        BY <1>1, <1>5, <4>1, <4>2, <4>3
      <4>5. CopyOK(r, NoVma, s)
        BY <1>4, <4>4 DEF CopyOK, SameStruct
      <4> QED BY <1>7, <1>8, <2>1, <4>5, SavedOK_Cases
    <3> QED BY <3>2, <3>3
  <2>2. CASE ~Copied(g)
    <3>1. ZapOK(g, v, s)
      BY <1>10, <2>2, SavedOK_Cases
    <3>2. v.kind = "anon"
      BY <1>10, <2>2, <3>1 DEF ZapOK, Vma, Kinds
    <3>3. s = Zero /\ Backing(NoVma.kind) = Zero /\ NoVma.kind # "shared"
      BY <3>1, <3>2 DEF ZapOK, Backing, NoVma
    <3>4. ZapOK(r, NoVma, s)
      BY <1>4, <3>3 DEF ZapOK
    <3> QED BY <1>7, <1>8, <2>2, <3>4, SavedOK_Cases
  <2> QED BY <2>1, <2>2
<1>11. ~g.hashed => ~r.listed
  BY <1>1, <1>4, <1>7 DEF SameStruct, StructOK
<1> QED BY <1>1, <1>4, <1>7, <1>8, <1>9, <1>10, <1>11 DEF SameStruct

\* make_snapshot_page starts a page off in the right case.
LEMMA make_snapshot_page_Keeps ==
  ASSUME NEW g \in PageState, NEW v \in Vma,
         ~g.hashed, StructOK(g), KernelOK(g, v), v.mapped,
         NEW r, r = make_snapshot_page(g)
  PROVE  /\ r \in PageState /\ StructOK(r) /\ KernelOK(r, v) /\ FrameOK(r, v)
         /\ r.hashed
         /\ Copied(r) <=> g.pte # "none"
         /\ FrameOK(g, v) /\ (v.kind # "shared" \/ g.pte # "none") => SavedOK(r, v, g.mem)
<1>1. /\ r \in PageState
      /\ r.anon = g.anon /\ r.mem = g.mem
      /\ r.pte = IF g.pte = "none" THEN "none" ELSE "ro"
      /\ r.hashed
      /\ r.page_prot = IF g.pte = "none" THEN {"NONE_PTE"}
                       ELSE IF g.pte = "rw" THEN {"PRIVATE"} ELSE {"COW"}
      /\ ~r.has_been_copied /\ ~r.dirty /\ ~r.in_dirty_list /\ r.listed = g.listed
  BY make_snapshot_page_Fields
<1>2. ~r.listed
  BY <1>1 DEF StructOK
<1>3. Copied(r) <=> g.pte # "none"
  BY <1>1 DEF Copied, NonePte
<1>4. StructOK(r)
  <2>1. r.in_dirty_list = r.listed
    BY <1>1, <1>2 DEF PageState
  <2>2. NonePte(r) => r.page_prot = {"NONE_PTE"}
    BY <1>1 DEF NonePte
  <2> QED BY <1>1, <1>2, <2>1, <2>2 DEF StructOK
<1>5. KernelOK(r, v) /\ FrameOK(r, v)
  BY <1>1 DEF KernelOK, FrameOK
<1>6. ASSUME FrameOK(g, v), v.kind # "shared" \/ g.pte # "none"
      PROVE  SavedOK(r, v, g.mem)
  <2>1. CASE g.pte # "none"
    <3>1. IsPrivate(r) => g.pte = "rw"
      BY <1>1 DEF IsPrivate
    <3>2. CopyOK(r, v, g.mem)
      BY <1>1, <1>6, <2>1, <3>1 DEF CopyOK, FrameOK
    <3> QED BY <1>3, <2>1, <3>2, SavedOK_Cases
  <2>2. CASE g.pte = "none"
    <3>1. ZapOK(r, v, g.mem)
      BY <1>1, <1>6, <2>2 DEF ZapOK, KernelOK
    <3> QED BY <1>3, <2>2, <3>1, SavedOK_Cases
  <2> QED BY <2>1, <2>2
<1> QED BY <1>1, <1>3, <1>4, <1>5, <1>6

\* Leaving the dirty list changes nothing but the two list fields
\* (memory.c:733-734).
LEMMA unlist_Fields ==
  ASSUME NEW g \in PageState, NEW r, r = unlist(g)
  PROVE  /\ r \in PageState
         /\ r.pte = g.pte /\ r.anon = g.anon /\ r.mem = g.mem
         /\ r.hashed = g.hashed /\ r.page_prot = g.page_prot /\ r.page_data = g.page_data
         /\ r.has_been_copied = g.has_been_copied /\ r.has_had_pte = g.has_had_pte
         /\ r.dirty = g.dirty /\ ~r.in_dirty_list /\ ~r.listed
BY DEF unlist, PageState

\* So the struct stays well formed.
LEMMA unlist_StructOK ==
  ASSUME NEW g \in PageState, NEW r, r = unlist(g), StructOK(g)
  PROVE  StructOK(r) /\ (Copied(r) <=> Copied(g))
<1>1. /\ r \in PageState /\ r.hashed = g.hashed /\ r.page_prot = g.page_prot
      /\ r.has_been_copied = g.has_been_copied
      /\ r.dirty = g.dirty /\ ~r.in_dirty_list /\ ~r.listed
  BY unlist_Fields
<1>2. r.in_dirty_list = r.listed
  BY <1>1 DEF PageState
<1> QED BY <1>1, <1>2 DEF StructOK, Copied, NonePte

\* The turn of the restore loop for a page that was saved: if copy_to_user can
\* write it, it shows the saved bytes again and is write protected.
LEMMA recover_copied_Keeps ==
  ASSUME NEW g \in PageState, NEW c \in Context, NEW v \in Vma, NEW s,
         Fits(c, v), StructOK(g), KernelOK(g, v), g.listed,
         g.dirty, g.has_been_copied,
         NEW r, r = recover_page(g, c)
  PROVE  /\ r \in PageState /\ StructOK(r) /\ KernelOK(r, v)
         /\ Copied(r) /\ Copied(g)
         /\ r.hashed = g.hashed
         /\ SavedOK(g, v, s) /\ FrameOK(g, v) /\ c.writable => r.mem = s /\ SavedOK(r, v, s)
         /\ FrameOK(r, v)
<1>1. Copied(g)
  BY DEF StructOK, Copied
<1> DEFINE w == IF c.writable THEN store(g, c, g.page_data) ELSE g
           e == [w EXCEPT !.dirty = FALSE]
           h == [e EXCEPT !.has_had_pte = TRUE]
           p == wrprotect(h)
           q == [p EXCEPT !.page_prot = @ \cup {"PRIVATE"}]
           z == unlist(q)
<1>2. r = IF h.pte = "none" /\ ~c.table THEN h ELSE z
  BY DEF recover_page, do_recover_page
<1>3. /\ w \in PageState /\ StructOK(w) /\ KernelOK(w, v) /\ SameStruct(w, g)
      /\ c.writable => w.mem = g.page_data /\ w.pte = "rw"
      /\ FrameOK(g, v) => FrameOK(w, v)
      /\ c.writable /\ FrameOK(g, v) /\ v.kind # "shared" => w.anon
      /\ c.writable => v.mapped
  <2>1. CASE c.writable
    <3>1. g.page_data \in Data
      BY DEF PageState
    <3>2. v.mapped
      BY <2>1 DEF Fits
    <3>3. Faulted(w, g, c) /\ w.mem = g.page_data
      BY <2>1, <3>1, store_Faulted
    <3> HIDE DEF w
    <3>4. SameStruct(w, g)
      BY <1>1, <3>3 DEF Faulted
    <3>5. v.kind # "shared" => w.anon \/ (g.pte = "rw" /\ w.anon = g.anon)
      BY <3>3 DEF Faulted, Fits
    <3>6. KernelOK(w, v) /\ w \in PageState /\ StructOK(w) /\ w.pte = "rw"
      BY <3>2, <3>3 DEF KernelOK, Faulted
    <3>7. FrameOK(g, v) /\ v.kind # "shared" => w.anon
      BY <3>2, <3>5 DEF FrameOK
    <3> QED BY <3>2, <3>3, <3>4, <3>5, <3>6, <3>7 DEF FrameOK
  <2>2. CASE ~c.writable
    <3>1. w = g
      BY <2>2
    <3> QED BY <2>2, <3>1 DEF SameStruct
  <2> QED BY <2>1, <2>2
<1> HIDE DEF w
<1>4. /\ h \in PageState /\ h.pte = w.pte /\ h.anon = w.anon /\ h.mem = w.mem
      /\ h.hashed = w.hashed /\ h.page_prot = w.page_prot /\ h.page_data = w.page_data
      /\ h.has_been_copied = w.has_been_copied /\ ~h.dirty
      /\ h.in_dirty_list = w.in_dirty_list /\ h.listed = w.listed
  BY <1>3 DEF PageState
<1> HIDE DEF h
<1>5. /\ p \in PageState /\ SameStruct(p, h)
      /\ p.mem = h.mem /\ p.anon = h.anon
      /\ p.pte = IF h.pte = "none" THEN "none" ELSE "ro"
  BY <1>4, wrprotect_Fields
<1> HIDE DEF p
<1>6. /\ q \in PageState
      /\ q.pte = p.pte /\ q.anon = p.anon /\ q.mem = p.mem
      /\ q.hashed = p.hashed /\ q.page_prot = p.page_prot \cup {"PRIVATE"}
      /\ q.page_data = p.page_data
      /\ q.has_been_copied = p.has_been_copied
      /\ q.dirty = p.dirty /\ q.in_dirty_list = p.in_dirty_list /\ q.listed = p.listed
  <2>1. p.page_prot \cup {"PRIVATE"} \in SUBSET Prot
    BY <1>5 DEF PageState, Prot
  <2> QED BY <1>5, <2>1 DEF PageState
<1> HIDE DEF q
<1>7. /\ z \in PageState
      /\ z.pte = q.pte /\ z.anon = q.anon /\ z.mem = q.mem
      /\ z.hashed = q.hashed /\ z.page_prot = q.page_prot /\ z.page_data = q.page_data
      /\ z.has_been_copied = q.has_been_copied
      /\ z.dirty = q.dirty /\ ~z.in_dirty_list /\ ~z.listed
  BY <1>6, unlist_Fields
<1> HIDE DEF z
<1>8. g.hashed /\ "NONE_PTE" \notin g.page_prot
  BY <1>1 DEF Copied, NonePte
<1>9. CASE r = h /\ h.pte = "none"
  <2>1. StructOK(r) /\ Copied(r)
    BY <1>3, <1>4, <1>8, <1>9 DEF StructOK, Copied, NonePte, SameStruct
  <2>2. KernelOK(r, v) /\ FrameOK(r, v)
    BY <1>3, <1>4, <1>9 DEF KernelOK, FrameOK
  <2>3. ~c.writable
    BY <1>3, <1>4, <1>9
  <2> QED BY <1>1, <1>3, <1>4, <1>9, <2>1, <2>2, <2>3 DEF SameStruct
<1>10. CASE r = z
  <2>1. /\ r \in PageState /\ r.anon = w.anon /\ r.mem = w.mem
        /\ r.pte = IF w.pte = "none" THEN "none" ELSE "ro"
        /\ r.hashed = g.hashed /\ r.page_prot = g.page_prot \cup {"PRIVATE"}
        /\ r.page_data = g.page_data /\ r.has_been_copied = g.has_been_copied
        /\ ~r.dirty /\ ~r.in_dirty_list /\ ~r.listed
    <3>1. /\ q.pte = IF w.pte = "none" THEN "none" ELSE "ro"
          /\ q.anon = w.anon /\ q.mem = w.mem
      BY <1>4, <1>5, <1>6
    <3>2. /\ q.hashed = g.hashed /\ q.page_prot = g.page_prot \cup {"PRIVATE"}
          /\ q.page_data = g.page_data /\ q.has_been_copied = g.has_been_copied
      BY <1>3, <1>4, <1>5, <1>6 DEF SameStruct
    <3>3. ~q.dirty
      BY <1>4, <1>5, <1>6 DEF SameStruct
    <3> QED BY <1>7, <1>10, <3>1, <3>2, <3>3
  <2>2. r.in_dirty_list = r.listed
    BY <2>1 DEF PageState
  <2>3. r.hashed /\ ~NonePte(r)
    BY <1>8, <2>1 DEF NonePte
  <2>4. StructOK(r) /\ Copied(r)
    BY <2>2, <2>3 DEF StructOK, Copied
  <2>5. KernelOK(r, v) /\ FrameOK(r, v)
    BY <1>3, <2>1 DEF KernelOK, FrameOK
  <2>6. ASSUME SavedOK(g, v, s), c.writable, FrameOK(g, v)
        PROVE  r.mem = s /\ SavedOK(r, v, s)
    <3>1. CopyOK(g, v, s)
      BY <1>1, <2>6, SavedOK_Cases
    <3>2. CopyOK(r, v, s)
      BY <1>3, <2>1, <2>6, <3>1 DEF CopyOK
    <3> QED BY <2>4, <3>2, <2>1, SavedOK_Cases DEF CopyOK
  <2> QED BY <1>1, <2>1, <2>4, <2>5, <2>6
<1> QED BY <1>2, <1>9, <1>10

\* The turn for any other page: one that had no entry is zapped.
LEMMA recover_other_Keeps ==
  ASSUME NEW g \in PageState, NEW c \in Context, NEW v \in Vma, NEW s,
         Fits(c, v), StructOK(g), KernelOK(g, v),
         ~(g.dirty /\ g.has_been_copied),
         NEW r, r = recover_page(g, c)
  PROVE  /\ r \in PageState /\ StructOK(r) /\ KernelOK(r, v)
         /\ Copied(r) <=> Copied(g)
         /\ r.hashed = g.hashed
         /\ SavedOK(g, v, s) => SavedOK(r, v, s) /\ (v.mapped => r.mem = s)
         /\ FrameOK(g, v) => FrameOK(r, v)
<1> DEFINE zap == ~IsPrivate(g) /\ NonePte(g) /\ g.has_had_pte
           n == do_recover_none_pte(g, c)
           h == [n EXCEPT !.has_had_pte = FALSE]
           z == unlist(h)
           u == unlist(g)
<1>1. r = IF zap THEN z ELSE u
  BY DEF recover_page
<1>2. /\ n \in PageState /\ SameStruct(n, g)
      /\ n.pte = "none" /\ ~n.anon
      /\ ~v.mapped => n.mem = g.mem
      /\ v.mapped /\ v.kind # "shared" => n.mem = Backing(v.kind)
  <2>1. CASE ~v.mapped
    <3>1. n = g
      BY <2>1 DEF do_recover_none_pte, Fits
    <3> QED BY <2>1, <3>1 DEF KernelOK, SameStruct
  <2>2. CASE v.mapped
    <3> DEFINE m == IF c.kind = "shared" THEN g.mem ELSE Backing(c.kind)
    <3>1. m \in Data /\ (v.kind # "shared" => m = Backing(v.kind))
      BY BackingType DEF PageState, Fits
    <3>2. n = [g EXCEPT !.pte = "none", !.anon = FALSE, !.mem = m]
      BY <2>2 DEF do_recover_none_pte, Fits
    <3> HIDE DEF m, n
    <3> QED BY <2>2, <3>1, <3>2 DEF PageState, SameStruct
  <2> QED BY <2>1, <2>2
<1> HIDE DEF n
<1>3. /\ h \in PageState /\ SameStruct(h, n)
      /\ h.pte = n.pte /\ h.anon = n.anon /\ h.mem = n.mem
  BY <1>2 DEF PageState, SameStruct
<1> HIDE DEF h
<1>4. CASE zap
  <2>1. ~Copied(g)
    BY <1>4 DEF Copied
  <2>2. StructOK(h) /\ (Copied(h) <=> Copied(g))
    BY <1>2, <1>3, SameStructOK
  <2>3. r = z
    BY <1>1, <1>4
  <2>4. StructOK(r) /\ (Copied(r) <=> Copied(g))
    BY <1>3, <2>2, <2>3, unlist_StructOK
  <2>5. /\ r \in PageState /\ r.pte = "none" /\ ~r.anon /\ r.hashed = g.hashed
        /\ ~v.mapped => r.mem = g.mem
        /\ v.mapped /\ v.kind # "shared" => r.mem = Backing(v.kind)
    BY <1>2, <1>3, <2>3, unlist_Fields DEF SameStruct
  <2>6. KernelOK(r, v) /\ FrameOK(r, v)
    BY <2>5 DEF KernelOK, FrameOK
  <2>7. ASSUME SavedOK(g, v, s) PROVE SavedOK(r, v, s) /\ (v.mapped => r.mem = s)
    <3>1. ZapOK(g, v, s)
      BY <2>1, <2>7, SavedOK_Cases
    <3>2. r.mem = s
      BY <2>5, <3>1 DEF ZapOK, KernelOK
    <3>3. ZapOK(r, v, s)
      BY <2>5, <3>1, <3>2 DEF ZapOK
    <3> QED BY <2>1, <2>4, <3>2, <3>3, SavedOK_Cases
  <2> QED BY <2>4, <2>5, <2>6, <2>7
<1>5. CASE ~zap
  <2>1. r = u
    BY <1>1, <1>5
  <2>2. /\ r \in PageState
        /\ r.pte = g.pte /\ r.anon = g.anon /\ r.mem = g.mem
        /\ r.hashed = g.hashed /\ r.page_prot = g.page_prot /\ r.page_data = g.page_data
        /\ r.has_been_copied = g.has_been_copied /\ r.has_had_pte = g.has_had_pte
        /\ r.dirty = g.dirty
    BY <2>1, unlist_Fields
  <2>3. StructOK(r) /\ (Copied(r) <=> Copied(g))
    BY <2>1, unlist_StructOK
  <2>4. KernelOK(r, v) /\ (FrameOK(g, v) => FrameOK(r, v))
    BY <2>2 DEF KernelOK, FrameOK
  <2>5. ASSUME SavedOK(g, v, s) PROVE SavedOK(r, v, s) /\ r.mem = s
    <3>1. CASE Copied(g)
      <4>1. CopyOK(g, v, s)
        BY <2>5, <3>1, SavedOK_Cases
      <4>2. ~g.dirty
        BY <4>1 DEF CopyOK
      <4>3. CopyOK(r, v, s) /\ r.mem = s
        BY <2>2, <4>1, <4>2 DEF CopyOK, IsPrivate
      <4> QED BY <2>3, <3>1, <4>3, SavedOK_Cases
    <3>2. CASE ~Copied(g)
      <4>1. ZapOK(g, v, s)
        BY <2>5, <3>2, SavedOK_Cases
      <4>2. ~(g.listed /\ g.has_had_pte)
        <5>1. ASSUME g.listed, g.has_had_pte PROVE zap
          BY <3>2, <5>1 DEF Copied, StructOK, NonePte, IsPrivate
        <5> QED BY <1>5, <5>1
      <4>3. ZapOK(r, v, s) /\ r.mem = s
        BY <2>2, <4>1, <4>2 DEF ZapOK
      <4> QED BY <2>3, <3>2, <4>3, SavedOK_Cases
    <3> QED BY <3>1, <3>2
  <2> QED BY <2>2, <2>3, <2>4, <2>5
<1> QED BY <1>4, <1>5

\* Dropping the struct leaves the kernel's half as it is.
LEMMA forget_page_Keeps ==
  ASSUME NEW g \in PageState, NEW v \in Vma, NEW r, r = forget_page(g)
  PROVE  /\ r \in PageState /\ StructOK(r) /\ ~r.hashed
         /\ KernelOK(g, v) => KernelOK(r, v)
         /\ FrameOK(g, v) => FrameOK(r, v)
<1>1. /\ r \in PageState
      /\ r.pte = g.pte /\ r.anon = g.anon /\ r.mem = g.mem
      /\ r.hashed = FALSE /\ r.page_prot = {} /\ r.has_been_copied = FALSE
      /\ r.dirty = FALSE /\ r.in_dirty_list = FALSE /\ r.listed = FALSE
  BY DEF forget_page, UntouchedPage, PageState, Data
<1>2. ~NonePte(r)
  BY <1>1 DEF NonePte
<1> QED BY <1>1, <1>2 DEF StructOK, KernelOK, FrameOK

\* A page nobody touched satisfies all that is said of pages.
LEMMA UntouchedPage_OK ==
  ASSUME NEW v \in Vma, v.mapped \/ v = NoVma, NEW r, r = UntouchedPage(v.kind)
  PROVE  r \in PageState /\ StructOK(r) /\ KernelOK(r, v) /\ FrameOK(r, v) /\ ~r.hashed
<1>1. /\ r \in PageState
      /\ r.pte = "none" /\ r.anon = FALSE /\ r.mem = Backing(v.kind)
      /\ r.hashed = FALSE /\ r.page_prot = {} /\ r.has_been_copied = FALSE
      /\ r.dirty = FALSE /\ r.in_dirty_list = FALSE /\ r.listed = FALSE
  BY BackingType DEF UntouchedPage, PageState, Data
<1>2. ~NonePte(r)
  BY <1>1 DEF NonePte
<1> QED BY <1>1, <1>2 DEF StructOK, KernelOK, FrameOK

-----------------------------------------------------------------------------
(* The actions. *)

\* The state of one page, as the page lemmas want it.
LEMMA PageFacts ==
  ASSUME TypeOK, NEW p \in Pages
  PROVE  page[p] \in PageState /\ VmaOf(p) \in Vma /\ AreaOf[p] \in Areas
BY MemoryAssumption DEF TypeOK, VmaOf

\* The context a fault or a walk of page p runs in is well formed and agrees with
\* the mapping of p.
LEMMA ContextFits ==
  ASSUME NEW p \in Pages, NEW vm \in [Areas -> Vma], NEW A, NEW T, NEW copy \in BOOLEAN
  PROVE  /\ ContextOf(p, vm, A, T, copy) \in Context
         /\ Fits(ContextOf(p, vm, A, T, copy), vm[AreaOf[p]])
         /\ ContextOf(p, vm, A, T, copy).have <=> have_snapshot
         /\ ContextOf(p, vm, A, T, copy).tracked <=> AreaOf[p] \in snapshotted_vmas
         /\ ContextOf(p, vm, A, T, copy).alloc <=> p \in A
<1>1. vm[AreaOf[p]] \in Vma
  BY MemoryAssumption
<1>2. /\ vm[AreaOf[p]].mapped \in BOOLEAN /\ vm[AreaOf[p]].w \in BOOLEAN
      /\ vm[AreaOf[p]].kind \in Kinds
  BY <1>1 DEF Vma
<1>3. have_snapshot \in BOOLEAN
  BY DEF have_snapshot
<1>4. ContextOf(p, vm, A, T, copy) \in Context
  BY <1>2, <1>3 DEF ContextOf, Context
<1>5. Fits(ContextOf(p, vm, A, T, copy), vm[AreaOf[p]])
  BY <1>2 DEF ContextOf, Fits
<1> QED BY <1>4, <1>5 DEF ContextOf

\* Initially no page has a struct and nothing is mapped in.
THEOREM InitInv == Init => TypeOK /\ Inv
<1> SUFFICES ASSUME Init PROVE TypeOK /\ Inv
  OBVIOUS
<1>1. ASSUME NEW p \in Pages
      PROVE  /\ page[p] \in PageState /\ StructOK(page[p]) /\ KernelOK(page[p], VmaOf(p))
             /\ FrameOK(page[p], VmaOf(p)) /\ ~page[p].hashed
  <2>1. AreaOf[p] \in Areas
    BY MemoryAssumption
  <2>2. VmaOf(p) \in Vma /\ (VmaOf(p).mapped \/ VmaOf(p) = NoVma)
    BY <2>1, MemoryAssumption DEF Init, VmaOf
  <2>3. page[p] = UntouchedPage(VmaOf(p).kind)
    BY DEF Init
  <2> QED BY <2>2, <2>3, UntouchedPage_OK
<1>2. TypeOK
  <2>1. page \in [Pages -> PageState]
    <3>1. page = [p \in Pages |-> page[p]]
      BY DEF Init
    <3> QED BY <1>1, <3>1
  <2>2. saved \in [Pages -> Data]
    BY DEF Init, Data
  <2> QED BY <2>1, <2>2, MemoryAssumption DEF Init, TypeOK
<1>3. ASSUME NEW p \in Pages PROVE PageInv(p)
  <2>1. ~Copied(page[p]) /\ covered = {}
    BY <1>1 DEF Copied, Init
  <2> QED BY <1>1, <2>1 DEF PageInv
<1>4. covered = {} /\ ~have_snapshot /\ ~had_snapshot
  BY DEF Init, have_snapshot, had_snapshot
<1> QED BY <1>1, <1>2, <1>3, <1>4 DEF Inv

-----------------------------------------------------------------------------
(* Steps that leave the snapshot itself alone. *)

\* What such a step has to establish of each page.
StepOK(q) ==
  /\ page'[q] \in PageState /\ StructOK(page'[q]) /\ KernelOK(page'[q], vma'[AreaOf[q]])
  /\ Copied(page'[q]) => Copied(page[q])
  /\ page'[q].hashed => page[q].hashed \/ (have_snapshot /\ AreaOf[q] \in snapshotted_vmas)
  /\ q \in covered \ failed' => SavedOK(page'[q], vma'[AreaOf[q]], saved[q])
  /\ q \notin failed' => FrameOK(page'[q], vma'[AreaOf[q]])

\* A step that changes only pages, mappings and the failures, and that keeps each
\* page well (StepOK), keeps the invariant: the pattern of the program's steps
\* and of the restores.
LEMMA StepsKeep ==
  ASSUME TypeOK, Inv, alive,
         UNCHANGED <<alive, dataVars, saved, covered>>,
         failed \subseteq failed', failed' \subseteq Pages,
         vma' \in [Areas -> Vma], page' = [q \in Pages |-> page'[q]],
         \A q \in Pages : StepOK(q)
  PROVE  TypeOK' /\ Inv'
<1>1. page' \in [Pages -> PageState]
  BY DEF StepOK
<1>2. TypeOK'
  BY <1>1 DEF TypeOK, dataVars
<1>3. /\ have_snapshot' = have_snapshot /\ had_snapshot' = had_snapshot
      /\ snapshotted_vmas' = snapshotted_vmas /\ has_data' = has_data
      /\ alive' = alive /\ saved' = saved /\ covered' = covered
  BY DEF dataVars, have_snapshot, had_snapshot
<1>4. ASSUME NEW q \in Pages PROVE PageInv(q)'
  <2>1. PageInv(q) /\ StepOK(q)
    BY DEF Inv
  <2>2. VmaOf(q)' = vma'[AreaOf[q]]
    BY DEF VmaOf
  <2> QED BY <1>3, <2>1, <2>2 DEF PageInv, StepOK
<1> QED BY <1>2, <1>3, <1>4 DEF Inv

\* What is known of a page before the step.
LEMMA Before ==
  ASSUME TypeOK, Inv, alive, NEW q \in Pages
  PROVE  /\ page[q] \in PageState /\ VmaOf(q) \in Vma /\ AreaOf[q] \in Areas
         /\ StructOK(page[q]) /\ KernelOK(page[q], VmaOf(q))
         /\ Copied(page[q]) => q \in covered
         /\ q \in covered \ failed => SavedOK(page[q], VmaOf(q), saved[q])
         /\ q \notin failed => FrameOK(page[q], VmaOf(q))
         /\ page[q].hashed => have_snapshot
         /\ page[q].hashed \/ q \in covered => AreaOf[q] \in snapshotted_vmas
         /\ q \in covered => have_snapshot
BY PageFacts DEF Inv, PageInv

\* A page the step does not touch.
LEMMA UntouchedStep ==
  ASSUME TypeOK, Inv, alive, NEW q \in Pages,
         page'[q] = page[q], vma'[AreaOf[q]] = vma[AreaOf[q]], failed \subseteq failed'
  PROVE  StepOK(q)
BY Before DEF StepOK, VmaOf

\* A load of an absent page keeps the invariant.
LEMMA LoadKeeps ==
  ASSUME TypeOK, Inv, NEW p \in Pages, Load(p)
  PROVE  TypeOK' /\ Inv'
<1> DEFINE c == ContextOf(p, vma, {}, {}, FALSE)
<1>1. /\ alive /\ VmaOf(p).mapped
      /\ page' = [page EXCEPT ![p] = load(page[p], c)]
      /\ UNCHANGED <<alive, vma, dataVars, historyVars>>
  BY DEF Load, TypeOK
<1>2. c \in Context /\ Fits(c, VmaOf(p))
  BY ContextFits DEF TypeOK, VmaOf
<1> HIDE DEF c
<1>3. StepOK(p)
  <2>1. page'[p] = load(page[p], c) /\ vma'[AreaOf[p]] = VmaOf(p)
    BY <1>1 DEF TypeOK, VmaOf
  <2>2. failed' = failed
    BY <1>1 DEF historyVars
  <2> QED BY <1>1, <1>2, <2>1, <2>2, Before, load_Keeps DEF StepOK
<1>4. ASSUME NEW q \in Pages, q # p PROVE StepOK(q)
  BY <1>1, <1>4, UntouchedStep DEF TypeOK, historyVars
<1>5. page' = [q \in Pages |-> page'[q]]
  BY <1>1 DEF TypeOK
<1> QED BY <1>1, <1>3, <1>4, <1>5, StepsKeep DEF TypeOK, historyVars

\* A store, with the write fault and the hooks it goes through.
LEMMA StoreKeeps ==
  ASSUME TypeOK, Inv, NEW p \in Pages, NEW x \in Values, Store(p, x)
  PROVE  TypeOK' /\ Inv'
<1> DEFINE copied == IF page[p].pte = "ro" THEN Uncopied({p}) ELSE {}
<1>1. PICK A \in SUBSET copied, copy \in BOOLEAN :
        /\ page' = [page EXCEPT ![p] = store(page[p], ContextOf(p, vma, A, {}, copy), x)]
        /\ failed' = failed \cup (copied \ A)
  BY DEF Store, TypeOK
<1>2. /\ alive /\ VmaOf(p).mapped
      /\ UNCHANGED <<alive, vma, dataVars, saved, covered>>
  BY DEF Store
<1> DEFINE c == ContextOf(p, vma, A, {}, copy)
<1>3. /\ c \in Context /\ Fits(c, VmaOf(p))
      /\ (c.have <=> have_snapshot) /\ (c.tracked <=> AreaOf[p] \in snapshotted_vmas)
      /\ c.alloc <=> p \in A
  BY ContextFits DEF TypeOK, VmaOf
<1>4. page'[p] = store(page[p], c, x)
  BY <1>1 DEF TypeOK
<1> HIDE DEF c
<1>5. failed \subseteq failed' /\ failed' \subseteq Pages
  BY <1>1 DEF TypeOK, Uncopied
<1>6. StepOK(p)
  <2>1. x \in Data
    BY DEF Data
  <2>2. /\ page'[p] \in PageState /\ StructOK(page'[p]) /\ KernelOK(page'[p], VmaOf(p))
        /\ Copied(page'[p]) <=> Copied(page[p])
        /\ page'[p].hashed => page[p].hashed \/ (c.have /\ c.tracked)
        /\ SavedOK(page[p], VmaOf(p), saved[p]) /\ c.have /\ c.tracked /\ CanCopy(page[p], c)
             => SavedOK(page'[p], VmaOf(p), saved[p])
        /\ FrameOK(page[p], VmaOf(p))
             /\ (Copied(page[p]) => SavedOK(page[p], VmaOf(p), saved[p]))
             => FrameOK(page'[p], VmaOf(p))
    BY <1>2, <1>3, <1>4, <2>1, Before, store_Keeps
  <2>3. vma'[AreaOf[p]] = VmaOf(p)
    BY <1>2 DEF VmaOf
  <2>4. ASSUME p \in covered \ failed' PROVE SavedOK(page'[p], VmaOf(p), saved[p])
    <3>1. /\ SavedOK(page[p], VmaOf(p), saved[p]) /\ c.have /\ c.tracked
      BY <1>2, <1>3, <1>5, <2>4, Before
    <3>2. ASSUME Recordable(page[p]), ~page[p].has_been_copied PROVE c.alloc
      <4>1. page[p].pte = "ro"
        BY <3>1, <3>2, SavedOK_Cases DEF Recordable, CopyOK
      <4>2. p \in copied
        BY <1>3, <3>1, <3>2, <4>1 DEF Uncopied
      <4> QED BY <1>1, <1>3, <2>4, <4>2
    <3> QED BY <2>2, <3>1, <3>2 DEF CanCopy
  <2>5. ASSUME p \notin failed' PROVE FrameOK(page'[p], VmaOf(p))
    BY <1>2, <1>5, <2>2, <2>5, Before
  <2> QED BY <1>3, <2>2, <2>3, <2>4, <2>5 DEF StepOK
<1>7. ASSUME NEW q \in Pages, q # p PROVE StepOK(q)
  BY <1>1, <1>2, <1>5, <1>7, UntouchedStep DEF TypeOK
<1>8. page' = [q \in Pages |-> page'[q]]
  BY <1>1 DEF TypeOK
<1> QED BY <1>2, <1>5, <1>6, <1>7, <1>8, StepsKeep DEF TypeOK

\* fork() write protects what the process shares with its child.
LEMMA ForkKeeps ==
  ASSUME TypeOK, Inv, Fork
  PROVE  TypeOK' /\ Inv'
<1>1. alive /\ UNCHANGED <<alive, vma, dataVars, historyVars>>
  BY DEF Fork
<1>2. ASSUME NEW q \in Pages PROVE StepOK(q)
  <2>1. page'[q] = page[q] \/ page'[q] = wrprotect(page[q])
    BY DEF Fork
  <2>2. vma'[AreaOf[q]] = VmaOf(q) /\ failed' = failed
    BY <1>1 DEF VmaOf, historyVars
  <2> QED BY <1>1, <2>1, <2>2, Before, wrprotect_Keeps DEF StepOK
<1>3. page' = [q \in Pages |-> page'[q]]
  BY DEF Fork
<1> QED BY <1>1, <1>2, <1>3, StepsKeep DEF TypeOK, historyVars

\* A page that was unmapped keeps its case when an anonymous mapping comes back.
LEMMA RemappedPage ==
  ASSUME NEW g \in PageState, NEW u \in Vma, NEW s,
         u.mapped, u.kind = "anon", StructOK(g), KernelOK(g, NoVma)
  PROVE  /\ KernelOK(g, u) /\ FrameOK(g, u)
         /\ SavedOK(g, NoVma, s) => SavedOK(g, u, s)
<1>1. NoVma.kind = "anon" /\ ~NoVma.mapped
  BY DEF NoVma
<1>2. g.pte = "none" /\ KernelOK(g, u) /\ FrameOK(g, u)
  BY <1>1 DEF KernelOK, FrameOK
<1>3. ASSUME SavedOK(g, NoVma, s) PROVE SavedOK(g, u, s)
  <2>1. CASE Copied(g)
    BY <1>1, <1>3, <2>1, SavedOK_Cases DEF CopyOK
  <2>2. CASE ~Copied(g)
    BY <1>1, <1>3, <2>2, SavedOK_Cases DEF ZapOK
  <2> QED BY <2>1, <2>2
<1> QED BY <1>2, <1>3

\* mmap() makes a mapping appear; its pages have no entry yet.
LEMMA MmapKeeps ==
  ASSUME TypeOK, Inv, NEW a \in Areas, Mmap(a)
  PROVE  TypeOK' /\ Inv'
<1> DEFINE u == [mapped |-> TRUE, w |-> TRUE, kind |-> "anon"]
<1>1. /\ alive /\ ~vma[a].mapped
      /\ vma' = [vma EXCEPT ![a] = u]
      /\ UNCHANGED <<alive, page, dataVars, historyVars>>
  BY DEF Mmap
<1>2. u \in Vma /\ u.mapped /\ u.kind = "anon"
  BY DEF Vma, Kinds
<1> HIDE DEF u
<1>3. ASSUME NEW q \in Pages PROVE StepOK(q)
  <2>1. CASE AreaOf[q] # a
    BY <1>1, <2>1, UntouchedStep, MemoryAssumption DEF historyVars
  <2>2. CASE AreaOf[q] = a
    <3>1. VmaOf(q) = NoVma
      BY <1>1, <2>2, Before DEF KernelOK, VmaOf
    <3>2. vma'[AreaOf[q]] = u /\ page' = page /\ failed' = failed
      BY <1>1, <2>2 DEF TypeOK, historyVars
    <3> QED BY <1>1, <1>2, <3>1, <3>2, Before, RemappedPage DEF StepOK
  <2> QED BY <2>1, <2>2
<1>4. vma' \in [Areas -> Vma]
  BY <1>1, <1>2 DEF TypeOK
<1>5. page' = [q \in Pages |-> page'[q]]
  BY <1>1 DEF TypeOK
<1> QED BY <1>1, <1>3, <1>4, <1>5, StepsKeep DEF TypeOK, historyVars

\* munmap(): the hook saves what it can before the pages go.
LEMMA MunmapKeeps ==
  ASSUME TypeOK, Inv, NEW a \in Areas, Munmap(a)
  PROVE  TypeOK' /\ Inv'
<1>1. PICK A \in SUBSET Uncopied(PagesOf(a)), T \in SUBSET NoPte(PagesOf(a)) :
        /\ page' = [p \in Pages |->
                    IF p \in PagesOf(a)
                    THEN munmap_page(page[p], ContextOf(p, vma, A, T, FALSE))
                    ELSE page[p]]
        /\ failed' = failed \cup (Uncopied(PagesOf(a)) \ A)
             \cup {p \in PagesOf(a) : /\ vma[a].kind = "file"
                                      /\ ~page[p].hashed \/ NonePte(page[p])}
  BY DEF Munmap
<1>2. /\ alive /\ vma' = [vma EXCEPT ![a] = NoVma]
      /\ UNCHANGED <<alive, dataVars, saved, covered>>
  BY DEF Munmap
<1>3. failed \subseteq failed' /\ failed' \subseteq Pages
  BY <1>1 DEF TypeOK, Uncopied, PagesOf
<1>4. ASSUME NEW q \in Pages PROVE StepOK(q)
  <2>1. CASE AreaOf[q] # a
    <3>1. page'[q] = page[q]
      BY <1>1, <2>1 DEF PagesOf
    <3> QED BY <1>2, <1>3, <2>1, <3>1, UntouchedStep, MemoryAssumption DEF TypeOK
  <2>2. CASE AreaOf[q] = a
    <3> DEFINE c == ContextOf(q, vma, A, T, FALSE)
    <3>1. q \in PagesOf(a) /\ page'[q] = munmap_page(page[q], c)
      <4>1. q \in PagesOf(a)
        BY <2>2 DEF PagesOf
      <4> QED BY <1>1, <4>1
    <3>2. c \in Context /\ (c.have <=> have_snapshot) /\ (c.alloc <=> q \in A)
      BY ContextFits DEF TypeOK
    <3> HIDE DEF c
    <3>3. vma'[AreaOf[q]] = NoVma
      BY <1>2, <2>2 DEF TypeOK
    <3>4. /\ page'[q] \in PageState /\ StructOK(page'[q]) /\ KernelOK(page'[q], NoVma)
          /\ FrameOK(page'[q], NoVma)
          /\ Copied(page'[q]) <=> Copied(page[q])
          /\ page'[q].hashed = page[q].hashed
          /\ /\ SavedOK(page[q], VmaOf(q), saved[q]) /\ c.have /\ CanCopy(page[q], c)
             /\ VmaOf(q).kind # "file" \/ Copied(page[q])
             => SavedOK(page'[q], NoVma, saved[q])
      BY <1>2, <3>1, <3>2, Before, munmap_page_Keeps
    <3>5. ASSUME q \in covered \ failed' PROVE SavedOK(page'[q], NoVma, saved[q])
      <4>1. SavedOK(page[q], VmaOf(q), saved[q]) /\ c.have
        BY <1>2, <1>3, <3>2, <3>5, Before
      <4>2. VmaOf(q).kind # "file" \/ Copied(page[q])
        BY <1>1, <2>2, <3>1, <3>5 DEF VmaOf, Copied
      <4>3. CanCopy(page[q], c)
        BY <1>1, <3>1, <3>2, <3>5, <4>1 DEF CanCopy, Uncopied
      <4> QED BY <3>4, <4>1, <4>2, <4>3
    <3> QED BY <3>3, <3>4, <3>5 DEF StepOK
  <2> QED BY <2>1, <2>2
<1>5. NoVma \in Vma
  BY DEF NoVma, Vma, Kinds
<1>6. vma' \in [Areas -> Vma]
  BY <1>2, <1>5 DEF TypeOK
<1>7. page' = [q \in Pages |-> page'[q]]
  BY <1>1
<1> QED BY <1>2, <1>3, <1>4, <1>6, <1>7, StepsKeep

\* mprotect() takes write permission away, or gives it to the mapping only.
LEMMA MprotectKeeps ==
  ASSUME TypeOK, Inv, NEW a \in Areas, NEW w \in BOOLEAN, Mprotect(a, w)
  PROVE  TypeOK' /\ Inv'
<1>1. /\ alive /\ vma[a].mapped
      /\ vma' = [vma EXCEPT ![a].w = w]
      /\ page' = [p \in Pages |->
                    IF p \in PagesOf(a) THEN mprotect_page(page[p], vma[a].kind, w) ELSE page[p]]
      /\ failed' = failed \cup
           {p \in PagesOf(a) : w /\ vma[a].kind = "shared" /\ Recordable(page[p])}
      /\ UNCHANGED <<alive, dataVars, saved, covered>>
  BY DEF Mprotect
<1>2. /\ vma'[a] \in Vma /\ (vma'[a].mapped <=> vma[a].mapped) /\ vma'[a].kind = vma[a].kind
      /\ vma' \in [Areas -> Vma]
  BY <1>1 DEF TypeOK, Vma
<1>3. ASSUME NEW q \in Pages PROVE StepOK(q)
  <2>1. CASE AreaOf[q] # a
    <3>1. page'[q] = page[q]
      BY <1>1, <2>1 DEF PagesOf
    <3> QED BY <1>1, <2>1, <3>1, UntouchedStep, MemoryAssumption DEF TypeOK
  <2>2. CASE AreaOf[q] = a
    <3>1. page'[q] = mprotect_page(page[q], vma[a].kind, w) /\ VmaOf(q) = vma[a]
      BY <1>1, <2>2 DEF PagesOf, VmaOf
    <3>2. /\ page[q] \in PageState /\ vma[a] \in Vma
          /\ StructOK(page[q]) /\ KernelOK(page[q], vma[a])
          /\ q \in covered \ failed => SavedOK(page[q], vma[a], saved[q])
          /\ q \notin failed => FrameOK(page[q], vma[a])
      BY <1>1, <3>1, Before
    <3>3. CASE w /\ vma[a].kind = "shared" /\ page[q].pte = "ro"
      <4>1. page'[q] = [page[q] EXCEPT !.pte = "rw"]
        BY <3>1, <3>3 DEF mprotect_page
      <4>2. Recordable(page[q]) => q \in failed'
        BY <1>1, <2>2, <3>3 DEF PagesOf
      <4>3. failed \subseteq failed'
        BY <1>1
      <4>4. /\ page'[q] \in PageState /\ StructOK(page'[q]) /\ KernelOK(page'[q], vma'[a])
            /\ FrameOK(page'[q], vma'[a])
            /\ Copied(page'[q]) <=> Copied(page[q])
            /\ page'[q].hashed = page[q].hashed
            /\ SavedOK(page[q], vma[a], saved[q]) /\ ~Recordable(page[q])
                 => SavedOK(page'[q], vma'[a], saved[q])
        <5>1. vma[a].mapped /\ vma'[a].mapped /\ vma'[a].kind = "shared"
          BY <1>1, <1>2, <3>3
        <5> QED BY <1>2, <3>2, <3>3, <4>1, <5>1, unprotect_Keeps
      <4> QED BY <2>2, <3>2, <4>2, <4>3, <4>4 DEF StepOK
    <3>4. CASE ~(w /\ vma[a].kind = "shared" /\ page[q].pte = "ro")
      <4>1. page'[q] = page[q] \/ page'[q] = wrprotect(page[q])
        BY <3>1, <3>4 DEF mprotect_page
      <4>2. /\ page'[q] \in PageState /\ StructOK(page'[q]) /\ KernelOK(page'[q], vma'[a])
            /\ Copied(page'[q]) <=> Copied(page[q])
            /\ page'[q].hashed = page[q].hashed
            /\ SavedOK(page[q], vma[a], saved[q]) => SavedOK(page'[q], vma'[a], saved[q])
            /\ FrameOK(page[q], vma[a]) => FrameOK(page'[q], vma'[a])
        <5>1. vma[a].mapped
          BY <1>1
        <5> QED BY <1>2, <3>2, <4>1, <5>1, wrprotect_Keeps
      <4>3. failed \subseteq failed'
        BY <1>1
      <4> QED BY <2>2, <3>1, <3>2, <4>2, <4>3 DEF StepOK
    <3> QED BY <3>3, <3>4
  <2> QED BY <2>1, <2>2
<1>4. page' = [q \in Pages |-> page'[q]]
  BY <1>1
<1>5. failed \subseteq failed' /\ failed' \subseteq Pages
  BY <1>1 DEF TypeOK, PagesOf
<1> QED BY <1>1, <1>2, <1>3, <1>4, <1>5, StepsKeep

\* exclude and include only touch their lists.
LEMMA VmrangeKeeps ==
  ASSUME TypeOK, Inv,
         (\E r \in ExcludeRanges : exclude_vmrange(r)) \/ (\E r \in IncludeRanges : include_vmrange(r))
  PROVE  TypeOK' /\ Inv'
<1>1. /\ UNCHANGED <<programVars, status, config, all_vmas, anon_private,
                     snapshotted_vmas, historyVars>>
      /\ has_data' = TRUE /\ allowlist' \subseteq Pages /\ blocklist' \subseteq Pages
  BY MemoryAssumption DEF exclude_vmrange, include_vmrange, TypeOK
<1>2. TypeOK'
  BY <1>1 DEF TypeOK, programVars, historyVars
<1>3. /\ \A q \in Pages : VmaOf(q)' = VmaOf(q)
      /\ have_snapshot' = have_snapshot /\ had_snapshot' = had_snapshot
      /\ saved' = saved /\ covered' = covered /\ failed' = failed /\ page' = page
      /\ alive' = alive /\ snapshotted_vmas' = snapshotted_vmas
  BY <1>1 DEF programVars, historyVars, VmaOf, have_snapshot, had_snapshot
<1>4. ASSUME NEW q \in Pages PROVE PageInv(q)'
  BY <1>3 DEF Inv, PageInv
<1> QED BY <1>1, <1>2, <1>3, <1>4 DEF Inv

-----------------------------------------------------------------------------
(* Taking, dropping and restoring the snapshot. *)

\* take_snapshot puts every page it covers in its case.
LEMMA TakeKeeps ==
  ASSUME TypeOK, Inv, NEW cfg \in Configs, take_snapshot(cfg)
  PROVE  TypeOK' /\ Inv'
<1> DEFINE walkedTo(n) == {p \in Pages : /\ Snapshottable(cfg, AreaOf[p]) /\ Selected(cfg, p)
                                         /\ PageTurn[p] < n}
<1>0. PICK n \in 0 .. End :
        /\ all_vmas' = {a \in Areas : vma[a].mapped /\ VmaTurn[a] < n}
        /\ anon_private' = {a \in Areas : vma[a].mapped /\ vma[a].kind = "anon" /\ VmaTurn[a] < n}
        /\ snapshotted_vmas' = {a \in Areas : Snapshottable(cfg, a) /\ VmaTurn[a] < n}
        /\ \E T \in SUBSET NoPte(walkedTo(n)) :
             page' = [p \in Pages |->
                        IF p \in walkedTo(n) /\ (page[p].pte # "none" \/ p \in T)
                        THEN make_snapshot_page(page[p]) ELSE page[p]]
        /\ covered' = {p \in walkedTo(n) : VmaOf(p).kind # "shared" \/ page[p].pte # "none"}
        /\ saved' = [p \in Pages |-> IF p \in walkedTo(n) THEN page[p].mem ELSE Junk]
  BY DEF take_snapshot
<1> DEFINE walked == walkedTo(n)
<1>1. PICK T \in SUBSET NoPte(walked) :
        page' = [p \in Pages |->
                   IF p \in walked /\ (page[p].pte # "none" \/ p \in T)
                   THEN make_snapshot_page(page[p]) ELSE page[p]]
  BY <1>0
<1>2. /\ alive /\ ~have_snapshot
      /\ has_data' = TRUE /\ status' = {"MADE", "HAD"} /\ config' = cfg
      /\ UNCHANGED <<alive, vma, allowlist, blocklist, failed>>
      /\ covered' = {p \in walked : VmaOf(p).kind # "shared" \/ page[p].pte # "none"}
      /\ saved' = [p \in Pages |-> IF p \in walked THEN page[p].mem ELSE Junk]
  BY <1>0 DEF take_snapshot
<1>3. ASSUME NEW q \in Pages
      PROVE  /\ page'[q] \in PageState /\ StructOK(page'[q]) /\ KernelOK(page'[q], VmaOf(q))
             /\ Copied(page'[q]) => q \in covered'
             /\ q \in covered' \ failed => SavedOK(page'[q], VmaOf(q), saved'[q])
             /\ q \notin failed => FrameOK(page'[q], VmaOf(q))
             /\ page'[q].hashed => q \in walked
  <2>1. /\ page[q] \in PageState /\ VmaOf(q) \in Vma /\ ~page[q].hashed
        /\ StructOK(page[q]) /\ KernelOK(page[q], VmaOf(q))
        /\ q \notin failed => FrameOK(page[q], VmaOf(q))
    BY <1>2, Before
  <2>2. q \in walked => VmaOf(q).mapped /\ saved'[q] = page[q].mem
    BY <1>2 DEF Snapshottable, VmaOf
  <2>3. q \in covered' <=> q \in walked /\ (VmaOf(q).kind # "shared" \/ page[q].pte # "none")
    BY <1>2
  <2> HIDE DEF walked
  <2>4. CASE q \in walked /\ (page[q].pte # "none" \/ q \in T)
    <3>1. page'[q] = make_snapshot_page(page[q])
      BY <1>1, <2>4
    <3>2. /\ page'[q] \in PageState /\ StructOK(page'[q])
          /\ KernelOK(page'[q], VmaOf(q)) /\ FrameOK(page'[q], VmaOf(q))
          /\ Copied(page'[q]) <=> page[q].pte # "none"
          /\ /\ FrameOK(page[q], VmaOf(q))
             /\ VmaOf(q).kind # "shared" \/ page[q].pte # "none"
             => SavedOK(page'[q], VmaOf(q), page[q].mem)
      BY <2>1, <2>2, <2>4, <3>1, make_snapshot_page_Keeps
    <3> QED BY <2>1, <2>2, <2>3, <2>4, <3>2
  <2>5. CASE ~(q \in walked /\ (page[q].pte # "none" \/ q \in T))
    <3>1. page'[q] = page[q] /\ ~Copied(page[q])
      BY <1>1, <2>1, <2>5 DEF Copied
    <3>2. ASSUME q \in covered' PROVE SavedOK(page[q], VmaOf(q), saved'[q])
      <4>1. page[q].pte = "none" /\ VmaOf(q).kind # "shared" /\ saved'[q] = page[q].mem
        BY <2>2, <2>3, <2>5, <3>2
      <4>2. ZapOK(page[q], VmaOf(q), saved'[q])
        BY <2>1, <4>1 DEF ZapOK, KernelOK
      <4> QED BY <3>1, <4>2, SavedOK_Cases
    <3> QED BY <2>1, <3>1, <3>2
  <2> QED BY <2>4, <2>5
<1>4. TypeOK'
  <2>1. page' \in [Pages -> PageState]
    BY <1>1, <1>3
  <2>2. saved' \in [Pages -> Data]
    <3>1. \A p \in Pages : page[p].mem \in Data /\ Junk \in Data
      BY DEF TypeOK, PageState, Data
    <3> QED BY <1>2, <3>1
  <2>3. /\ snapshotted_vmas' \subseteq all_vmas' /\ anon_private' \subseteq all_vmas'
        /\ all_vmas' \subseteq Areas /\ covered' \subseteq Pages
    BY <1>0 DEF Snapshottable
  <2> QED BY <1>2, <2>1, <2>2, <2>3, MemoryAssumption DEF TypeOK
<1>5. have_snapshot' /\ had_snapshot'
  BY <1>2 DEF have_snapshot, had_snapshot
<1>6. ASSUME NEW q \in Pages PROVE PageInv(q)'
  <2>1. VmaOf(q)' = VmaOf(q)
    BY <1>2 DEF VmaOf
  <2>2. q \in walked => AreaOf[q] \in snapshotted_vmas'
    <3>1. /\ AreaOf[q] \in Areas /\ VmaTurn[AreaOf[q]] \in Int /\ PageTurn[q] \in Int
          /\ VmaTurn[AreaOf[q]] < PageTurn[q] /\ n \in Int
      BY MemoryAssumption
    <3> QED BY <1>0, <3>1
  <2>3. q \in covered' => q \in walked
    BY <1>2
  <2> HIDE DEF walked
  <2> QED BY <1>2, <1>3, <1>5, <2>1, <2>2, <2>3 DEF PageInv
<1> QED BY <1>2, <1>4, <1>5, <1>6 DEF Inv

\* clean_snapshot leaves no struct behind.
LEMMA CleanKeeps ==
  ASSUME TypeOK, Inv, alive, clean_snapshot,
         \/ UNCHANGED <<alive, vma>>
         \/ alive' = FALSE /\ vma' = [a \in Areas |-> NoVma]
  PROVE  TypeOK' /\ Inv'
<1>1. /\ page' = [p \in Pages |-> forget_page(page[p])]
      /\ has_data' = FALSE /\ status' = {} /\ config' = {}
      /\ allowlist' = {} /\ blocklist' = {}
      /\ all_vmas' = {} /\ anon_private' = {} /\ snapshotted_vmas' = {}
      /\ saved' = [p \in Pages |-> Junk]
      /\ covered' = {} /\ failed' = failed
  BY DEF clean_snapshot
<1>2. ASSUME NEW q \in Pages
      PROVE  /\ page'[q] \in PageState /\ StructOK(page'[q]) /\ ~page'[q].hashed
             /\ KernelOK(page'[q], VmaOf(q))
             /\ q \notin failed => FrameOK(page'[q], VmaOf(q))
  BY <1>1, Before, forget_page_Keeps
<1>3. NoVma \in Vma /\ Junk \in Data
  BY DEF NoVma, Vma, Kinds, Data
<1>4. TypeOK'
  <2>1. page' \in [Pages -> PageState]
    BY <1>1, <1>2
  <2>2. vma' \in [Areas -> Vma] /\ alive' \in BOOLEAN
    BY <1>3 DEF TypeOK
  <2> QED BY <1>1, <1>3, <2>1, <2>2 DEF TypeOK
<1>5. ASSUME NEW q \in Pages PROVE PageInv(q)'
  <2>1. /\ alive' => VmaOf(q)' = VmaOf(q)
        /\ VmaOf(q)' = VmaOf(q) \/ VmaOf(q)' = NoVma
    BY MemoryAssumption DEF VmaOf
  <2>2. q \notin failed => FrameOK(page'[q], VmaOf(q)')
    BY <1>2, <2>1 DEF FrameOK, NoVma
  <2>3. ~Copied(page'[q])
    BY <1>2 DEF Copied
  <2> QED BY <1>1, <1>2, <2>1, <2>2, <2>3 DEF PageInv
<1>6. ~have_snapshot' /\ ~had_snapshot'
  BY <1>1 DEF have_snapshot, had_snapshot
<1> QED BY <1>1, <1>4, <1>5, <1>6 DEF Inv

\* The process goes away; so does its snapshot, if it ever had one.
LEMMA ExitKeeps ==
  ASSUME TypeOK, Inv, process_exit
  PROVE  TypeOK' /\ Inv'
<1>1. alive /\ alive' = FALSE /\ vma' = [a \in Areas |-> NoVma]
  BY DEF process_exit
<1>2. CASE has_data /\ had_snapshot
  BY <1>1, <1>2, CleanKeeps DEF process_exit
<1>3. CASE ~(has_data /\ had_snapshot) /\ UNCHANGED <<page, dataVars, historyVars>>
  <2>1. NoVma \in Vma
    BY DEF NoVma, Vma, Kinds
  <2>2. TypeOK'
    BY <1>1, <1>3, <2>1 DEF TypeOK, dataVars, historyVars
  <2>3. ~had_snapshot /\ ~have_snapshot /\ covered = {}
    BY <1>3 DEF Inv
  <2>4. /\ page' = page /\ covered' = covered /\ failed' = failed
        /\ ~had_snapshot' /\ ~have_snapshot'
    BY <1>3, <2>3 DEF dataVars, historyVars, have_snapshot, had_snapshot
  <2>5. ASSUME NEW q \in Pages PROVE PageInv(q)'
    <3>1. StructOK(page[q]) /\ ~page[q].hashed /\ ~Copied(page[q])
      BY <2>3 DEF Inv, PageInv, Copied
    <3>2. FrameOK(page[q], VmaOf(q)')
      BY <1>1, MemoryAssumption DEF FrameOK, VmaOf, NoVma
    <3> QED BY <1>1, <2>3, <2>4, <3>1, <3>2 DEF PageInv
  <2> QED BY <2>2, <2>3, <2>4, <2>5 DEF Inv
<1> QED BY <1>2, <1>3 DEF process_exit

\* What restore_vmas does to the area of a page: nothing, or it unmaps an area
\* the snapshot does not know, or it maps one back.
LEMMA RestoredVmaCases ==
  ASSUME TypeOK, NEW a \in Areas, NEW n
  PROVE  /\ RestoredVma(a, n) \in Vma
         /\ \/ RestoredVma(a, n) = vma[a]
            \/ vma[a].mapped /\ a \notin all_vmas /\ RestoredVma(a, n) = NoVma
            \/ ~vma[a].mapped /\ RestoredVma(a, n).mapped /\ RestoredVma(a, n).kind = "anon"
BY DEF RestoredVma, ToUnmap, ToMap, TypeOK, Vma, NoVma, Kinds

\* A page after restore_vmas, before the loop over the dirty pages.
LEMMA Revmaed_Keeps ==
  ASSUME TypeOK, Inv, alive, NEW q \in Pages, NEW n, NEW T, NEW copy \in BOOLEAN,
         NEW v, v = RestoredVmas(n)[AreaOf[q]], NEW g, g = Revmaed(q, n, T, copy)
  PROVE  /\ v \in Vma /\ g \in PageState /\ StructOK(g) /\ KernelOK(g, v)
         /\ Copied(g) <=> Copied(page[q])
         /\ g.hashed = page[q].hashed
         /\ q \in covered \ failed => SavedOK(g, v, saved[q])
         /\ q \notin failed => FrameOK(g, v)
         /\ VmaOf(q).mapped /\ AreaOf[q] \in all_vmas => g = page[q]
<1> DEFINE c == ContextOf(q, vma, Pages, T, copy)
<1>1. /\ page[q] \in PageState /\ VmaOf(q) \in Vma /\ AreaOf[q] \in Areas
      /\ StructOK(page[q]) /\ KernelOK(page[q], VmaOf(q))
      /\ q \in covered \ failed => SavedOK(page[q], VmaOf(q), saved[q])
      /\ q \notin failed => FrameOK(page[q], VmaOf(q))
      /\ page[q].hashed \/ q \in covered => AreaOf[q] \in snapshotted_vmas
  BY Before
<1>2. /\ v \in Vma
      /\ \/ v = VmaOf(q)
         \/ VmaOf(q).mapped /\ AreaOf[q] \notin all_vmas /\ v = NoVma
         \/ ~VmaOf(q).mapped /\ v.mapped /\ v.kind = "anon"
  BY <1>1, RestoredVmaCases DEF VmaOf, RestoredVmas
<1>3. c \in Context
  BY ContextFits DEF TypeOK
<1>4. g = IF VmaOf(q).mapped /\ ~v.mapped THEN munmap_page(page[q], c) ELSE page[q]
  BY DEF Revmaed
<1> HIDE DEF c
<1>5. CASE v = VmaOf(q)
  BY <1>1, <1>2, <1>4, <1>5
<1>6. CASE VmaOf(q).mapped /\ AreaOf[q] \notin all_vmas /\ v = NoVma
  <2>1. q \notin covered
    BY <1>1, <1>6 DEF TypeOK
  <2>2. g = munmap_page(page[q], c)
    BY <1>4, <1>6 DEF NoVma
  <2> QED BY <1>1, <1>2, <1>3, <1>6, <2>1, <2>2, munmap_page_Keeps
<1>7. CASE ~VmaOf(q).mapped /\ v.mapped /\ v.kind = "anon"
  <2>1. VmaOf(q) = NoVma /\ g = page[q]
    BY <1>1, <1>4, <1>7 DEF KernelOK
  <2> QED BY <1>1, <1>2, <1>7, <2>1, RemappedPage
<1> QED BY <1>2, <1>5, <1>6, <1>7

\* What a restore makes of one page: its case is kept, its bytes are the saved
\* ones, and a page of a mapping the snapshot left out keeps its bytes.
LEMMA RestoredPage_Keeps ==
  ASSUME TypeOK, Inv, alive, NEW q \in Pages, NEW n, NEW T, NEW copy \in BOOLEAN,
         NEW v, v = RestoredVmas(n)[AreaOf[q]], NEW r, r = RestoredPage(q, n, T, copy)
  PROVE  /\ r \in PageState /\ StructOK(r) /\ KernelOK(r, v)
         /\ Copied(r) => Copied(page[q])
         /\ r.hashed = page[q].hashed
         /\ q \in covered \ (failed \cup Lost(n, T, copy)) => SavedOK(r, v, saved[q])
         /\ q \notin failed \cup Lost(n, T, copy) => FrameOK(r, v)
         /\ q \in covered \ (failed \cup Lost(n, T, copy)) /\ v.mapped => r.mem = saved[q]
         /\ AreaOf[q] \in all_vmas \ snapshotted_vmas /\ VmaOf(q).mapped
              => r.mem = page[q].mem
<1> DEFINE e == ContextOf(q, RestoredVmas(n), Pages, T, copy)
           g == Revmaed(q, n, T, copy)
           lost == failed \cup Lost(n, T, copy)
<1>1. RestoredVmas(n) \in [Areas -> Vma]
  BY RestoredVmaCases DEF RestoredVmas
<1>2. e \in Context /\ Fits(e, v)
  BY <1>1, ContextFits
<1>3. /\ r = IF g.listed THEN recover_page(g, e) ELSE g
      /\ q \notin lost /\ g.listed /\ g.dirty /\ g.has_been_copied => e.writable
  BY DEF RestoredPage, Lost, ContextOf
<1>4. failed \subseteq lost
  OBVIOUS
<1>5. /\ v \in Vma /\ g \in PageState /\ StructOK(g) /\ KernelOK(g, v)
      /\ Copied(g) <=> Copied(page[q])
      /\ g.hashed = page[q].hashed
      /\ q \in covered \ failed => SavedOK(g, v, saved[q])
      /\ q \notin failed => FrameOK(g, v)
      /\ VmaOf(q).mapped /\ AreaOf[q] \in all_vmas => g = page[q]
  BY Revmaed_Keeps
<1>6. page[q].hashed => AreaOf[q] \in snapshotted_vmas
  BY Before
<1> SUFFICES /\ r \in PageState /\ StructOK(r) /\ KernelOK(r, v)
             /\ Copied(r) => Copied(page[q])
             /\ r.hashed = page[q].hashed
             /\ q \in covered \ lost => SavedOK(r, v, saved[q])
             /\ q \notin lost => FrameOK(r, v)
             /\ q \in covered \ lost /\ v.mapped => r.mem = saved[q]
             /\ AreaOf[q] \in all_vmas \ snapshotted_vmas /\ VmaOf(q).mapped
                  => r.mem = page[q].mem
  OBVIOUS
<1> HIDE DEF e, g, lost
<1>7. CASE ~g.listed
  <2>1. r = g
    BY <1>3, <1>7
  <2>2. SavedOK(g, v, saved[q]) => g.mem = saved[q]
    BY <1>7, SavedOK_Cases DEF CopyOK, ZapOK
  <2> QED BY <1>4, <1>5, <2>1, <2>2
<1>8. CASE g.listed
  <2>1. r = recover_page(g, e) /\ page[q].hashed
    BY <1>3, <1>5, <1>8 DEF StructOK
  <2>2. CASE g.dirty /\ g.has_been_copied
    <3>1. /\ r \in PageState /\ StructOK(r) /\ KernelOK(r, v)
          /\ Copied(r) /\ Copied(g)
          /\ r.hashed = g.hashed
          /\ SavedOK(g, v, saved[q]) /\ FrameOK(g, v) /\ e.writable
               => r.mem = saved[q] /\ SavedOK(r, v, saved[q])
          /\ FrameOK(r, v)
      <4>1. /\ g \in PageState /\ e \in Context /\ v \in Vma /\ Fits(e, v)
            /\ StructOK(g) /\ KernelOK(g, v) /\ r = recover_page(g, e)
        BY <1>2, <1>5, <2>1
      <4> QED BY <1>8, <2>2, <4>1, recover_copied_Keeps
    <3> QED BY <1>3, <1>4, <1>5, <1>6, <1>8, <2>1, <2>2, <3>1
  <2>3. CASE ~(g.dirty /\ g.has_been_copied)
    <3>1. /\ r \in PageState /\ StructOK(r) /\ KernelOK(r, v)
          /\ Copied(r) <=> Copied(g)
          /\ r.hashed = g.hashed
          /\ SavedOK(g, v, saved[q])
               => SavedOK(r, v, saved[q]) /\ (v.mapped => r.mem = saved[q])
          /\ FrameOK(g, v) => FrameOK(r, v)
      <4>1. /\ g \in PageState /\ e \in Context /\ v \in Vma /\ Fits(e, v)
            /\ StructOK(g) /\ KernelOK(g, v) /\ r = recover_page(g, e)
        BY <1>2, <1>5, <2>1
      <4> QED BY <2>3, <4>1, recover_other_Keeps
    <3> QED BY <1>4, <1>5, <1>6, <2>1, <3>1
  <2> QED BY <2>2, <2>3
<1> QED BY <1>7, <1>8

\* A restore, by ioctl or by exit_group, keeps the invariant.
LEMMA RestoreKeeps ==
  ASSUME TypeOK, Inv, Restore
  PROVE  TypeOK' /\ Inv'
<1>1. alive /\ have_snapshot /\ restore_snapshot
  BY DEF Restore, recover_snapshot, exit_restores
<1>2. CASE restore_completes
  <2>1. PICK n \in MapStops, T \in SUBSET NoPte(Pages), copy \in BOOLEAN :
          /\ vma' = RestoredVmas(n)
          /\ page' = [p \in Pages |-> RestoredPage(p, n, T, copy)]
          /\ failed' = failed \cup Lost(n, T, copy)
          /\ UNCHANGED <<alive, dataVars, saved, covered>>
    BY <1>2 DEF restore_completes
  <2>2. ASSUME NEW q \in Pages PROVE StepOK(q)
    BY <1>1, <2>1, RestoredPage_Keeps DEF StepOK
  <2>3. failed \subseteq failed' /\ failed' \subseteq Pages
    BY <2>1 DEF TypeOK, Lost
  <2>4. vma' \in [Areas -> Vma]
    BY <2>1, RestoredVmaCases DEF RestoredVmas
  <2> QED BY <1>1, <2>1, <2>2, <2>3, <2>4, StepsKeep
<1>3. CASE restore_gives_up
  <2>1. PICK a \in ToUnmap, T \in SUBSET NoPte(Pages), copy \in BOOLEAN :
          /\ vma' = RestoredVmas(VmaTurn[a])
          /\ page' = [p \in Pages |-> Revmaed(p, VmaTurn[a], T, copy)]
          /\ UNCHANGED <<alive, dataVars, historyVars>>
    BY <1>3 DEF restore_gives_up
  <2>2. UNCHANGED <<alive, dataVars, saved, covered>> /\ failed' = failed
    BY <2>1 DEF historyVars
  <2>3. ASSUME NEW q \in Pages PROVE StepOK(q)
    BY <1>1, <2>1, <2>2, Revmaed_Keeps DEF StepOK
  <2>4. vma' \in [Areas -> Vma]
    BY <2>1, RestoredVmaCases DEF RestoredVmas
  <2> QED BY <1>1, <2>1, <2>2, <2>3, <2>4, StepsKeep DEF TypeOK
<1> QED BY <1>1, <1>2, <1>3 DEF restore_snapshot

-----------------------------------------------------------------------------
(* The theorems. *)

\* Every step keeps the invariant.
THEOREM NextKeepsInv == TypeOK /\ Inv /\ [Next]_vars => TypeOK' /\ Inv'
<1> SUFFICES ASSUME TypeOK, Inv, [Next]_vars PROVE TypeOK' /\ Inv'
  OBVIOUS
<1>1. CASE Program
  BY <1>1, LoadKeeps, StoreKeeps, ForkKeeps, MmapKeeps, MunmapKeeps, MprotectKeeps DEF Program
<1>2. CASE Ioctl
  <2>1. CASE ioctl_clean
    BY <2>1, CleanKeeps DEF ioctl_clean
  <2> QED BY <1>2, <2>1, VmrangeKeeps, TakeKeeps, RestoreKeeps DEF Ioctl, Restore
<1>3. CASE exit_restores
  BY <1>3, RestoreKeeps DEF Restore
<1>4. CASE null_dereference \/ process_exit
  BY <1>4, ExitKeeps DEF null_dereference
<1>5. CASE UNCHANGED vars
  <2>1. /\ programVars' = programVars /\ dataVars' = dataVars /\ historyVars' = historyVars
    BY <1>5 DEF vars
  <2>2. TypeOK'
    BY <2>1 DEF programVars, dataVars, historyVars, TypeOK
  <2>3. /\ \A q \in Pages : VmaOf(q)' = VmaOf(q)
        /\ have_snapshot' = have_snapshot /\ had_snapshot' = had_snapshot
    BY <2>1 DEF programVars, dataVars, VmaOf, have_snapshot, had_snapshot
  <2>4. \A q \in Pages : PageInv(q)'
    BY <2>1, <2>3 DEF programVars, dataVars, historyVars, Inv, PageInv
  <2> QED BY <2>1, <2>2, <2>3, <2>4 DEF programVars, dataVars, historyVars, Inv
<1> QED BY <1>1, <1>2, <1>3, <1>4, <1>5 DEF Next

\* Through every sequence of faults, mappings, ioctls and exits, the state has
\* its type: snapshotted_vmas and the anonymous ones stay within all_vmas, and
\* both die with it (memory.c:740-771).
THEOREM TypeCorrect == Spec => []TypeOK
<1>1. Spec => [](TypeOK /\ Inv)
  BY InitInv, NextKeepsInv, PTL DEF Spec
<1> QED BY <1>1, PTL

\* Every page of the snapshot is, always, unchanged and write protected, or
\* queued with what its recovery needs (memory.c:773-935).
THEOREM InvHolds == Spec => []Inv
<1>1. Spec => [](TypeOK /\ Inv)
  BY InitInv, NextKeepsInv, PTL DEF Spec
<1> QED BY <1>1, PTL

\* A covered page that shows something else than at the snapshot is queued with
\* the means to undo it (memory.c:773-935).
THEOREM AlwaysRecoverable == Spec => []Recoverable
<1>1. TypeOK /\ Inv => Recoverable
  <2> SUFFICES ASSUME TypeOK, Inv, NEW p \in covered \ failed,
                      VmaOf(p).mapped, page[p].mem # saved[p]
               PROVE  /\ page[p].listed
                      /\ \/ /\ page[p].dirty /\ page[p].has_been_copied
                            /\ page[p].page_data = saved[p]
                         \/ /\ NonePte(page[p]) /\ page[p].has_had_pte
                            /\ saved[p] = Backing(VmaOf(p).kind)
    BY DEF Recoverable
  <2>1. p \in Pages
    BY DEF TypeOK
  <2>2. SavedOK(page[p], VmaOf(p), saved[p]) /\ StructOK(page[p])
    BY <2>1 DEF Inv, PageInv
  <2>3. CASE Copied(page[p])
    BY <2>2, <2>3, SavedOK_Cases DEF CopyOK
  <2>4. CASE ~Copied(page[p])
    BY <2>2, <2>4, SavedOK_Cases DEF ZapOK, StructOK, Copied
  <2> QED BY <2>3, <2>4
<1> QED BY <1>1, TypeCorrect, InvHolds, PTL

\* in_dirty_list mirrors membership in dirty_pages (memory.c:733-734, 790-797).
THEOREM DirtyListInSync == Spec => []DirtyListSync
<1>1. Inv => DirtyListSync
  BY DEF Inv, PageInv, StructOK, DirtyListSync
<1> QED BY <1>1, InvHolds, PTL

\* do_wp_page_hook never makes a frame writable in place that is not the
\* process's own (memory.c:855-868).
THEOREM OwnFrames == Spec => []OwnFrame
<1>1. Inv => OwnFrame
  BY DEF Inv, PageInv, OwnFrame
<1> QED BY <1>1, InvHolds, PTL

\* A restore gives every covered page its bytes back (memory.c:675-738).
THEOREM RestoresAreExact == Spec => []RestoreExact
<1>1. TypeOK /\ Inv => RestoreExact
  <2> SUFFICES ASSUME TypeOK, Inv, alive, have_snapshot,
                      NEW n \in MapStops, NEW T \in SUBSET NoPte(Pages), NEW copy \in BOOLEAN,
                      NEW p \in covered \ (failed \cup Lost(n, T, copy)),
                      RestoredVmas(n)[AreaOf[p]].mapped
               PROVE  RestoredPage(p, n, T, copy).mem = saved[p]
    BY DEF RestoreExact
  <2>1. p \in Pages
    BY DEF TypeOK
  <2> QED BY <2>1, RestoredPage_Keeps
<1> QED BY <1>1, TypeCorrect, InvHolds, PTL

\* A restore leaves the mappings outside the snapshot alone (memory.c:476-493,
\* 903-909).
THEOREM RestoresStayInside == Spec => OutsideUntouched
<1>1. TypeOK /\ Inv /\ [Next]_vars =>
        [Restore => \A p \in Pages :
                      AreaOf[p] \in all_vmas \ snapshotted_vmas /\ VmaOf(p).mapped
                        => page'[p].mem = page[p].mem]_vars
  <2> SUFFICES ASSUME TypeOK, Inv, Restore, NEW p \in Pages,
                      AreaOf[p] \in all_vmas \ snapshotted_vmas, VmaOf(p).mapped
               PROVE  page'[p].mem = page[p].mem
    OBVIOUS
  <2>1. alive /\ restore_snapshot
    BY DEF Restore, recover_snapshot, exit_restores
  <2>2. CASE restore_completes
    <3>1. PICK n \in MapStops, T \in SUBSET NoPte(Pages), copy \in BOOLEAN :
            page' = [q \in Pages |-> RestoredPage(q, n, T, copy)]
      BY <2>2 DEF restore_completes
    <3> QED BY <2>1, <3>1, RestoredPage_Keeps
  <2>3. CASE restore_gives_up
    <3>1. PICK a \in ToUnmap, T \in SUBSET NoPte(Pages), copy \in BOOLEAN :
            page' = [q \in Pages |-> Revmaed(q, VmaTurn[a], T, copy)]
      BY <2>3 DEF restore_gives_up
    <3> QED BY <2>1, <3>1, Revmaed_Keeps
  <2> QED BY <2>1, <2>2, <2>3 DEF restore_snapshot
<1>2. Spec => [](TypeOK /\ Inv)
  BY TypeCorrect, InvHolds, PTL
<1> QED BY <1>1, <1>2, PTL DEF Spec, OutsideUntouched
=============================================================================
