---------------------------- MODULE PagingProofs ----------------------------
(***************************************************************************)
(* The page tables, for tables of any size and any number of them, any     *)
(* frames, modules and requests of the heap.                               *)
(***************************************************************************)
EXTENDS Paging, FiniteSetTheorems, WellFoundedInduction, TLAPS

Present(t) == PAGE_DIRECTORY[t].present

TableFrames == {PAGE_DIRECTORY[t].frame : t \in {u \in Tables : Present(u)}}

LEMMA LeastElement ==
  ASSUME NEW T, T \subseteq Nat, T # {}
  PROVE  Min(T) \in T /\ \A n \in T : Min(T) <= n
<1> DEFINE R == {pair \in Nat \X Nat : pair[1] < pair[2]}
<1>1. IsWellFoundedOn(R, Nat)
  BY NatLessThanWellFounded, Zenon DEF OpToRel
<1>2. \A m, n \in Nat : n < m => <<n, m>> \in R
  OBVIOUS
<1> HIDE DEF R
<1>3. PICK m \in T : \A n \in T : ~ (<<n, m>> \in R)
  BY <1>1, WFMin
<1>4. \A n \in T : m \in Nat /\ n \in Nat /\ ~ (n < m)
  BY <1>2, <1>3
<1>5. \E x \in T : \A n \in T : x <= n
  BY <1>4
<1> QED
  BY <1>5 DEF Min

LEMMA Sizes ==
  /\ Slots \in Nat /\ Slots > 0 /\ NumTables \in Nat /\ NumTables > 0
  /\ Frames \subseteq Nat /\ 0 \notin Pool /\ BootTable \notin Frames
  /\ PmmFrame \notin Frames /\ PmmFrame # BootTable
  /\ PmmFrame \in Nat /\ BootTable \in Nat
  BY PagingAssumption DEF Pool

\* A page is given by its table and its place in it.
LEMMA PageParts ==
  ASSUME NEW p \in Pages
  PROVE  /\ TableOf(p) \in Tables /\ Index(p) \in 0 .. Slots - 1
         /\ p = Slots * TableOf(p) + Index(p)
<1> DEFINE t == p \div Slots
           i == p % Slots
<1>1. Slots \in Nat /\ Slots > 0 /\ NumTables \in Nat /\ p \in Nat
  BY Sizes DEF Pages
<1>2. p < NumTables * Slots
  BY Sizes DEF Pages
<1>3. t \in Int /\ t >= 0 /\ i \in 0 .. Slots - 1 /\ p = Slots * t + i
  BY <1>1
<1> HIDE DEF t, i
<1>4. t < NumTables
  <2> SUFFICES ASSUME t >= NumTables PROVE FALSE
    BY <1>1, <1>3
  <2>1. Slots * t >= Slots * NumTables
    BY <1>1, <1>3
  <2> QED
    BY <1>1, <1>2, <1>3, <2>1
<1>5. t \in Tables
  BY <1>1, <1>3, <1>4 DEF Tables
<1>6. t = TableOf(p) /\ i = Index(p)
  BY DEF t, i, TableOf, Index
<1> QED
  BY <1>3, <1>5, <1>6

LEMMA SamePlace ==
  ASSUME NEW p \in Pages, NEW q \in Pages, TableOf(p) = TableOf(q), Index(p) = Index(q)
  PROVE  p = q
  BY PageParts

-----------------------------------------------------------------------------
(* What one call of smap_page or sumap_page does, seen through PageEntry.  *)

TablesOK ==
    /\ PAGE_DIRECTORY \in [Tables -> Entries]
    /\ DOMAIN page_tables = TableFrames
    /\ \A f \in TableFrames : page_tables[f] \in [0 .. Slots - 1 -> Entries]
    /\ \A t, u \in Tables :
          /\ Present(t) /\ Present(u)
          /\ PAGE_DIRECTORY[t].frame = PAGE_DIRECTORY[u].frame
          => t = u
    /\ TableFrames \subseteq taken \cup {BootTable}
    /\ taken \subseteq Frames /\ dropped \subseteq taken
    /\ pmm_inited \in BOOLEAN

LEMMA EntryIsEntry ==
  ASSUME TablesOK, NEW p \in Pages
  PROVE  PageEntry(p) \in Entries
<1>1. CASE Present(TableOf(p))
  <2>1. PAGE_DIRECTORY[TableOf(p)].frame \in TableFrames
    BY <1>1, PageParts DEF TableFrames
  <2> QED
    BY <1>1, <2>1, PageParts DEF TablesOK, PageEntry, Present
<1>2. CASE ~ Present(TableOf(p))
  BY <1>2 DEF PageEntry, Present, Absent, Entries
<1> QED
  BY <1>1, <1>2

LEMMA EntryFields ==
  ASSUME NEW f \in Nat, NEW u \in BOOLEAN, NEW w \in BOOLEAN
  PROVE  /\ Entry(f, u, w) \in Entries /\ Entry(f, u, w).present
         /\ Entry(f, u, w).frame = f /\ Entry(f, u, w).user = u /\ Entry(f, u, w).rw = w
  BY DEF Entry, Entries

AllFlags == [user : BOOLEAN, rw : BOOLEAN, remap : BOOLEAN]

\* The directory entry of a page that smap_page has mapped.
DirEntry(page, flags, got) ==
    IF Present(TableOf(page)) THEN PAGE_DIRECTORY[TableOf(page)]
    ELSE NewDirEntry(page, flags, got)

LEMMA SmapEffect ==
  ASSUME TablesOK, NEW page \in Pages, NEW entry \in Entries, NEW flags \in AllFlags,
         NEW got, taken \subseteq got, got \subseteq Frames,
         pmm_inited => pmalloc(got) \in Frames \ got,
         ~ pmm_inited => \A t \in Tables : Present(t) => t = TableOf(page),
         smap_page(page, entry, flags, got), ~ Refuses(page, flags),
         pmm_inited' \in BOOLEAN
  PROVE  /\ TablesOK'
         /\ DirEntry(page, flags, got) \in Entries /\ DirEntry(page, flags, got).present
         /\ PAGE_DIRECTORY' = [PAGE_DIRECTORY EXCEPT
                                 ![TableOf(page)] = DirEntry(page, flags, got)]
         /\ taken' = got \cup ({DirEntry(page, flags, got).frame} \cap Frames)
         /\ TableFrames' = TableFrames \cup {DirEntry(page, flags, got).frame}
         /\ \A q \in Pages : PageEntry(q)' = IF q = page THEN entry ELSE PageEntry(q)
         /\ tlb' = flush_tlb(page) /\ dropped' = dropped
<1> DEFINE t0 == TableOf(page)
           i0 == Index(page)
           fresh == ~ Present(t0)
           dir == IF fresh THEN NewDirEntry(page, flags, got) ELSE PAGE_DIRECTORY[t0]
           table == IF fresh THEN EmptyTable ELSE page_tables[dir.frame]
           new == [table EXCEPT ![i0] = entry]
<1>1. /\ PAGE_DIRECTORY' = [PAGE_DIRECTORY EXCEPT ![t0] = dir]
      /\ page_tables' = Updated(page_tables, dir.frame, new)
      /\ taken' = got \cup ({dir.frame} \cap Frames)
      /\ tlb' = flush_tlb(page)
      /\ UNCHANGED dropped
  BY DEF smap_page, Present
<1>2. t0 \in Tables /\ i0 \in 0 .. Slots - 1
  BY PageParts
<1>3. /\ dir \in Entries /\ dir.present
      /\ fresh => dir.frame \notin TableFrames /\ dir.frame \in (Frames \ got) \cup {BootTable}
      /\ ~ fresh => dir.frame \in TableFrames
  <2>1. CASE fresh /\ pmm_inited
    <3>1. dir = Entry(pmalloc(got), TableOf(page) < KernelTable, TRUE)
      BY <2>1 DEF NewDirEntry
    <3>2. pmalloc(got) \in Nat /\ pmalloc(got) \notin got
      BY <2>1, Sizes
    <3>3. dir \in Entries /\ dir.present /\ dir.frame = pmalloc(got)
      <4>1. (TableOf(page) < KernelTable) \in BOOLEAN
        OBVIOUS
      <4> HIDE DEF dir
      <4> QED
        BY <3>1, <3>2, <4>1, EntryFields
    <3>4. pmalloc(got) \notin taken \cup {BootTable}
      BY <2>1, Sizes
    <3> HIDE DEF dir
    <3> QED
      BY <2>1, <3>3, <3>4 DEF TablesOK
  <2>2. CASE fresh /\ ~ pmm_inited
    <3>1. dir = Entry(BootTable, flags.user, TRUE)
      BY <2>2 DEF NewDirEntry
    <3>2. dir \in Entries /\ dir.present /\ dir.frame = BootTable
      <4>1. flags.user \in BOOLEAN
        BY DEF AllFlags
      <4> HIDE DEF dir
      <4> QED
        BY <3>1, <4>1, Sizes, EntryFields
    <3>3. TableFrames = {}
      BY <2>2 DEF TableFrames
    <3> HIDE DEF dir
    <3> QED
      BY <2>2, <3>2, <3>3
  <2>3. CASE ~ fresh
    <3>1. dir = PAGE_DIRECTORY[t0]
      BY <2>3
    <3>2. dir \in Entries
      BY <3>1, <1>2 DEF TablesOK
    <3>3. dir.present /\ dir.frame \in TableFrames
      BY <3>1, <2>3, <1>2 DEF Present, TableFrames
    <3> QED
      BY <2>3, <3>2, <3>3
  <2> QED
    BY <2>1, <2>2, <2>3 DEF TablesOK
<1>4. table \in [0 .. Slots - 1 -> Entries]
  <2>1. CASE fresh
    BY <2>1 DEF EmptyTable, Absent, Entries
  <2>2. CASE ~ fresh
    BY <2>2, <1>3 DEF TablesOK
  <2> QED
    BY <2>1, <2>2
<1>5. new \in [0 .. Slots - 1 -> Entries]
  BY <1>4
<1>6. \A i \in 0 .. Slots - 1 : new[i] = IF i = i0 THEN entry ELSE table[i]
  BY <1>4
<1>7. /\ \A t \in Tables : PAGE_DIRECTORY'[t] = IF t = t0 THEN dir ELSE PAGE_DIRECTORY[t]
      /\ PAGE_DIRECTORY' \in [Tables -> Entries]
  BY <1>1, <1>2, <1>3 DEF TablesOK
<1>8. /\ DOMAIN page_tables' = TableFrames \cup {dir.frame}
      /\ \A f \in DOMAIN page_tables' :
            page_tables'[f] = IF f = dir.frame THEN new ELSE page_tables[f]
  <2> HIDE DEF dir, new
  <2> QED
    BY <1>1 DEF Updated, TablesOK
<1> HIDE DEF t0, i0, dir, table, new, fresh
<1>9. ~ fresh => Present(t0) /\ dir = PAGE_DIRECTORY[t0] /\ table = page_tables[dir.frame]
  BY DEF fresh, dir, table
<1>10. fresh => ~ Present(t0) /\ table = EmptyTable
  BY DEF fresh, table
<1>11. TableFrames' = TableFrames \cup {dir.frame}
  <2>1. \A t \in Tables : Present(t)' = IF t = t0 THEN TRUE ELSE Present(t)
    BY <1>3, <1>7 DEF Present
  <2>2. \A t \in Tables : PAGE_DIRECTORY'[t].frame
                           = IF t = t0 THEN dir.frame ELSE PAGE_DIRECTORY[t].frame
    BY <1>7
  <2>3. TableFrames' = {PAGE_DIRECTORY'[t].frame : t \in {u \in Tables : Present(u)'}}
    BY DEF TableFrames
  <2>4. Present(t0) => PAGE_DIRECTORY[t0].frame = dir.frame
    BY <1>9, <1>10
  <2> QED
    BY <1>2, <2>1, <2>2, <2>3, <2>4 DEF TableFrames
<1>12. TablesOK'
  <2>1. PAGE_DIRECTORY' \in [Tables -> Entries]
    BY <1>7
  <2>2. DOMAIN page_tables' = TableFrames'
    BY <1>8, <1>11
  <2>3. \A f \in TableFrames' : page_tables'[f] \in [0 .. Slots - 1 -> Entries]
    BY <1>5, <1>8, <2>2 DEF TablesOK
  <2>4. ASSUME NEW t \in Tables, NEW u \in Tables, Present(t)', Present(u)',
               PAGE_DIRECTORY'[t].frame = PAGE_DIRECTORY'[u].frame, t # u
        PROVE  FALSE
    <3>1. \A v \in Tables : v # t0 => Present(v)' = Present(v)
      BY <1>7 DEF Present
    <3>2. ASSUME NEW v \in Tables, v # t0, Present(v), PAGE_DIRECTORY[v].frame = dir.frame
          PROVE  FALSE
      <4>1. dir.frame \in TableFrames
        BY <3>2 DEF TableFrames
      <4>2. ~ fresh
        BY <1>3, <4>1
      <4> QED
        BY <1>2, <1>9, <3>2, <4>2 DEF TablesOK
    <3> QED
      BY <1>2, <1>7, <2>4, <3>1, <3>2 DEF TablesOK
  <2>5. TableFrames' \subseteq taken' \cup {BootTable}
    BY <1>1, <1>3, <1>11 DEF TablesOK
  <2>6. taken' \subseteq Frames /\ dropped' \subseteq taken'
    BY <1>1 DEF TablesOK
  <2> QED
    BY <2>1, <2>2, <2>3, <2>4, <2>5, <2>6 DEF TablesOK
<1>13. ASSUME NEW q \in Pages
       PROVE  PageEntry(q)' = IF q = page THEN entry ELSE PageEntry(q)
  <2>1. TableOf(q) \in Tables /\ Index(q) \in 0 .. Slots - 1
    BY PageParts
  <2>2. CASE TableOf(q) # t0
    <3>1. PAGE_DIRECTORY'[TableOf(q)] = PAGE_DIRECTORY[TableOf(q)] /\ q # page
      BY <1>7, <2>1, <2>2 DEF t0
    <3>2. CASE Present(TableOf(q))
      <4> DEFINE f == PAGE_DIRECTORY[TableOf(q)].frame
      <4>1. f \in TableFrames
        BY <2>1, <3>2 DEF TableFrames
      <4>2. f # dir.frame
        BY <1>2, <1>3, <1>9, <2>1, <2>2, <3>2, <4>1 DEF TablesOK
      <4>3. page_tables'[f] = page_tables[f]
        BY <1>8, <4>1, <4>2
      <4> QED
        BY <3>1, <3>2, <4>3 DEF PageEntry, Present
    <3>3. CASE ~ Present(TableOf(q))
      BY <3>1, <3>3 DEF PageEntry, Present
    <3> QED
      BY <3>2, <3>3
  <2>3. CASE TableOf(q) = t0
    <3>1. PAGE_DIRECTORY'[TableOf(q)] = dir
      BY <1>2, <1>7, <2>3
    <3>2. PageEntry(q)' = new[Index(q)]
      BY <1>3, <1>8, <3>1 DEF PageEntry
    <3>3. q = page <=> Index(q) = i0
      BY <2>3, SamePlace DEF t0, i0
    <3>4. table[Index(q)] = PageEntry(q)
      <4>1. CASE fresh
        BY <1>10, <2>1, <2>3, <4>1 DEF PageEntry, Present, EmptyTable
      <4>2. CASE ~ fresh
        BY <1>9, <2>3, <4>2 DEF PageEntry, Present
      <4> QED
        BY <4>1, <4>2
    <3> QED
      BY <1>6, <2>1, <3>2, <3>3, <3>4
  <2> QED
    BY <2>2, <2>3
<1>14. dir = DirEntry(page, flags, got)
  BY DEF dir, fresh, t0, DirEntry
<1> QED
  BY <1>1, <1>3, <1>11, <1>12, <1>13, <1>14 DEF t0

LEMMA UnmapEffect ==
  ASSUME TablesOK, NEW page \in Pages, sumap_page(page),
         taken' \subseteq Frames, TableFrames \subseteq taken' \cup {BootTable},
         dropped \subseteq taken', pmm_inited' \in BOOLEAN
  PROVE  /\ TablesOK'
         /\ \A q \in Pages : PageEntry(q)' = IF q = page /\ PageEntry(page).present
                                             THEN Absent ELSE PageEntry(q)
         /\ tlb' = IF PageEntry(page).present THEN flush_tlb(page) ELSE tlb
         /\ UNCHANGED <<PAGE_DIRECTORY, dropped>>
<1> DEFINE t0 == TableOf(page)
           i0 == Index(page)
           f0 == PAGE_DIRECTORY[t0].frame
<1>1. t0 \in Tables /\ i0 \in 0 .. Slots - 1
  BY PageParts
<1>2. /\ UNCHANGED <<PAGE_DIRECTORY, dropped>>
      /\ tlb' = IF PageEntry(page).present THEN flush_tlb(page) ELSE tlb
  BY DEF sumap_page
<1>3. TableFrames' = TableFrames /\ \A t \in Tables : Present(t)' = Present(t)
  BY <1>2 DEF TableFrames, Present
<1>4. CASE ~ PageEntry(page).present
  <2>1. page_tables' = page_tables
    BY <1>4 DEF sumap_page
  <2>2. \A q \in Pages : PageEntry(q)' = PageEntry(q)
    BY <1>2, <2>1 DEF PageEntry
  <2>3. TablesOK'
    BY <1>2, <1>3, <2>1 DEF TablesOK
  <2> QED
    BY <1>2, <1>4, <2>2, <2>3
<1>5. CASE PageEntry(page).present
  <2>1. page_tables' = [page_tables EXCEPT ![f0][i0] = Absent]
    BY <1>5 DEF sumap_page
  <2>2. Present(t0) /\ f0 \in TableFrames
    BY <1>1, <1>5 DEF PageEntry, Present, Absent, TableFrames
  <2>3. page_tables' = [page_tables EXCEPT ![f0] = [page_tables[f0] EXCEPT ![i0] = Absent]]
    BY <2>1
  <2> DEFINE new == [page_tables[f0] EXCEPT ![i0] = Absent]
  <2>4. page_tables[f0] \in [0 .. Slots - 1 -> Entries] /\ Absent \in Entries
    BY <2>2 DEF TablesOK, Absent, Entries
  <2>5. new \in [0 .. Slots - 1 -> Entries]
    BY <2>4
  <2>6. \A i \in 0 .. Slots - 1 : new[i] = IF i = i0 THEN Absent ELSE page_tables[f0][i]
    BY <2>4
  <2> HIDE DEF new
  <2>7. /\ DOMAIN page_tables' = TableFrames
        /\ \A f \in TableFrames : page_tables'[f] = IF f = f0 THEN new ELSE page_tables[f]
    <3> HIDE DEF f0
    <3> QED
      BY <2>3 DEF TablesOK, new
  <2>8. TablesOK'
    BY <1>2, <1>3, <2>5, <2>7 DEF TablesOK
  <2>9. ASSUME NEW q \in Pages
        PROVE  PageEntry(q)' = IF q = page THEN Absent ELSE PageEntry(q)
    <3>1. TableOf(q) \in Tables /\ Index(q) \in 0 .. Slots - 1
      BY PageParts
    <3>2. CASE ~ Present(TableOf(q))
      BY <1>2, <2>2, <3>2 DEF PageEntry, Present
    <3>3. CASE Present(TableOf(q))
      <4> DEFINE f == PAGE_DIRECTORY[TableOf(q)].frame
      <4>1. f \in TableFrames
        BY <3>1, <3>3 DEF TableFrames
      <4>2. PageEntry(q)' = page_tables'[f][Index(q)] /\ PageEntry(q) = page_tables[f][Index(q)]
        BY <1>2, <3>3 DEF PageEntry, Present
      <4>3. f = f0 <=> TableOf(q) = t0
        BY <1>1, <2>2, <3>1, <3>3 DEF TablesOK
      <4>4. q = page <=> TableOf(q) = t0 /\ Index(q) = i0
        BY SamePlace
      <4> HIDE DEF f, f0
      <4> QED
        BY <2>6, <2>7, <3>1, <4>1, <4>2, <4>3, <4>4
    <3> QED
      BY <3>2, <3>3
  <2> QED
    BY <1>2, <1>5, <2>8, <2>9
<1> QED
  BY <1>4, <1>5

-----------------------------------------------------------------------------
(* What is mapped, and what the processor has kept of it.                  *)

Mapped(p) == PageEntry(p).present
FrameOf(p) == PageEntry(p).frame

InUse == TableFrames \cup {FrameOf(p) : p \in {q \in Pages : Mapped(q)}}

\* A frame of the pool is one table or one page.
UsesOK ==
    /\ \A p \in Pages : Mapped(p) \/ PageEntry(p) = Absent
    /\ \A p, q \in Pages :
          Mapped(p) /\ Mapped(q) /\ FrameOf(p) \in Pool /\ FrameOf(p) = FrameOf(q) => p = q
    /\ \A p \in Pages : Mapped(p) => FrameOf(p) \notin TableFrames

\* The frames that are taken are in use, dropped or in the piece S of the PMM test.
Accounted(S) == /\ taken = (InUse \cap Frames) \cup dropped \cup S
                /\ InUse \cap (dropped \cup S) = {}

\* The processor keeps translations of the tables only.
TlbOK == \A p \in DOMAIN tlb : /\ p \in Pages /\ tlb[p].present
                               /\ tlb[p] = Translation(p)

CoreInv == TablesOK /\ UsesOK /\ TlbOK

LEMMA MapKeeps ==
  ASSUME CoreInv, NEW page \in Pages, NEW entry \in Entries, NEW flags \in AllFlags,
         NEW got, NEW S, S \subseteq Frames, got \subseteq Frames,
         taken \subseteq got, InUse \cap (dropped \cup S) = {},
         got = (InUse \cap Frames) \cup dropped \cup S \cup ({entry.frame} \cap Frames),
         entry.present \/ entry = Absent,
         entry.frame \in Pool => /\ entry.frame \notin InUse \cup dropped \cup S
                                /\ entry.frame # BootTable,
         Mapped(page) => FrameOf(page) \notin Pool,
         pmm_inited => pmalloc(got) \in Frames \ got,
         ~ pmm_inited => \A t \in Tables : Present(t) => t = TableOf(page),
         smap_page(page, entry, flags, got), ~ Refuses(page, flags),
         pmm_inited' \in BOOLEAN
  PROVE  CoreInv' /\ Accounted(S)'
<1> DEFINE t0 == TableOf(page)
           dir == DirEntry(page, flags, got)
<1>1. /\ TablesOK'
      /\ dir \in Entries /\ dir.present
      /\ PAGE_DIRECTORY' = [PAGE_DIRECTORY EXCEPT ![t0] = dir]
      /\ taken' = got \cup ({dir.frame} \cap Frames)
      /\ TableFrames' = TableFrames \cup {dir.frame}
      /\ \A q \in Pages : PageEntry(q)' = IF q = page THEN entry ELSE PageEntry(q)
      /\ tlb' = flush_tlb(page) /\ dropped' = dropped
  <2>1. TablesOK
    BY DEF CoreInv
  <2>2. TablesOK' /\ dir \in Entries /\ dir.present
    BY <2>1, SmapEffect
  <2>3. PAGE_DIRECTORY' = [PAGE_DIRECTORY EXCEPT ![t0] = dir]
    BY <2>1, SmapEffect
  <2>4. taken' = got \cup ({dir.frame} \cap Frames)
    BY <2>1, SmapEffect
  <2>5. TableFrames' = TableFrames \cup {dir.frame}
    BY <2>1, SmapEffect
  <2>6. \A q \in Pages : PageEntry(q)' = IF q = page THEN entry ELSE PageEntry(q)
    BY <2>1, SmapEffect
  <2>7. tlb' = flush_tlb(page) /\ dropped' = dropped
    BY <2>1, SmapEffect
  <2> QED
    BY <2>2, <2>3, <2>4, <2>5, <2>6, <2>7
<1>2. t0 \in Tables
  BY PageParts
<1>3. Present(t0) => dir = PAGE_DIRECTORY[t0]
  BY DEF DirEntry
<1>4. ~ Present(t0) => \/ dir.frame \in Frames \ got
                       \/ dir.frame = BootTable /\ ~ pmm_inited
  <2>1. CASE pmm_inited /\ ~ Present(t0)
    <3>1. dir = Entry(pmalloc(got), TableOf(page) < KernelTable, TRUE)
      BY <2>1 DEF NewDirEntry, DirEntry
    <3>2. dir.frame = pmalloc(got)
      BY <3>1 DEF Entry
    <3> QED
      BY <2>1, <3>2
  <2>2. CASE ~ pmm_inited /\ ~ Present(t0)
    <3>1. dir = Entry(BootTable, flags.user, TRUE)
      BY <2>2 DEF NewDirEntry, DirEntry
    <3> QED
      BY <2>2, <3>1 DEF Entry
  <2> QED
    BY <2>1, <2>2
<1>5. ~ pmm_inited /\ ~ Present(t0) => InUse = {}
  <2> SUFFICES ASSUME ~ pmm_inited, ~ Present(t0) PROVE InUse = {}
    OBVIOUS
  <2>1. \A t \in Tables : ~ Present(t)
    OBVIOUS
  <2>2. \A q \in Pages : ~ Mapped(q)
    BY <2>1, PageParts DEF Mapped, PageEntry, Present, Absent
  <2> QED
    BY <2>1, <2>2 DEF InUse, TableFrames
<1> HIDE DEF dir, t0
<1>6. /\ TableFrames \subseteq Pool /\ taken \subseteq Frames /\ dropped \subseteq Frames
      /\ Frames \subseteq Pool /\ BootTable \in Pool /\ BootTable \notin Frames
  BY Sizes DEF CoreInv, TablesOK, Pool
<1>7. ~ Present(t0) => dir.frame \notin InUse \cup dropped \cup S \cup {entry.frame}
  <2> SUFFICES ASSUME ~ Present(t0)
               PROVE  dir.frame \notin InUse \cup dropped \cup S \cup {entry.frame}
    OBVIOUS
  <2>1. CASE dir.frame \in Frames \ got
    BY <2>1
  <2>2. CASE dir.frame = BootTable /\ ~ pmm_inited
    BY <1>5, <1>6, <2>2
  <2> QED
    BY <1>4, <2>1, <2>2
<1>8. Present(t0) => dir.frame \in TableFrames
  BY <1>2, <1>3 DEF TableFrames
<1>9. entry.frame \in Pool => entry.present
  BY Sizes DEF Absent
<1>10. /\ Mapped(page)' = entry.present /\ FrameOf(page)' = entry.frame
       /\ PageEntry(page)' = entry
       /\ \A q \in Pages \ {page} : /\ PageEntry(q)' = PageEntry(q)
                                    /\ Mapped(q)' = Mapped(q) /\ FrameOf(q)' = FrameOf(q)
  BY <1>1 DEF Mapped, FrameOf
<1>11. \A q \in Pages : Mapped(q) => FrameOf(q) \in InUse
  BY DEF InUse
<1>12. TableFrames \subseteq InUse
  BY DEF InUse
<1>13. UsesOK'
  <2>1. \A p \in Pages : Mapped(p)' \/ PageEntry(p)' = Absent
    BY <1>10 DEF CoreInv, UsesOK
  <2>2. ASSUME NEW p \in Pages, NEW q \in Pages, Mapped(p)', Mapped(q)',
               FrameOf(p)' \in Pool, FrameOf(p)' = FrameOf(q)', p # q
        PROVE  FALSE
    <3>1. CASE p # page /\ q # page
      BY <1>10, <2>2, <3>1 DEF CoreInv, UsesOK
    <3>2. CASE p = page
      BY <1>10, <1>11, <2>2, <3>2
    <3>3. CASE q = page
      BY <1>10, <1>11, <2>2, <3>3
    <3> QED
      BY <3>1, <3>2, <3>3
  <2>3. ASSUME NEW p \in Pages, Mapped(p)', FrameOf(p)' \in TableFrames'
        PROVE  FALSE
    <3>1. CASE p # page
      <4>1. FrameOf(p)' = FrameOf(p) /\ Mapped(p)
        BY <1>10, <2>3, <3>1
      <4>2. FrameOf(p) \notin TableFrames
        BY <4>1 DEF CoreInv, UsesOK
      <4> QED
        BY <1>1, <1>7, <1>8, <1>11, <2>3, <4>1, <4>2
    <3>2. CASE p = page
      BY <1>1, <1>6, <1>7, <1>8, <1>10, <1>12, <2>3, <3>2
    <3> QED
      BY <3>1, <3>2
  <2> QED
    BY <2>1, <2>2, <2>3 DEF UsesOK
<1>14. \A f \in Frames : f \in InUse' <=> f \in InUse \/ f = dir.frame \/ f = entry.frame
  <2>1. InUse' = TableFrames' \cup {FrameOf(p)' : p \in {q \in Pages : Mapped(q)'}}
    BY DEF InUse
  <2>2. ASSUME NEW f \in Frames, f \in InUse' 
        PROVE  f \in InUse \/ f = dir.frame \/ f = entry.frame
    BY <1>1, <1>10, <1>11, <1>12, <2>1, <2>2
  <2>3. ASSUME NEW f \in Frames, f \in InUse PROVE f \in InUse'
    <3>1. CASE f \in TableFrames
      BY <1>1, <2>1, <3>1
    <3>2. ASSUME NEW p \in Pages, Mapped(p), f = FrameOf(p) PROVE f \in InUse'
      BY <1>6, <1>10, <2>1, <3>2
    <3> QED
      BY <2>3, <3>1, <3>2 DEF InUse
  <2>4. ASSUME NEW f \in Frames, f = entry.frame PROVE f \in InUse'
    BY <1>6, <1>9, <1>10, <2>1, <2>4
  <2>5. dir.frame \in InUse'
    BY <1>1, <2>1
  <2> QED
    BY <2>2, <2>3, <2>4, <2>5
<1>15. Accounted(S)'
  <2>1. InUse' \cap (dropped' \cup S) = {}
    <3>1. dropped' = dropped
      BY <1>1
    <3>2. entry.frame \notin dropped \cup S
      BY <1>6
    <3>3. dir.frame \notin dropped \cup S
      BY <1>7, <1>8, <1>12
    <3> QED
      BY <1>6, <1>14, <3>1, <3>2, <3>3
  <2>2. \A f \in Frames : f \in taken' <=> f \in InUse' \/ f \in dropped' \/ f \in S
    BY <1>1, <1>14
  <2>3. taken' \subseteq Frames /\ dropped' \subseteq Frames
    BY <1>1, <1>6
  <2> QED
    BY <2>1, <2>2, <2>3 DEF Accounted
<1>16. TlbOK'
  <2> SUFFICES ASSUME NEW p \in DOMAIN tlb'
               PROVE  p \in Pages /\ tlb'[p].present /\ tlb'[p] = Translation(p)'
    BY DEF TlbOK
  <2>1. p \in DOMAIN tlb /\ p # page /\ tlb'[p] = tlb[p]
    BY <1>1 DEF flush_tlb, Restrict
  <2>2. p \in Pages /\ tlb[p].present /\ tlb[p] = Translation(p)
    BY <2>1 DEF CoreInv, TlbOK
  <2>3. Mapped(p)
    BY <2>2 DEF Translation, Mapped, Absent
  <2>4. Present(TableOf(p)) /\ TableOf(p) \in Tables
    BY <2>2, <2>3, PageParts DEF Mapped, PageEntry, Present, Absent
  <2>5. PAGE_DIRECTORY'[TableOf(p)] = PAGE_DIRECTORY[TableOf(p)]
    <3>1. \A t \in Tables : PAGE_DIRECTORY'[t] = IF t = t0 THEN dir ELSE PAGE_DIRECTORY[t]
      BY <1>1 DEF CoreInv, TablesOK
    <3> QED
      BY <1>3, <2>4, <3>1
  <2>6. Translation(p)' = Translation(p)
    BY <1>10, <2>1, <2>2, <2>5 DEF Translation
  <2> QED
    BY <2>1, <2>2, <2>6
<1> QED
  BY <1>1, <1>13, <1>15, <1>16 DEF CoreInv

-----------------------------------------------------------------------------
(* The course of kinit and of the loops, and the break of the heap: none of *)
(* them depends on what the tables hold.                                   *)

\* Where kinit may be.
StepOK ==
    \/ step \in {<<"pmm", 0>>, <<"pmm", 1>>}
    \/ \E k \in 0 .. VaddmSize : step = <<"vaddm", k>>
    \/ \E i \in 1 .. Len(Modules) + 1 : step = <<"modules", i>>
    \/ \E i \in 1 .. Len(Modules) : step = <<"name", i>>
    \/ \E n \in 1 .. 3 : step = <<"process_create", n>>
    \/ \E n \in 1 .. 5 : step = <<"test", n>>
    \/ step = <<"idle_process", 0>>

\* As many pages at most has vmalloc given so far.
Given ==
    IF step[1] \in {"pmm", "vaddm"} THEN 0
    ELSE IF step[1] \in {"modules", "name"} THEN step[2] - 1
    ELSE IF step = <<"process_create", 1>> THEN Len(Modules)
    ELSE IF step = <<"process_create", 2>> THEN Len(Modules) + 1
    ELSE IF step = <<"process_create", 3>> THEN Len(Modules) + 3
    ELSE Len(Modules) + 4

\* vmalloc has given the lowest pages, as kinit gives none back.
VpagesOK == \E n \in 0 .. Given : vpages = VMallocBase .. VMallocBase + n - 1

\* The next page of a loop of psbrk lies between the breaks.
HeapCall == \/ /\ call.kind = "grow"
               /\ BrkBase + 1 <= call.next /\ call.next < brk_limit
            \/ /\ call.kind = "shrink"
               /\ brk_limit < call.next /\ call.next < TestPage

CallOK == \/ call = NoCall
          \/ /\ call = [kind |-> call.kind, next |-> call.next] /\ call.next \in Nat
             /\ \/ step \in HeapSteps /\ HeapCall
                \/ /\ call.kind = "kstack" /\ step = <<"process_create", 3>>
                   /\ call.next \in vpages

Blocks == [base : Nat, length : Requests]
End(b) == b.base + PtrScale * b.length

\* Moved together from the start of the heap on, the blocks that are held would end
\* at the break: a block given back lowers it by its length, wherever it lies.
BlocksOK ==
    /\ blocks \in Seq(Blocks)
    /\ \A i \in 1 .. Len(blocks) : BrkBase + 1 <= blocks[i].base
    /\ \E at \in [0 .. Len(blocks) -> Nat] :
          /\ at[0] = BrkBase + 1 /\ at[Len(blocks)] = brk_limit
          /\ \A i \in 1 .. Len(blocks) : at[i] = at[i - 1] + PtrScale * blocks[i].length
          /\ \A i, j \in 0 .. Len(blocks) : i <= j => at[i] <= at[j]

\* No move of the break was longer than the longest request, and every block began
\* at the break.
BreakOK ==
    /\ breaks \in 0 .. MaxBreaks /\ has_mapped \in BOOLEAN
    /\ brk_limit \in Nat /\ BrkBase + 1 <= brk_limit
    /\ \E n \in Requests \cup {0} :
          /\ brk_limit <= BrkBase + 1 + PtrScale * n * breaks
          /\ \A i \in 1 .. Len(blocks) :
                End(blocks[i]) <= BrkBase + 1 + PtrScale * n * breaks

Flow == /\ StepOK /\ pmm_inited \in BOOLEAN /\ (pmm_inited <=> step[1] # "pmm")
        /\ VpagesOK /\ CallOK /\ BlocksOK /\ BreakOK

\* The numbers of the layout.
LEMMA Numbers ==
  /\ VMallocBase \in Nat /\ VMallocBase > 0 /\ Len(Modules) \in Nat /\ MaxBreaks \in Nat
  /\ CmdlinePage \in Nat /\ VaddmPage \in Nat /\ PmmPage \in Nat /\ BrkBase \in Nat
  /\ TestPage \in Pages /\ TestPage \in Nat /\ VaddmSize \in Nat /\ KernelTable \in Nat
  /\ PtrScale \in Nat /\ PtrScale > 0 /\ Requests \subseteq Nat /\ 0 \notin Requests
  /\ VMallocBase + Len(Modules) + 4 <= Slots
  /\ Slots <= CmdlinePage /\ CmdlinePage < KernelTable * Slots
  /\ KernelTable * Slots <= VaddmPage /\ VaddmPage + VaddmSize < PmmPage
  /\ KernelTable * Slots \in Nat
  /\ PmmPage + 3 < BrkBase /\ BrkBase + 1 < TestPage
  /\ \A n \in Requests : BrkBase + 1 + PtrScale * n * MaxBreaks < TestPage
<1>1. /\ {VMallocBase, CmdlinePage, VaddmPage, PmmPage, BrkBase, TestPage} \subseteq Pages
      /\ Pages \subseteq Nat /\ KernelTable \in Nat
  BY PagingAssumption DEF Pages, Tables
<1>2. KernelTable * Slots \in Nat
  BY <1>1, Sizes
<1>3. Len(Modules) \in Nat
  BY PagingAssumption
<1>4. /\ Slots \in Nat /\ VaddmSize \in Nat /\ MaxBreaks \in Nat
      /\ PtrScale \in Nat /\ PtrScale > 0
      /\ Requests \subseteq Nat /\ 0 \notin Requests
  BY PagingAssumption
<1>5. Slots <= CmdlinePage /\ CmdlinePage < KernelTable * Slots
  BY <1>1, <1>2, <1>4, LayoutAssumption
<1>6. \A n \in Requests : BrkBase + 1 + PtrScale * n * MaxBreaks < TestPage
  BY LayoutAssumption
<1>7. /\ VMallocBase > 0 /\ VMallocBase + Len(Modules) + 4 <= Slots
      /\ KernelTable * Slots <= VaddmPage /\ VaddmPage + VaddmSize < PmmPage
      /\ PmmPage + 3 < BrkBase /\ BrkBase + 1 < TestPage
  BY LayoutAssumption
<1> QED
  BY <1>1, <1>2, <1>3, <1>4, <1>5, <1>6, <1>7

LEMMA PagesBelow ==
  ASSUME NEW p \in Int, 0 <= p, p <= TestPage
  PROVE  p \in Pages
<1>1. NumTables * Slots \in Int
  BY Sizes
<1> QED
  BY <1>1, Numbers DEF Pages

\* vmalloc gives the pages in a row, as nothing is given back.
LEMMA FirstFreeIsNext ==
  ASSUME NEW n \in Nat, VMallocBase + n < Slots
  PROVE  FirstFree(VMallocBase .. VMallocBase + n - 1) = VMallocBase + n
<1> DEFINE T == (VMallocBase .. Slots - 1) \ (VMallocBase .. VMallocBase + n - 1)
<1>1. /\ VMallocBase \in Nat /\ Slots \in Nat
  BY Numbers, Sizes
<1>2. VMallocBase + n \in T /\ \A k \in T : VMallocBase + n <= k /\ k \in Nat
  BY <1>1
<1>3. Min(T) \in T /\ Min(T) <= VMallocBase + n
  <2> HIDE DEF T
  <2>1. T \subseteq Nat /\ T # {}
    BY <1>2
  <2> QED
    BY <1>2, <2>1, LeastElement
<1>4. Min(T) = VMallocBase + n
  <2> HIDE DEF T
  <2> QED
    BY <1>1, <1>2, <1>3
<1> QED
  BY <1>4 DEF FirstFree

LEMMA OneMore ==
  ASSUME NEW n \in Nat
  PROVE  (VMallocBase .. VMallocBase + n - 1) \cup {VMallocBase + n}
         = VMallocBase .. VMallocBase + (n + 1) - 1
  BY Numbers

\* The break and the blocks stay below the page of the PMM test.
LEMMA BreakBound ==
  ASSUME BreakOK
  PROVE  /\ brk_limit < TestPage /\ brk_limit \in Nat
         /\ \A i \in 1 .. Len(blocks) :
               End(blocks[i]) \in Nat => End(blocks[i]) < TestPage
<1>1. PICK n \in Requests \cup {0} :
         /\ brk_limit <= BrkBase + 1 + PtrScale * n * breaks
         /\ \A i \in 1 .. Len(blocks) :
               End(blocks[i]) <= BrkBase + 1 + PtrScale * n * breaks
  BY DEF BreakOK
<1> DEFINE m == PtrScale * n
           top == BrkBase + 1 + m * breaks
<1>2. m \in Nat /\ n \in Nat
  BY Numbers
<1>3. breaks \in Nat /\ breaks <= MaxBreaks /\ MaxBreaks \in Nat /\ brk_limit \in Nat
  BY Numbers DEF BreakOK
<1>4. BrkBase + 1 + m * MaxBreaks < TestPage
  <2>1. CASE n = 0
    <3>1. m = 0
      BY <2>1, Numbers
    <3>2. m * MaxBreaks = 0
      BY <3>1, <1>3
    <3> QED
      BY <3>2, Numbers
  <2>2. CASE n \in Requests
    BY <2>2, Numbers
  <2> QED
    BY <2>1, <2>2
<1>5. brk_limit <= top /\ \A i \in 1 .. Len(blocks) : End(blocks[i]) <= top
  BY <1>1
<1> HIDE DEF m
<1>6. m * breaks <= m * MaxBreaks
  BY <1>2, <1>3
<1>7. m * breaks \in Nat /\ m * MaxBreaks \in Nat
  BY <1>2, <1>3
<1>8. top \in Nat /\ top < TestPage /\ TestPage \in Nat
  BY <1>4, <1>6, <1>7, Numbers
<1> HIDE DEF top
<1> QED
  BY <1>3, <1>5, <1>8

LEMMA BlockParts ==
  ASSUME NEW b \in Blocks
  PROVE  /\ b.base \in Nat /\ b.length \in Requests
         /\ PtrScale * b.length \in Nat /\ PtrScale * b.length > 0
         /\ End(b) \in Nat /\ b.base < End(b)
<1> DEFINE m == PtrScale * b.length
<1>1. b.base \in Nat /\ b.length \in Requests /\ b.length \in Nat /\ b.length > 0
  <2>1. b.base \in Nat /\ b.length \in Requests
    BY DEF Blocks
  <2>2. \A r \in Requests : r \in Nat /\ r > 0
    BY Numbers
  <2> QED
    BY <2>1, <2>2, Zenon
<1>2. m \in Nat /\ m > 0
  BY <1>1, Numbers
<1>3. End(b) = b.base + m
  BY DEF End
<1> HIDE DEF m
<1>4. End(b) \in Nat /\ b.base < End(b)
  BY <1>1, <1>2, <1>3
<1> QED
  BY <1>1, <1>2, <1>4 DEF m

\* A block that psbrk has made at the break.
LEMMA BlocksGrow ==
  ASSUME BlocksOK, NEW length \in Requests, brk_limit \in Nat, BrkBase + 1 <= brk_limit,
         brk_limit' = brk_limit + PtrScale * length,
         blocks' = Append(blocks, [base |-> brk_limit, length |-> length])
  PROVE  /\ BlocksOK'
         /\ \A i \in 1 .. Len(blocks') : \/ End(blocks'[i]) = brk_limit'
                                         \/ \E j \in 1 .. Len(blocks) : blocks'[i] = blocks[j]
<1> DEFINE n == Len(blocks)
           m == PtrScale * length
           new == [base |-> brk_limit, length |-> length]
<1>1. blocks \in Seq(Blocks) /\ n \in Nat /\ new \in Blocks
  BY DEF BlocksOK, Blocks
<1>2. /\ blocks' \in Seq(Blocks) /\ Len(blocks') = n + 1
      /\ blocks'[n + 1] = new /\ \A i \in 1 .. n : blocks'[i] = blocks[i]
  BY <1>1
<1>3. /\ m \in Nat /\ m > 0 /\ End(new) = brk_limit + m /\ new.base = brk_limit
      /\ m = PtrScale * new.length
  BY <1>1, BlockParts DEF End
<1>4. PICK at \in [0 .. n -> Nat] :
         /\ at[0] = BrkBase + 1 /\ at[n] = brk_limit
         /\ \A i \in 1 .. n : at[i] = at[i - 1] + PtrScale * blocks[i].length
         /\ \A i, j \in 0 .. n : i <= j => at[i] <= at[j]
  BY DEF BlocksOK
<1>5. brk_limit' = brk_limit + m
  OBVIOUS
<1> HIDE DEF m, new
<1>6. \A i \in 1 .. n + 1 : i \in 1 .. n \/ i = n + 1
  <2>1. n \in Nat
    BY <1>1
  <2> HIDE DEF n
  <2> QED
    BY <2>1
<1>7. \A i \in 1 .. n + 1 : BrkBase + 1 <= blocks'[i].base
  BY <1>2, <1>3, <1>6 DEF BlocksOK
<1> DEFINE to == [k \in 0 .. n + 1 |-> IF k = n + 1 THEN brk_limit' ELSE at[k]]
<1>8. /\ to \in [0 .. n + 1 -> Nat] /\ to[n + 1] = brk_limit'
      /\ \A k \in 0 .. n : to[k] = at[k] /\ at[k] \in Nat
  <2>1. n \in Nat /\ brk_limit' \in Nat
    BY <1>1, <1>3, <1>5
  <2> HIDE DEF n
  <2> QED
    BY <2>1
<1>9. \A i \in 1 .. n + 1 : to[i] = to[i - 1] + PtrScale * blocks'[i].length
  <2> SUFFICES ASSUME NEW i \in 1 .. n + 1
               PROVE  to[i] = to[i - 1] + PtrScale * blocks'[i].length
    OBVIOUS
  <2>1. CASE i = n + 1
    <3>1. i - 1 = n /\ n \in 0 .. n
      BY <1>1, <2>1
    <3>2. to[i] = brk_limit + m /\ to[i - 1] = brk_limit
      BY <1>4, <1>5, <1>8, <2>1, <3>1
    <3> QED
      BY <1>2, <1>3, <2>1, <3>2
  <2>2. CASE i \in 1 .. n
    <3>1. i \in 0 .. n /\ i - 1 \in 0 .. n
      BY <1>1, <2>2
    <3> QED
      BY <1>2, <1>4, <1>8, <2>2, <3>1
  <2> QED
    BY <1>6, <2>1, <2>2
<1>10. ASSUME NEW i \in 0 .. n + 1, NEW j \in 0 .. n + 1, i <= j PROVE to[i] <= to[j]
  <2> HIDE DEF to
  <2>1. n \in Nat /\ n \in 0 .. n
    BY <1>1
  <2>2. CASE j \in 0 .. n
    <3>1. i \in 0 .. n
      BY <1>10, <2>2
    <3> QED
      BY <1>4, <1>8, <1>10, <2>2, <3>1
  <2>3. CASE j = n + 1 /\ i \in 0 .. n
    <3>1. to[i] <= brk_limit /\ to[i] \in Nat
      <4>1. i <= n /\ at[i] <= at[n]
        BY <1>4, <2>1, <2>3
      <4> QED
        BY <1>4, <1>8, <2>3, <4>1
    <3> QED
      BY <1>3, <1>5, <1>8, <2>3, <3>1
  <2>4. CASE j = n + 1 /\ i = n + 1
    BY <1>3, <1>5, <1>8, <2>4
  <2> HIDE DEF n
  <2>5. (i \in 0 .. n \/ i = n + 1) /\ (j \in 0 .. n \/ j = n + 1)
    BY <2>1
  <2> QED
    BY <2>2, <2>3, <2>4, <2>5
<1>11. to[0] = BrkBase + 1
  BY <1>1, <1>4, <1>8
<1> HIDE DEF to
<1>12. BlocksOK'
  <2> HIDE DEF n
  <2>1. /\ to \in [0 .. Len(blocks') -> Nat]
        /\ to[0] = BrkBase + 1 /\ to[Len(blocks')] = brk_limit'
        /\ \A i \in 1 .. Len(blocks') : to[i] = to[i - 1] + PtrScale * blocks'[i].length
        /\ \A i, j \in 0 .. Len(blocks') : i <= j => to[i] <= to[j]
    BY <1>2, <1>8, <1>9, <1>10, <1>11, Zenon
  <2>2. \A i \in 1 .. Len(blocks') : BrkBase + 1 <= blocks'[i].base
    BY <1>2, <1>7
  <2> QED
    BY <1>2, <2>1, <2>2, Zenon DEF BlocksOK
<1>13. \A i \in 1 .. n + 1 : \/ End(blocks'[i]) = brk_limit'
                             \/ \E j \in 1 .. n : blocks'[i] = blocks[j]
  BY <1>2, <1>3, <1>5, <1>6
<1> QED
  BY <1>2, <1>12, <1>13

\* A block given back, wherever it lies.
LEMMA BlocksShrink ==
  ASSUME BlocksOK, NEW i \in DOMAIN blocks, brk_limit \in Nat,
         brk_limit' = brk_limit - PtrScale * blocks[i].length,
         blocks' = [j \in 1 .. Len(blocks) - 1 |->
                       IF j < i THEN blocks[j] ELSE blocks[j + 1]]
  PROVE  /\ BlocksOK' /\ brk_limit' \in Nat
         /\ BrkBase + 1 <= brk_limit' /\ brk_limit' < brk_limit
         /\ \A j \in 1 .. Len(blocks') : \E k \in 1 .. Len(blocks) : blocks'[j] = blocks[k]
<1> DEFINE n == Len(blocks)
           m == PtrScale * blocks[i].length
<1>1. blocks \in Seq(Blocks) /\ n \in Nat /\ i \in 1 .. n /\ n > 0 /\ n - 1 \in Nat
  BY DEF BlocksOK
<1>2. m \in Nat /\ m > 0
  BY <1>1, BlockParts
<1>3. PICK at \in [0 .. n -> Nat] :
         /\ at[0] = BrkBase + 1 /\ at[n] = brk_limit
         /\ \A j \in 1 .. n : at[j] = at[j - 1] + PtrScale * blocks[j].length
         /\ \A j, k \in 0 .. n : j <= k => at[j] <= at[k]
  BY DEF BlocksOK
<1>4. at[i] = at[i - 1] + m /\ brk_limit' = brk_limit - m
  BY <1>1, <1>3
<1>5. /\ blocks' = [j \in 1 .. n - 1 |-> IF j < i THEN blocks[j] ELSE blocks[j + 1]]
      /\ \A j \in 1 .. n : blocks[j] \in Blocks
      /\ \A j \in 1 .. n : BrkBase + 1 <= blocks[j].base
  BY <1>1 DEF BlocksOK
<1> HIDE DEF m, n
<1>6. \A j \in 1 .. n - 1 : j \in 1 .. n /\ j + 1 \in 1 .. n
  BY <1>1
<1>7. \A j \in 1 .. n - 1 : blocks'[j] = IF j < i THEN blocks[j] ELSE blocks[j + 1]
  BY <1>5
<1>8. blocks' \in Seq(Blocks) /\ Len(blocks') = n - 1
  <2>1. blocks' \in [1 .. n - 1 -> Blocks]
    BY <1>5, <1>6
  <2> QED
    BY <1>1, <2>1
<1>9. \A j \in 1 .. n - 1 : BrkBase + 1 <= blocks'[j].base
  BY <1>5, <1>6, <1>7
<1>10. \A j \in 1 .. n - 1 : \E k \in 1 .. n : blocks'[j] = blocks[k]
  BY <1>6, <1>7
\* What lies behind the block lies at least m above the start.
<1>11. \A j \in 0 .. n : at[j] \in Nat
  BY <1>3
<1>12. BrkBase + 1 <= at[i - 1] /\ i - 1 \in 0 .. n /\ i \in 0 .. n /\ 0 \in 0 .. n
  <2>1. i - 1 \in 0 .. n /\ i \in 0 .. n /\ 0 \in 0 .. n /\ 0 <= i - 1
    BY <1>1
  <2> QED
    BY <1>3, <2>1
<1>13. \A j \in i .. n : at[i - 1] <= at[j] - m /\ at[j] - m \in Nat
  <2> SUFFICES ASSUME NEW j \in i .. n PROVE at[i - 1] <= at[j] - m /\ at[j] - m \in Nat
    OBVIOUS
  <2>1. j \in 0 .. n /\ i <= j
    BY <1>1
  <2>2. at[i] <= at[j]
    BY <1>3, <1>12, <2>1
  <2>3. at[j] \in Nat /\ at[i] \in Nat /\ at[i - 1] \in Nat
    BY <1>11, <1>12, <2>1
  <2> QED
    BY <1>2, <1>4, <2>2, <2>3
<1> DEFINE to == [j \in 0 .. n - 1 |-> IF j < i THEN at[j] ELSE at[j + 1] - m]
<1>14. \A j \in 0 .. n - 1 : j \in 0 .. n /\ (~ (j < i) => j + 1 \in i .. n /\ j + 1 \in 0 .. n)
  BY <1>1
<1>15. /\ to \in [0 .. n - 1 -> Nat]
       /\ \A j \in 0 .. n - 1 : to[j] = IF j < i THEN at[j] ELSE at[j + 1] - m
  BY <1>11, <1>13, <1>14
<1> HIDE DEF to
<1>16. to[0] = BrkBase + 1
  BY <1>1, <1>3, <1>15
<1>17. to[n - 1] = brk_limit'
  <2>1. n - 1 \in 0 .. n - 1 /\ (n - 1) + 1 = n
    BY <1>1
  <2>2. CASE n - 1 < i
    <3>1. n = i
      BY <1>1, <2>2
    <3> QED
      BY <1>3, <1>4, <1>11, <1>12, <1>2, <1>15, <2>1, <2>2, <3>1
  <2>3. CASE ~ (n - 1 < i)
    BY <1>3, <1>4, <1>15, <2>1, <2>3
  <2> QED
    BY <2>2, <2>3
<1>18. ASSUME NEW j \in 1 .. n - 1
       PROVE  to[j] = to[j - 1] + PtrScale * blocks'[j].length
  <2>1. j \in 0 .. n - 1 /\ j - 1 \in 0 .. n - 1 /\ j \in 1 .. n /\ j + 1 \in 1 .. n
        /\ (j - 1) + 1 = j /\ (j + 1) - 1 = j
    BY <1>1
  <2>2. CASE j < i
    <3>1. j - 1 < i
      BY <1>1, <2>2
    <3> QED
      BY <1>3, <1>7, <1>15, <2>1, <2>2, <3>1
  <2>3. CASE j = i
    <3>1. j - 1 < i /\ ~ (j < i)
      BY <1>1, <2>3
    <3>2. to[j] = at[j + 1] - m /\ to[j - 1] = at[i - 1]
      BY <1>15, <2>1, <2>3, <3>1
    <3>3. at[j + 1] = at[j] + PtrScale * blocks[j + 1].length /\ blocks'[j] = blocks[j + 1]
      BY <1>3, <1>7, <2>1, <3>1
    <3>4. PtrScale * blocks[j + 1].length \in Nat
      BY <1>5, <2>1, BlockParts
    <3>5. at[i - 1] \in Nat /\ at[j] = at[i - 1] + m
      BY <1>4, <1>11, <1>12, <2>3
    <3> DEFINE k == PtrScale * blocks[j + 1].length
    <3>6. to[j] = (at[j] + k) - m /\ k \in Nat
      BY <3>2, <3>3, <3>4
    <3>7. to[j - 1] + PtrScale * blocks'[j].length = at[i - 1] + k
      BY <3>2, <3>3
    <3> HIDE DEF k
    <3> QED
      BY <1>2, <3>5, <3>6, <3>7
  <2>4. CASE j > i
    <3>1. ~ (j < i) /\ ~ (j - 1 < i)
      BY <1>1, <2>4
    <3>2. to[j] = at[j + 1] - m /\ to[j - 1] = at[j] - m
      BY <1>15, <2>1, <3>1
    <3>3. at[j + 1] = at[j] + PtrScale * blocks[j + 1].length /\ blocks'[j] = blocks[j + 1]
      BY <1>3, <1>7, <2>1, <3>1
    <3>4. PtrScale * blocks[j + 1].length \in Nat /\ at[j] \in Nat
      BY <1>5, <1>11, <1>14, <2>1, BlockParts
    <3> DEFINE k == PtrScale * blocks[j + 1].length
    <3>5. to[j] = (at[j] + k) - m /\ k \in Nat
      BY <3>2, <3>3, <3>4
    <3>6. to[j - 1] + PtrScale * blocks'[j].length = (at[j] - m) + k
      BY <3>2, <3>3
    <3> HIDE DEF k
    <3> QED
      BY <1>2, <3>4, <3>5, <3>6
  <2> QED
    BY <1>1, <2>1, <2>2, <2>3, <2>4
<1>19. ASSUME NEW j \in 0 .. n - 1, NEW k \in 0 .. n - 1, j <= k PROVE to[j] <= to[k]
  <2>1. CASE k < i
    <3>1. j < i /\ j \in 0 .. n /\ k \in 0 .. n
      BY <1>1, <1>19, <2>1
    <3> QED
      BY <1>3, <1>15, <1>19, <2>1, <3>1
  <2>2. CASE j < i /\ ~ (k < i)
    <3>1. j \in 0 .. n /\ j <= i - 1 /\ k + 1 \in i .. n
      BY <1>1, <2>2
    <3>2. at[j] <= at[i - 1] /\ at[i - 1] <= at[k + 1] - m /\ at[k + 1] - m \in Nat
      BY <1>3, <1>12, <1>13, <3>1
    <3>3. at[j] \in Nat /\ at[i - 1] \in Nat
      BY <1>11, <1>12, <3>1
    <3>4. at[j] <= at[k + 1] - m
      BY <3>2, <3>3
    <3> QED
      BY <1>15, <2>2, <3>4
  <2>3. CASE ~ (j < i) /\ ~ (k < i)
    <3>1. j + 1 \in 0 .. n /\ k + 1 \in 0 .. n /\ j + 1 <= k + 1
      BY <1>1, <1>19
    <3>2. at[j + 1] <= at[k + 1] /\ at[j + 1] \in Nat /\ at[k + 1] \in Nat
      BY <1>3, <1>11, <3>1
    <3>3. at[j + 1] - m <= at[k + 1] - m
      BY <1>2, <3>2
    <3> QED
      BY <1>15, <2>3, <3>3
  <2>4. k < i => j < i
    BY <1>1, <1>19
  <2> QED
    BY <2>1, <2>2, <2>3, <2>4
<1>20. BlocksOK'
  BY <1>8, <1>9, <1>15, <1>16, <1>17, <1>18, <1>19 DEF BlocksOK
<1>21. n \in i .. n
  BY <1>1
<1>22. at[i - 1] <= brk_limit - m /\ brk_limit - m \in Nat /\ at[i - 1] \in Nat
  BY <1>3, <1>11, <1>12, <1>13, <1>21
<1>23. brk_limit' \in Nat /\ BrkBase + 1 <= brk_limit' /\ brk_limit' < brk_limit
  <2>1. BrkBase \in Nat
    BY Numbers
  <2> QED
    BY <1>2, <1>4, <1>12, <1>22, <2>1
<1> QED
  BY <1>8, <1>10, <1>20, <1>23 DEF n

\* A move of the break, by as many pages at most as the largest request so far; a
\* new block ends at the break.
LEMMA BreakMoves ==
  ASSUME BreakOK, BlocksOK, NEW length \in Requests \cup {0}, breaks < MaxBreaks,
         breaks' = breaks + 1, has_mapped' \in BOOLEAN, brk_limit' \in Nat,
         BrkBase + 1 <= brk_limit', brk_limit' <= brk_limit + PtrScale * length,
         \A i \in 1 .. Len(blocks') : \/ End(blocks'[i]) = brk_limit'
                                      \/ \E j \in 1 .. Len(blocks) : blocks'[i] = blocks[j]
  PROVE  BreakOK'
<1>1. PICK n \in Requests \cup {0} :
         /\ brk_limit <= BrkBase + 1 + PtrScale * n * breaks
         /\ \A i \in 1 .. Len(blocks) :
               End(blocks[i]) <= BrkBase + 1 + PtrScale * n * breaks
  BY DEF BreakOK
<1>2. PICK k \in Requests \cup {0} : n <= k /\ length <= k
  BY Numbers
<1> DEFINE m == PtrScale * n
           r == PtrScale * k
           q == PtrScale * length
<1>3. n \in Nat /\ k \in Nat /\ length \in Nat /\ PtrScale \in Nat
  BY Numbers
<1>4. m \in Nat /\ r \in Nat /\ q \in Nat
  BY <1>3
<1>5. m <= r /\ q <= r
  <2>1. \A x, y, z \in Nat : x <= y => z * x <= z * y
    OBVIOUS
  <2> QED
    BY <1>2, <1>3, <2>1
<1>6. brk_limit' <= brk_limit + q
  OBVIOUS
<1>7. breaks \in Nat /\ MaxBreaks \in Nat /\ brk_limit \in Nat /\ BrkBase \in Nat
  BY Numbers DEF BreakOK
<1>8. \A i \in 1 .. Len(blocks) : End(blocks[i]) \in Nat
  <2>1. \A i \in 1 .. Len(blocks) : blocks[i] \in Blocks
    BY DEF BlocksOK
  <2> QED
    BY <2>1, BlockParts
<1> DEFINE top == BrkBase + 1 + m * breaks
           newTop == BrkBase + 1 + r * (breaks + 1)
<1>9. /\ BrkBase + 1 + PtrScale * k * breaks' = newTop
      /\ brk_limit <= top /\ \A i \in 1 .. Len(blocks) : End(blocks[i]) <= top
  BY <1>1
<1> HIDE DEF m, r, q
<1>10. m * breaks <= r * breaks /\ m * breaks \in Nat /\ r * breaks \in Nat
  <2>1. \A x, y, z \in Nat : x <= y => x * z <= y * z /\ x * z \in Nat /\ y * z \in Nat
    OBVIOUS
  <2> HIDE DEF top, newTop
  <2> QED
    BY <1>4, <1>5, <1>7, <2>1
<1>11. r * (breaks + 1) = r * breaks + r
  BY <1>4, <1>7
<1>12. top \in Nat /\ newTop \in Nat /\ top + q <= newTop
  <2> DEFINE a == m * breaks
             b == r * breaks
  <2>1. top = BrkBase + 1 + a /\ newTop = BrkBase + 1 + b + r
    BY <1>4, <1>7, <1>10, <1>11
  <2>2. a \in Nat /\ b \in Nat /\ a <= b
    BY <1>10
  <2> HIDE DEF a, b, top, newTop
  <2> QED
    BY <1>4, <1>5, <1>7, <2>1, <2>2
<1> HIDE DEF top, newTop
<1>13. brk_limit' <= newTop
  BY <1>4, <1>6, <1>7, <1>9, <1>12
<1>14. \A i \in 1 .. Len(blocks') : End(blocks'[i]) <= newTop
  <2> SUFFICES ASSUME NEW i \in 1 .. Len(blocks') PROVE End(blocks'[i]) <= newTop
    OBVIOUS
  <2>1. CASE End(blocks'[i]) = brk_limit'
    BY <1>13, <2>1
  <2>2. ASSUME NEW j \in 1 .. Len(blocks), blocks'[i] = blocks[j]
        PROVE  End(blocks'[i]) <= newTop
    <3>1. End(blocks[j]) <= top /\ End(blocks[j]) \in Nat
      BY <1>8, <1>9
    <3>2. End(blocks[j]) <= newTop
      BY <1>4, <1>12, <3>1
    <3> QED
      BY <2>2, <3>2
  <2> QED
    BY <2>1, <2>2
<1> QED
  BY <1>7, <1>9, <1>13, <1>14 DEF BreakOK

LEMMA GivenIsNat ==
  ASSUME StepOK
  PROVE  /\ Given \in Nat /\ Given <= Len(Modules) + 4
         /\ step[1] \in {"name", "process_create"} /\ step # <<"process_create", 3>>
               => Given < Len(Modules) + 2
         /\ step = <<"process_create", 3>> => Given = Len(Modules) + 3
<1>1. Len(Modules) \in Nat
  BY Numbers
<1>2. CASE step \in {<<"pmm", 0>>, <<"pmm", 1>>}
  BY <1>1, <1>2 DEF Given
<1>3. CASE \E k \in 0 .. VaddmSize : step = <<"vaddm", k>>
  BY <1>1, <1>3 DEF Given
<1>4. CASE \E i \in 1 .. Len(Modules) + 1 : step = <<"modules", i>>
  BY <1>1, <1>4 DEF Given
<1>5. CASE \E i \in 1 .. Len(Modules) : step = <<"name", i>>
  BY <1>1, <1>5 DEF Given
<1>6. CASE \E n \in 1 .. 3 : step = <<"process_create", n>>
  <2>1. CASE step = <<"process_create", 1>>
    BY <1>1, <2>1 DEF Given
  <2>2. CASE step = <<"process_create", 2>>
    BY <1>1, <2>2 DEF Given
  <2>3. CASE step = <<"process_create", 3>>
    BY <1>1, <2>3 DEF Given
  <2> QED
    BY <1>6, <2>1, <2>2, <2>3
<1>7. CASE \E n \in 1 .. 5 : step = <<"test", n>>
  BY <1>1, <1>7 DEF Given
<1>8. CASE step = <<"idle_process", 0>>
  BY <1>1, <1>8 DEF Given
<1> QED
  BY <1>2, <1>3, <1>4, <1>5, <1>6, <1>7, <1>8 DEF StepOK

LEMMA SameVpages ==
  ASSUME VpagesOK, UNCHANGED vpages, Given \in Nat, Given' \in Nat, Given <= Given'
  PROVE  VpagesOK'
<1>1. PICK n \in 0 .. Given : vpages = VMallocBase .. VMallocBase + n - 1
  BY DEF VpagesOK
<1>2. n \in 0 .. Given' /\ vpages' = VMallocBase .. VMallocBase + n - 1
  BY <1>1
<1> QED
  BY <1>2 DEF VpagesOK

\* The next page that vmalloc gives, and the one behind it.
LEMMA NextPages ==
  ASSUME VpagesOK, Given \in Nat, Given < Len(Modules) + 4
  PROVE  LET page == FirstFree(vpages) IN
         /\ page \in VMallocBase .. Slots - 1 /\ page \notin vpages
         /\ vpages \subseteq VMallocBase .. Slots - 1
         /\ \A k \in Nat : Given + 1 <= k => 
               \E n \in 0 .. k : vpages \cup {page} = VMallocBase .. VMallocBase + n - 1
         /\ Given < Len(Modules) + 3 =>
              /\ FirstFree(vpages \cup {page}) = page + 1
              /\ page + 1 \in VMallocBase .. Slots - 1 /\ page + 1 \notin vpages
              /\ \A k \in Nat : Given + 2 <= k =>
                    \E n \in 0 .. k : vpages \cup {page, page + 1}
                                      = VMallocBase .. VMallocBase + n - 1
<1> DEFINE page == FirstFree(vpages)
           L == Len(Modules)
<1>1. PICK n \in 0 .. Given : vpages = VMallocBase .. VMallocBase + n - 1
  BY DEF VpagesOK
<1>2. /\ VMallocBase \in Nat /\ L \in Nat /\ Slots \in Nat /\ n \in Nat
      /\ VMallocBase + L + 4 <= Slots
  BY Numbers, Sizes
<1>3. page = VMallocBase + n
  <2>1. VMallocBase + n < Slots
    BY <1>2
  <2> QED
    BY <1>1, <1>2, <2>1, FirstFreeIsNext
<1>4. vpages \cup {page} = VMallocBase .. VMallocBase + (n + 1) - 1
  BY <1>1, <1>2, <1>3, OneMore
<1> HIDE DEF page
<1>5. /\ page \in VMallocBase .. Slots - 1 /\ page \notin vpages
      /\ vpages \subseteq VMallocBase .. Slots - 1
  BY <1>1, <1>2, <1>3
<1>6. ASSUME NEW k \in Nat, Given + 1 <= k
      PROVE  \E m \in 0 .. k : vpages \cup {page} = VMallocBase .. VMallocBase + m - 1
  <2>1. n + 1 \in 0 .. k
    BY <1>6
  <2> QED
    BY <1>4, <2>1
<1>7. ASSUME L + 3 > Given
      PROVE  /\ FirstFree(vpages \cup {page}) = page + 1
             /\ page + 1 \in VMallocBase .. Slots - 1 /\ page + 1 \notin vpages
             /\ \A k \in Nat : Given + 2 <= k =>
                   \E m \in 0 .. k : vpages \cup {page, page + 1}
                                     = VMallocBase .. VMallocBase + m - 1
  <2>1. VMallocBase + (n + 1) < Slots /\ n + 1 \in Nat
    BY <1>2, <1>7
  <2>2. FirstFree(vpages \cup {page}) = VMallocBase + (n + 1)
    BY <1>4, <2>1, FirstFreeIsNext
  <2>3. FirstFree(vpages \cup {page}) = page + 1 /\ page + 1 = VMallocBase + (n + 1)
    BY <1>2, <1>3, <2>2
  <2>4. page + 1 \in VMallocBase .. Slots - 1 /\ page + 1 \notin vpages
    BY <1>1, <1>2, <2>1, <2>3
  <2>5. (vpages \cup {page}) \cup {page + 1} = VMallocBase .. VMallocBase + ((n + 1) + 1) - 1
    BY <1>4, <2>1, <2>3, OneMore
  <2>6. ASSUME NEW k \in Nat, Given + 2 <= k
        PROVE  \E m \in 0 .. k : vpages \cup {page, page + 1}
                                 = VMallocBase .. VMallocBase + m - 1
    <3>1. (n + 1) + 1 \in 0 .. k
      BY <1>2, <2>6
    <3>2. vpages \cup {page, page + 1} = (vpages \cup {page}) \cup {page + 1}
      OBVIOUS
    <3> QED
      BY <2>5, <3>1, <3>2
  <2> QED
    BY <2>3, <2>4, <2>6
<1>8. Given < L + 3 <=> L + 3 > Given
  BY <1>2
<1> QED
  BY <1>5, <1>6, <1>7, <1>8 DEF page

\* A step of kinit outside the loops.
LEMMA KinitFlow ==
  ASSUME Flow, StepOK', VpagesOK', call' = NoCall, UNCHANGED heapVars,
         pmm_inited' \in BOOLEAN, pmm_inited' <=> step'[1] # "pmm"
  PROVE  Flow'
<1>1. BlocksOK' /\ BreakOK'
  BY DEF Flow, BlocksOK, BreakOK, heapVars
<1> QED
  BY <1>1 DEF Flow, CallOK

LEMMA FlowKept ==
  ASSUME Flow, [Next]_vars
  PROVE  Flow'
<1> DEFINE L == Len(Modules)
<1>1. /\ L \in Nat /\ VaddmSize \in Nat
      /\ StepOK /\ VpagesOK /\ CallOK /\ BlocksOK /\ BreakOK
      /\ pmm_inited \in BOOLEAN /\ (pmm_inited <=> step[1] # "pmm")
      /\ Given \in Nat
  BY Numbers, GivenIsNat DEF Flow
<1> HIDE DEF L
<1>2. ASSUME UNCHANGED <<step, pmm_inited, vpages, call, heapVars>>
      PROVE  Flow'
  <2>1. StepOK' /\ pmm_inited' \in BOOLEAN /\ (pmm_inited' <=> step'[1] # "pmm")
    BY <1>1, <1>2 DEF StepOK
  <2>2. VpagesOK'
    BY <1>1, <1>2 DEF VpagesOK, Given
  <2>3. CallOK'
    BY <1>1, <1>2 DEF CallOK, HeapCall, heapVars
  <2>4. BlocksOK' /\ BreakOK'
    BY <1>1, <1>2 DEF BlocksOK, BreakOK, heapVars
  <2> QED
    BY <2>1, <2>2, <2>3, <2>4 DEF Flow
<1>3. ASSUME StepOK', step'[1] # "pmm", pmm_inited' = TRUE, call' = NoCall,
             UNCHANGED <<heapVars, vpages>>, Given' \in Nat, Given <= Given'
      PROVE  Flow'
  <2>1. VpagesOK'
    BY <1>1, <1>3, SameVpages
  <2> QED
    BY <1>1, <1>3, <2>1, KinitFlow DEF Flow
<1>4. ASSUME NEW page \in TlbPages, TlbFill(page) PROVE Flow'
  BY <1>2, <1>4 DEF TlbFill, kinitVars
<1>5. CASE UserFault
  BY <1>2, <1>5 DEF UserFault
<1>6. CASE vmm_switch_page_base
  BY <1>2, <1>6 DEF vmm_switch_page_base, kinitVars
<1>7. CASE pmm_init
  <2>1. CASE step = <<"pmm", 0>> /\ step' = <<"pmm", 1>>
             /\ UNCHANGED <<pmm_inited, call, heapVars, kinitVars>> /\ call = NoCall
    <3>1. /\ StepOK' /\ pmm_inited' \in BOOLEAN /\ (pmm_inited' <=> step'[1] # "pmm")
          /\ Given = 0 /\ Given' = 0
      BY <1>1, <2>1 DEF StepOK, Given
    <3>2. VpagesOK'
      BY <1>1, <2>1, <3>1, SameVpages DEF kinitVars
    <3> QED
      BY <2>1, <3>1, <3>2, KinitFlow
  <2>2. CASE step = <<"pmm", 1>> /\ step' = <<"vaddm", 0>> /\ pmm_inited' = TRUE
             /\ UNCHANGED <<call, heapVars, kinitVars>> /\ call = NoCall
    <3>1. StepOK' /\ Given = 0 /\ Given' = 0
      BY <1>1, <2>2 DEF StepOK, Given
    <3> QED
      BY <1>3, <2>2, <3>1 DEF kinitVars
  <2> QED
    BY <1>7, <2>1, <2>2 DEF pmm_init, Kinit
<1>8. CASE vaddm_init
  <2>1. /\ step = <<"vaddm", step[2]>> /\ call = NoCall /\ call' = NoCall
        /\ UNCHANGED <<pmm_inited, heapVars, vpages>>
        /\ \/ step[2] < VaddmSize /\ step' = <<"vaddm", step[2] + 1>>
           \/ step' = <<"modules", 1>>
    BY <1>8 DEF vaddm_init, Kinit, kinitVars
  <2>2. step[2] \in 0 .. VaddmSize
    BY <1>1, <2>1 DEF StepOK
  <2>3. StepOK' /\ Given = 0 /\ Given' = 0 /\ step'[1] # "pmm"
    <3>1. CASE step[2] < VaddmSize /\ step' = <<"vaddm", step[2] + 1>>
      <4>1. step[2] + 1 \in 0 .. VaddmSize
        BY <1>1, <2>2, <3>1
      <4> QED
        BY <2>1, <3>1, <4>1 DEF StepOK, Given
    <3>2. CASE step' = <<"modules", 1>>
      <4>1. 1 \in 1 .. Len(Modules) + 1
        BY <1>1 DEF L
      <4> QED
        BY <2>1, <3>2, <4>1 DEF StepOK, Given
    <3> QED
      BY <2>1, <3>1, <3>2
  <2>4. pmm_inited' = TRUE
    <3>1. step[1] # "pmm"
      BY <2>1
    <3> QED
      BY <1>1, <2>1, <3>1
  <2> QED
    BY <1>3, <2>1, <2>3, <2>4
<1>9. ASSUME NEW i \in DOMAIN Modules, MapCmdline(i) PROVE Flow'
  <2>1. /\ step = <<"modules", i>> /\ step' = <<"name", i>> /\ call' = NoCall
        /\ UNCHANGED <<pmm_inited, heapVars, vpages>>
    BY <1>9 DEF MapCmdline, Kinit
  <2>2. i \in 1 .. Len(Modules)
    BY PagingAssumption
  <2>3. StepOK' /\ Given = i - 1 /\ Given' = i - 1 /\ step'[1] # "pmm"
    BY <2>1, <2>2 DEF StepOK, Given
  <2>4. Given <= Given' /\ Given' \in Nat
    BY <2>2, <2>3
  <2>5. pmm_inited' = TRUE
    BY <1>1, <2>1, <2>3
  <2> QED
    BY <1>3, <2>1, <2>3, <2>4, <2>5
<1>10. ASSUME NEW i \in DOMAIN Modules, ReadName(i) PROVE Flow'
  <2>1. /\ step = <<"name", i>> /\ step' = <<"modules", i + 1>> /\ call' = NoCall
        /\ UNCHANGED <<pmm_inited, heapVars>>
        /\ vpages' \in {vpages, vpages \cup {FirstFree(vpages)}}
    BY <1>10 DEF ReadName, Kinit
  <2>2. i \in 1 .. Len(Modules)
    BY PagingAssumption
  <2>3. /\ StepOK' /\ Given = i - 1 /\ Given' = i /\ step'[1] # "pmm"
        /\ i \in Nat /\ i - 1 < L + 4 /\ i - 1 \in Nat
    <3>1. i + 1 \in 1 .. Len(Modules) + 1 /\ i - 1 < L + 4 /\ i - 1 \in Nat /\ i \in Nat
          /\ (i + 1) - 1 = i
      BY <1>1, <2>2 DEF L
    <3> QED
      BY <2>1, <2>2, <3>1 DEF StepOK, Given
  <2>4. VpagesOK'
    <3>1. CASE vpages' = vpages
      BY <1>1, <2>3, <3>1, SameVpages
    <3>2. CASE vpages' = vpages \cup {FirstFree(vpages)}
      <4>1. \E n \in 0 .. i : vpages \cup {FirstFree(vpages)}
                              = VMallocBase .. VMallocBase + n - 1
        <5>1. Given < Len(Modules) + 4 /\ Given + 1 <= i /\ i \in Nat
          BY <2>3 DEF L
        <5> QED
          BY <1>1, <5>1, NextPages
      <4> QED
        BY <2>3, <3>2, <4>1 DEF VpagesOK
    <3> QED
      BY <2>1, <3>1, <3>2
  <2>5. pmm_inited' \in BOOLEAN /\ (pmm_inited' <=> step'[1] # "pmm")
    BY <1>1, <2>1
  <2> QED
    BY <2>1, <2>3, <2>4, <2>5, KinitFlow
<1>11. CASE UnmapCmdline
  <2>1. /\ step = <<"modules", Len(Modules) + 1>> /\ step' = <<"process_create", 1>>
        /\ call' = NoCall /\ UNCHANGED <<pmm_inited, heapVars, vpages>>
    BY <1>11 DEF UnmapCmdline, Kinit, kinitVars
  <2>2. StepOK' /\ Given = Len(Modules) /\ Given' = Len(Modules) /\ step'[1] # "pmm"
    BY <1>1, <2>1 DEF StepOK, Given, L
  <2>3. pmm_inited' = TRUE
    BY <1>1, <2>1, <2>2
  <2>4. Given <= Given' /\ Given' \in Nat
    BY <1>1, <2>2 DEF L
  <2> QED
    BY <1>3, <2>1, <2>2, <2>3, <2>4
<1>12. ASSUME NEW n \in 1 .. 3, CreateProcess(n) PROVE Flow'
  <2> DEFINE page == FirstFree(vpages)
  <2>1. /\ step = <<"process_create", n>> /\ step' = AfterProcess(n)
        /\ UNCHANGED <<pmm_inited, heapVars>>
        /\ n # 2 => vpages' = vpages \cup {page} /\ call' = NoCall
        /\ n = 2 => /\ vpages' = vpages \cup {page, FirstFree(vpages \cup {page})}
                    /\ call' = [kind |-> "kstack", next |-> FirstFree(vpages \cup {page})]
    BY <1>12 DEF CreateProcess, Kinit, StackPages, IsUser
  <2> HIDE DEF page
  <2>2. pmm_inited' = TRUE
    BY <1>1, <2>1
  <2>3. CASE n = 1
    <3>1. /\ Given = L /\ StepOK' /\ step'[1] # "pmm" /\ Given' \in Nat /\ L + 1 <= Given'
      <4>1. step' \in {<<"process_create", 2>>, <<"process_create", 3>>}
        BY <2>1, <2>3 DEF AfterProcess
      <4>2. StepOK' /\ step'[1] # "pmm"
        BY <4>1 DEF StepOK
      <4>3. Given' \in {L + 1, L + 3}
        BY <4>1 DEF Given, L
      <4>4. Given = L
        BY <2>1, <2>3 DEF Given, L
      <4> QED
        BY <1>1, <4>2, <4>3, <4>4
    <3>2. VpagesOK'
      <4>1. \E m \in 0 .. Given' : vpages \cup {page} = VMallocBase .. VMallocBase + m - 1
        <5>1. Given < Len(Modules) + 4 /\ Given + 1 <= Given' /\ Given' \in Nat
          BY <1>1, <3>1 DEF L
        <5> QED
          BY <1>1, <5>1, NextPages DEF page
      <4>2. vpages' = vpages \cup {page}
        BY <2>1, <2>3
      <4> QED
        BY <4>1, <4>2, Zenon DEF VpagesOK
    <3> QED
      BY <2>1, <2>2, <2>3, <3>1, <3>2, KinitFlow
  <2>4. CASE n = 3
    <3>1. /\ Given = L + 3 /\ StepOK' /\ step'[1] # "pmm" /\ Given' = L + 4
      <4>1. step' = <<"test", 1>>
        BY <2>1, <2>4 DEF AfterProcess
      <4>2. StepOK' /\ step'[1] # "pmm"
        BY <4>1 DEF StepOK
      <4> QED
        BY <2>1, <2>4, <4>1, <4>2 DEF Given, L
    <3>2. VpagesOK'
      <4>1. \E m \in 0 .. Given' : vpages \cup {page} = VMallocBase .. VMallocBase + m - 1
        <5>1. Given < Len(Modules) + 4 /\ Given + 1 <= Given' /\ Given' \in Nat
          BY <1>1, <3>1 DEF L
        <5> QED
          BY <1>1, <5>1, NextPages DEF page
      <4>2. vpages' = vpages \cup {page}
        BY <2>1, <2>4
      <4> QED
        BY <4>1, <4>2, Zenon DEF VpagesOK
    <3> QED
      BY <2>1, <2>2, <2>4, <3>1, <3>2, KinitFlow
  <2>5. CASE n = 2
    <3>1. /\ Given = L + 1 /\ StepOK' /\ step' = <<"process_create", 3>>
          /\ Given' = L + 3
      <4>1. step' = <<"process_create", 3>>
        BY <2>1, <2>5 DEF AfterProcess
      <4>2. StepOK' /\ step'[1] # "pmm"
        BY <4>1 DEF StepOK
      <4> QED
        BY <2>1, <2>5, <4>1, <4>2 DEF Given, L
    <3>2. /\ FirstFree(vpages \cup {page}) = page + 1 /\ page + 1 \in Nat
          /\ \E m \in 0 .. Given' : vpages \cup {page, page + 1}
                                    = VMallocBase .. VMallocBase + m - 1
      <4>1. Given < Len(Modules) + 4 /\ Given < Len(Modules) + 3 /\ Given + 2 <= Given'
            /\ Given' \in Nat
        BY <1>1, <3>1 DEF L
      <4>2. FirstFree(vpages \cup {page}) = page + 1
        BY <1>1, <4>1, NextPages DEF page
      <4>3. page + 1 \in VMallocBase .. Slots - 1
        BY <1>1, <4>1, NextPages DEF page
      <4>4. \E m \in 0 .. Given' : vpages \cup {page, page + 1}
                                    = VMallocBase .. VMallocBase + m - 1
        BY <1>1, <4>1, NextPages DEF page
      <4> QED
        BY <4>2, <4>3, <4>4, Numbers, Sizes
    <3>3. VpagesOK'
      BY <2>1, <2>5, <3>2 DEF VpagesOK
    <3>4. CallOK'
      BY <2>1, <2>5, <3>1, <3>2 DEF CallOK
    <3>5. BlocksOK' /\ BreakOK'
      BY <1>1, <2>1 DEF BlocksOK, BreakOK, heapVars
    <3> QED
      BY <2>2, <3>1, <3>3, <3>4, <3>5 DEF Flow
  <2> QED
    BY <2>3, <2>4, <2>5
<1>13. CASE MapKernelStack
  <2>1. /\ call.kind = "kstack" /\ call' = NoCall
        /\ UNCHANGED <<pmm_inited, step, heapVars, vpages>>
    BY <1>13 DEF MapKernelStack, kinitVars
  <2>2. StepOK' /\ pmm_inited' \in BOOLEAN /\ (pmm_inited' <=> step'[1] # "pmm") /\ VpagesOK'
    BY <1>1, <2>1 DEF StepOK, VpagesOK, Given
  <2> QED
    BY <2>1, <2>2, KinitFlow
<1>14. CASE TestWrite \/ TestUnmap \/ TestRemap \/ TestCompare \/ TestEnd
  <2>1. PICK n \in 1 .. 5 : 
           /\ step = <<"test", n>> /\ call' = NoCall
           /\ UNCHANGED <<pmm_inited, heapVars, vpages>>
           /\ step' \in {<<"test", 2>>, <<"test", 3>>, <<"test", 4>>, <<"test", 5>>,
                         <<"idle_process", 0>>}
    <3>1. CASE TestWrite
      BY <3>1 DEF TestWrite, Kinit
    <3>2. CASE TestUnmap
      BY <3>2 DEF TestUnmap, Kinit, kinitVars
    <3>3. CASE TestRemap
      BY <3>3 DEF TestRemap, Kinit, kinitVars
    <3>4. CASE TestCompare
      <4>1. /\ step = <<"test", 4>> /\ call = NoCall /\ step' = <<"test", 5>>
            /\ UNCHANGED <<pmm_inited, call, heapVars, vpages>>
        BY <3>4, Zenon DEF TestCompare, Kinit
      <4> QED
        BY <4>1
    <3>5. CASE TestEnd
      BY <3>5 DEF TestEnd, Kinit, kinitVars
    <3> QED
      BY <1>14, <3>1, <3>2, <3>3, <3>4, <3>5
  <2>2. StepOK' /\ step'[1] # "pmm"
    BY <2>1 DEF StepOK
  <2>3. Given = L + 4 /\ Given' = L + 4
    <3>1. Given = L + 4
      BY <2>1 DEF Given, L
    <3>2. Given' = L + 4
      BY <2>1 DEF Given, L
    <3> QED
      BY <3>1, <3>2
  <2>4. pmm_inited' = TRUE
    BY <1>1, <2>1
  <2>5. Given <= Given' /\ Given' \in Nat
    BY <1>1, <2>3
  <2> QED
    BY <1>3, <2>1, <2>2, <2>4, <2>5
<1>15. CASE MapBrkBase
  <2>1. /\ call = NoCall /\ call' = NoCall /\ has_mapped' = TRUE
        /\ UNCHANGED <<pmm_inited, step, brk_limit, breaks, blocks, vpages>>
    BY <1>15 DEF MapBrkBase, Between, kinitVars
  <2>2. StepOK' /\ VpagesOK' /\ CallOK' /\ BlocksOK' /\ BreakOK'
    BY <1>1, <2>1 DEF StepOK, VpagesOK, Given, CallOK, BlocksOK, BreakOK
  <2> QED
    BY <1>1, <2>1, <2>2 DEF Flow
<1>16. CASE GrowPage
  <2>1. /\ call.kind = "grow"
        /\ call' = IF call.next + PtrScale < brk_limit
                   THEN [call EXCEPT !.next = @ + PtrScale] ELSE NoCall
        /\ UNCHANGED <<pmm_inited, step, heapVars, vpages>>
    BY <1>16 DEF GrowPage, kinitVars
  <2>2. StepOK' /\ VpagesOK' /\ BlocksOK' /\ BreakOK'
    BY <1>1, <2>1 DEF StepOK, VpagesOK, Given, BlocksOK, BreakOK, heapVars
  <2>3. /\ call = [kind |-> "grow", next |-> call.next] /\ call.next \in Nat
        /\ step \in HeapSteps /\ BrkBase + 1 <= call.next
    BY <1>1, <2>1 DEF CallOK, NoCall, HeapCall
  <2>4. CallOK'
    <3>1. CASE call.next + PtrScale < brk_limit
      <4> DEFINE next == call.next + PtrScale
      <4>1. call' = [kind |-> "grow", next |-> next]
        BY <2>1, <2>3, <3>1
      <4>2. next \in Nat /\ BrkBase + 1 <= next /\ next < brk_limit'
        <5>1. brk_limit' = brk_limit /\ PtrScale \in Nat /\ BrkBase \in Nat
          BY <2>1, Numbers DEF heapVars
        <5> QED
          BY <2>3, <3>1, <5>1
      <4> HIDE DEF next
      <4> QED
        BY <2>1, <2>3, <4>1, <4>2 DEF CallOK, HeapCall
    <3>2. CASE ~ (call.next + PtrScale < brk_limit)
      BY <2>1, <3>2 DEF CallOK
    <3> QED
      BY <3>1, <3>2
  <2> QED
    BY <1>1, <2>1, <2>2, <2>4 DEF Flow
<1>17. CASE ShrinkPage
  <2>1. /\ call.kind = "shrink"
        /\ call' = IF call.next - PtrScale > brk_limit
                   THEN [call EXCEPT !.next = @ - PtrScale] ELSE NoCall
        /\ UNCHANGED <<pmm_inited, step, heapVars, vpages>>
    BY <1>17 DEF ShrinkPage, kinitVars
  <2>2. StepOK' /\ VpagesOK' /\ BlocksOK' /\ BreakOK'
    BY <1>1, <2>1 DEF StepOK, VpagesOK, Given, BlocksOK, BreakOK, heapVars
  <2>3. /\ call = [kind |-> "shrink", next |-> call.next] /\ call.next \in Nat
        /\ step \in HeapSteps /\ call.next < TestPage
    BY <1>1, <2>1 DEF CallOK, NoCall, HeapCall
  <2>4. CallOK'
    <3>1. CASE call.next - PtrScale > brk_limit
      <4> DEFINE next == call.next - PtrScale
      <4>1. call' = [kind |-> "shrink", next |-> next]
        BY <2>1, <2>3, <3>1
      <4>2. next \in Nat /\ next < TestPage /\ brk_limit' < next
        <5>1. /\ brk_limit' = brk_limit /\ PtrScale \in Nat /\ TestPage \in Nat
              /\ brk_limit \in Nat
          BY <1>1, <2>1, Numbers DEF heapVars, BreakOK
        <5> QED
          BY <2>3, <3>1, <5>1
      <4> HIDE DEF next
      <4> QED
        BY <2>1, <2>3, <4>1, <4>2 DEF CallOK, HeapCall
    <3>2. CASE ~ (call.next - PtrScale > brk_limit)
      BY <2>1, <3>2 DEF CallOK
    <3> QED
      BY <3>1, <3>2
  <2> QED
    BY <1>1, <2>1, <2>2, <2>4 DEF Flow
<1>18. ASSUME NEW n \in Requests, GrowBreak(n) PROVE Flow'
  <2>1. /\ brk_limit' = brk_limit + PtrScale * n
        /\ blocks' = Append(blocks, [base |-> brk_limit, length |-> n])
        /\ call' = [kind |-> "grow", next |-> brk_limit]
        /\ breaks' = breaks + 1 /\ breaks < MaxBreaks /\ step \in HeapSteps
        /\ UNCHANGED <<pmm_inited, step, has_mapped, vpages>>
    BY <1>18 DEF GrowBreak, Between, kinitVars
  <2>2. brk_limit \in Nat /\ BrkBase + 1 <= brk_limit
    BY <1>1 DEF BreakOK
  <2>3. PtrScale * n \in Nat /\ PtrScale * n > 0
    <3>1. n \in Nat /\ n > 0
      BY Numbers
    <3> QED
      BY <3>1, Numbers
  <2>4. /\ BlocksOK'
        /\ \A i \in 1 .. Len(blocks') : \/ End(blocks'[i]) = brk_limit'
                                        \/ \E j \in 1 .. Len(blocks) : blocks'[i] = blocks[j]
    BY <1>1, <2>1, <2>2, BlocksGrow
  <2>5. /\ brk_limit' \in Nat /\ BrkBase + 1 <= brk_limit' /\ brk_limit < brk_limit'
        /\ brk_limit' <= brk_limit + PtrScale * n
    <3>1. BrkBase \in Nat
      BY Numbers
    <3> DEFINE m == PtrScale * n
    <3>2. brk_limit' = brk_limit + m /\ m \in Nat /\ m > 0
      BY <2>1, <2>3
    <3>3. brk_limit' <= brk_limit + m
      <4> HIDE DEF m
      <4> QED
        BY <2>2, <3>2
    <3> HIDE DEF m
    <3>4. /\ brk_limit' \in Nat /\ BrkBase + 1 <= brk_limit' /\ brk_limit < brk_limit'
      BY <2>2, <3>1, <3>2
    <3> QED
      BY <3>3, <3>4 DEF m
  <2>6. BreakOK'
    <3>1. n \in Requests \cup {0} /\ has_mapped' \in BOOLEAN
      BY <1>1, <2>1 DEF BreakOK
    <3> QED
      BY <1>1, <2>1, <2>4, <2>5, <3>1, BreakMoves
  <2>7. CallOK'
    BY <2>1, <2>2, <2>5 DEF CallOK, HeapCall
  <2>8. StepOK' /\ VpagesOK'
    BY <1>1, <2>1 DEF StepOK, VpagesOK, Given
  <2> QED
    BY <1>1, <2>1, <2>4, <2>6, <2>7, <2>8 DEF Flow
<1>19. ASSUME NEW i \in DOMAIN blocks, ShrinkBreak(i) PROVE Flow'
  <2>1. /\ brk_limit' = brk_limit - PtrScale * blocks[i].length
        /\ blocks' = [j \in 1 .. Len(blocks) - 1 |->
                         IF j < i THEN blocks[j] ELSE blocks[j + 1]]
        /\ call' = [kind |-> "shrink", next |-> brk_limit]
        /\ breaks' = breaks + 1 /\ breaks < MaxBreaks /\ step \in HeapSteps
        /\ UNCHANGED <<pmm_inited, step, has_mapped, vpages>>
    BY <1>19 DEF ShrinkBreak, Between, kinitVars
  <2>2. brk_limit \in Nat /\ brk_limit < TestPage
    BY <1>1, BreakBound
  <2>4. /\ BlocksOK' /\ brk_limit' \in Nat
        /\ BrkBase + 1 <= brk_limit' /\ brk_limit' < brk_limit
        /\ \A j \in 1 .. Len(blocks') : \E k \in 1 .. Len(blocks) : blocks'[j] = blocks[k]
    BY <1>1, <2>1, <2>2, BlocksShrink
  <2>5. BreakOK'
    <3>1. 0 \in Requests \cup {0} /\ has_mapped' \in BOOLEAN
          /\ brk_limit' <= brk_limit + PtrScale * 0
      BY <1>1, <2>1, <2>2, <2>4, Numbers DEF BreakOK
    <3> QED
      BY <1>1, <2>1, <2>4, <3>1, BreakMoves
  <2>6. CallOK'
    BY <2>1, <2>2, <2>4 DEF CallOK, HeapCall
  <2>7. StepOK' /\ VpagesOK'
    BY <1>1, <2>1 DEF StepOK, VpagesOK, Given
  <2> QED
    BY <1>1, <2>1, <2>4, <2>5, <2>6, <2>7 DEF Flow
<1>20. ASSUME NEW page, KernelFault(page) PROVE Flow'
  BY <1>2, <1>20 DEF KernelFault, kinitVars
<1>21. CASE UNCHANGED vars
  BY <1>2, <1>21 DEF vars, kinitVars
<1> QED
  BY <1>4, <1>5, <1>6, <1>7, <1>8, <1>9, <1>10, <1>11, <1>12, <1>13, <1>14, <1>15, <1>16,
     <1>17, <1>18, <1>19, <1>20, <1>21 DEF Next

-----------------------------------------------------------------------------
(* The calls that the actions make.                                        *)

\* The directory lets user programs into the tables below the kernel's.
DirOK == \A t \in Tables :
            Present(t) => /\ PAGE_DIRECTORY[t].rw
                          /\ PAGE_DIRECTORY[t].user <=> t < KernelTable

TablesInv(S) == CoreInv /\ DirOK /\ Accounted(S)

LEMMA RefusedKeeps ==
  ASSUME NEW S, TablesInv(S), NEW page \in Pages, NEW entry, NEW flags \in AllFlags,
         NEW got, taken \subseteq got, got \subseteq Frames, pmm_inited' \in BOOLEAN,
         smap_page(page, entry, flags, got), Refuses(page, flags)
  PROVE  /\ TablesInv(S)' /\ Mapped(page) /\ ~ flags.remap
         /\ \A q \in Pages : PageEntry(q)' = PageEntry(q)
<1>1. /\ taken' = got /\ dropped' = dropped \cup (got \ taken)
      /\ UNCHANGED <<PAGE_DIRECTORY, page_tables, tlb>>
  BY DEF smap_page
<1>2. \A q : PageEntry(q)' = PageEntry(q) /\ Translation(q)' = Translation(q)
  BY <1>1 DEF PageEntry, Translation
<1>3. TableFrames' = TableFrames /\ InUse' = InUse
  BY <1>1, <1>2 DEF TableFrames, InUse, Present, Mapped, FrameOf
<1>4. TablesOK'
  BY <1>1, <1>3 DEF TablesInv, CoreInv, TablesOK, Present
<1>5. UsesOK' /\ TlbOK'
  BY <1>1, <1>2, <1>3 DEF TablesInv, CoreInv, UsesOK, TlbOK, Mapped, FrameOf
<1>6. DirOK'
  BY <1>1 DEF TablesInv, DirOK, Present
<1>7. Accounted(S)'
  <2>1. taken = (InUse \cap Frames) \cup dropped \cup S
    BY DEF TablesInv, Accounted
  <2>2. InUse \cap (dropped \cup S) = {}
    BY DEF TablesInv, Accounted
  <2>3. InUse \cap (got \ taken) = {}
    BY <2>1
  <2> QED
    BY <1>1, <1>3, <2>1, <2>2, <2>3 DEF Accounted
<1>8. Mapped(page) /\ ~ flags.remap
  BY DEF Refuses, Mapped
<1> QED
  BY <1>2, <1>4, <1>5, <1>6, <1>7, <1>8 DEF TablesInv, CoreInv

LEMMA DirKeeps ==
  ASSUME TablesOK, DirOK, NEW page \in Pages, NEW flags \in AllFlags, NEW got,
         DirEntry(page, flags, got) \in Entries,
         PAGE_DIRECTORY' = [PAGE_DIRECTORY EXCEPT
                              ![TableOf(page)] = DirEntry(page, flags, got)],
         ~ pmm_inited => ~ flags.user /\ ~ (TableOf(page) < KernelTable)
  PROVE  DirOK'
<1> DEFINE t0 == TableOf(page)
           dir == DirEntry(page, flags, got)
<1>1. t0 \in Tables
  BY PageParts
<1>2. \A t \in Tables : PAGE_DIRECTORY'[t] = IF t = t0 THEN dir ELSE PAGE_DIRECTORY[t]
  BY <1>1 DEF TablesOK
<1>3. dir.rw /\ (dir.user <=> t0 < KernelTable)
  <2>1. CASE Present(t0)
    BY <1>1, <2>1 DEF DirEntry, DirOK
  <2>2. CASE ~ Present(t0) /\ pmm_inited
    <3> DEFINE b == TableOf(page) < KernelTable
    <3>1. dir = Entry(pmalloc(got), b, TRUE)
      BY <2>2 DEF DirEntry, NewDirEntry
    <3> HIDE DEF b, dir
    <3>2. dir.user = b /\ dir.rw
      BY <3>1 DEF Entry
    <3>3. b <=> t0 < KernelTable
      BY DEF b
    <3> QED
      BY <3>2, <3>3
  <2>3. CASE ~ Present(t0) /\ ~ pmm_inited
    <3>1. dir = Entry(BootTable, flags.user, TRUE)
      BY <2>3 DEF DirEntry, NewDirEntry
    <3> QED
      BY <2>3, <3>1 DEF Entry
  <2> QED
    BY <2>1, <2>2, <2>3
<1> HIDE DEF t0, dir
<1> QED
  BY <1>2, <1>3 DEF DirOK, Present

LEMMA MapsKeep ==
  ASSUME CoreInv, DirOK, NEW page \in Pages, NEW entry \in Entries,
         NEW flags \in AllFlags,
         NEW got, NEW S, S \subseteq Frames, got \subseteq Frames,
         taken \subseteq got, InUse \cap (dropped \cup S) = {},
         got = (InUse \cap Frames) \cup dropped \cup S \cup ({entry.frame} \cap Frames),
         entry.present \/ entry = Absent,
         entry.frame \in Pool => /\ entry.frame \notin InUse \cup dropped \cup S
                                 /\ entry.frame # BootTable,
         Mapped(page) => FrameOf(page) \notin Pool,
         pmm_inited => pmalloc(got) \in Frames \ got,
         ~ pmm_inited => /\ \A t \in Tables : Present(t) => t = TableOf(page)
                         /\ ~ flags.user /\ ~ (TableOf(page) < KernelTable),
         smap_page(page, entry, flags, got), ~ Refuses(page, flags),
         pmm_inited' \in BOOLEAN
  PROVE  /\ TablesInv(S)'
         /\ \A q \in Pages : PageEntry(q)' = IF q = page THEN entry ELSE PageEntry(q)
         /\ PAGE_DIRECTORY' = [PAGE_DIRECTORY EXCEPT
                                 ![TableOf(page)] = DirEntry(page, flags, got)]
<1>1. TablesOK
  BY DEF CoreInv
<1>2. DirEntry(page, flags, got) \in Entries
  BY <1>1, SmapEffect
<1>3. PAGE_DIRECTORY' = [PAGE_DIRECTORY EXCEPT
                           ![TableOf(page)] = DirEntry(page, flags, got)]
  BY <1>1, SmapEffect
<1>4. \A q \in Pages : PageEntry(q)' = IF q = page THEN entry ELSE PageEntry(q)
  BY <1>1, SmapEffect
<1>5. DirOK'
  BY <1>1, <1>2, <1>3, DirKeeps
<1>6. CoreInv'
  BY MapKeeps
<1>7. Accounted(S)'
  BY MapKeeps
<1> QED
  BY <1>3, <1>4, <1>5, <1>6, <1>7 DEF TablesInv

\* With two frames left there is one for a page and one for its table.
LEMMA TwoLeft ==
  ASSUME NEW got, IsFiniteSet(Frames), Cardinality(Frames \ got) >= 2
  PROVE  /\ pmalloc(got) \in Frames \ got
         /\ \A f \in Frames \ got : pmalloc(got) <= f
         /\ pmalloc(got \cup {pmalloc(got)}) \in Frames \ (got \cup {pmalloc(got)})
<1> DEFINE F == Frames \ got
           a == pmalloc(got)
           G == F \ {a}
<1>1. IsFiniteSet(F) /\ F \subseteq Nat
  BY FS_Subset, Sizes
<1>2. F # {}
  <2> SUFFICES ASSUME F = {} PROVE FALSE
    OBVIOUS
  <2>1. Cardinality(F) = 0
    BY FS_EmptySet
  <2> QED
    BY <2>1
<1>3. a \in F /\ \A f \in F : a <= f
  <2>1. a = Min(F)
    BY DEF pmalloc
  <2> HIDE DEF a, F
  <2> QED
    BY <1>1, <1>2, <2>1, LeastElement
<1>4. G # {}
  <2> SUFFICES ASSUME G = {} PROVE FALSE
    OBVIOUS
  <2>1. F = {a}
    BY <1>3
  <2>2. Cardinality(F) = 1
    <3> HIDE DEF a, F
    <3> QED
      BY <2>1, FS_Singleton
  <2> QED
    BY <2>2
<1>5. Min(G) \in G
  <2>1. G \subseteq Nat
    BY <1>1
  <2> HIDE DEF G
  <2> QED
    BY <1>4, <2>1, LeastElement
<1>6. G = Frames \ (got \cup {a})
  OBVIOUS
<1>7. pmalloc(got \cup {a}) = Min(G)
  BY <1>6 DEF pmalloc
<1> QED
  BY <1>3, <1>5, <1>6, <1>7

\* Two frames are left: HasFrames, with Frames finite.
LEMMA FramesLeft ==
  ASSUME HasFrames
  PROVE  /\ pmalloc(taken) \in Frames \ taken
         /\ \A f \in Frames \ taken : pmalloc(taken) <= f
         /\ pmalloc(taken \cup {pmalloc(taken)})
               \in Frames \ (taken \cup {pmalloc(taken)})
<1>1. IsFiniteSet(Frames)
  BY PagingAssumption
<1> QED
  BY <1>1, TwoLeft DEF HasFrames

\* vmm_map_address(page, pmalloc(), flags): a page that is mapped stays as it is.
LEMMA MapNewKeeps ==
  ASSUME NEW S, S \subseteq Frames, TablesInv(S), HasFrames, pmm_inited,
         NEW page \in Pages, NEW flags \in AllFlags, ~ flags.remap,
         MapNew(page, flags), pmm_inited' \in BOOLEAN
  PROVE  /\ TablesInv(S)'
         /\ \A q \in Pages : q # page => PageEntry(q)' = PageEntry(q)
         /\ Mapped(page) => PageEntry(page)' = PageEntry(page)
         /\ ~ Mapped(page) =>
               PageEntry(page)' = Entry(pmalloc(taken), flags.user, flags.rw)
<1> DEFINE frame == pmalloc(taken)
           got == taken \cup {frame}
           entry == Entry(frame, flags.user, flags.rw)
<1>1. smap_page(page, entry, flags, got)
  BY DEF MapNew
<1>2. /\ frame \in Frames \ taken /\ frame \in Nat
      /\ pmalloc(got) \in Frames \ got
  BY FramesLeft, Sizes
<1>3. taken \subseteq Frames /\ CoreInv /\ DirOK
  BY DEF TablesInv, CoreInv, TablesOK
<1> HIDE DEF frame
<1>4. /\ entry \in Entries /\ entry.present /\ entry.frame = frame
  BY <1>2, EntryFields DEF AllFlags
<1> HIDE DEF entry
<1>5. taken \subseteq got /\ got \subseteq Frames
  BY <1>2, <1>3
<1> HIDE DEF got
<1>6. CASE Refuses(page, flags)
  <2>1. TablesInv(S)' /\ Mapped(page)
    BY <1>1, <1>5, <1>6, RefusedKeeps
  <2>2. \A q \in Pages : PageEntry(q)' = PageEntry(q)
    BY <1>1, <1>5, <1>6, RefusedKeeps
  <2> QED
    BY <2>1, <2>2
<1>7. CASE ~ Refuses(page, flags)
  <2>1. ~ Mapped(page)
    BY <1>7 DEF Refuses, Mapped
  <2>2. /\ InUse \cap (dropped \cup S) = {}
        /\ taken = (InUse \cap Frames) \cup dropped \cup S
    BY DEF TablesInv, Accounted
  <2>3. got = (InUse \cap Frames) \cup dropped \cup S \cup ({entry.frame} \cap Frames)
    BY <1>2, <1>4, <2>2 DEF got
  <2>4. entry.frame \notin InUse \cup dropped \cup S /\ entry.frame # BootTable
    BY <1>2, <1>4, <2>2, Sizes
  <2>5. pmalloc(got) \in Frames \ got
    BY <1>2
  <2>6. /\ TablesInv(S)'
        /\ \A q \in Pages : PageEntry(q)' = IF q = page THEN entry ELSE PageEntry(q)
    <3>1. TablesInv(S)'
      BY <1>1, <1>3, <1>4, <1>5, <1>7, <2>1, <2>2, <2>3, <2>4, <2>5, MapsKeep
    <3>2. \A q \in Pages : PageEntry(q)' = IF q = page THEN entry ELSE PageEntry(q)
      BY <1>1, <1>3, <1>4, <1>5, <1>7, <2>1, <2>2, <2>3, <2>4, <2>5, MapsKeep
    <3> QED
      BY <3>1, <3>2
  <2> QED
    BY <2>1, <2>6 DEF entry, frame
<1> QED
  BY <1>6, <1>7 DEF entry, frame

\* smap_page of a frame that is not of the pool, or of none.
LEMMA MapOtherKeeps ==
  ASSUME NEW S, S \subseteq Frames, TablesInv(S), HasFrames,
         NEW page \in Pages, NEW flags \in AllFlags,
         NEW entry \in Entries, entry.present \/ entry = Absent, entry.frame \notin Pool,
         flags.remap /\ Mapped(page) => FrameOf(page) \notin Pool,
         ~ pmm_inited => /\ \A t \in Tables : Present(t) => t = TableOf(page)
                         /\ ~ flags.user /\ ~ (TableOf(page) < KernelTable),
         smap_page(page, entry, flags, taken), pmm_inited' \in BOOLEAN
  PROVE  /\ TablesInv(S)'
         /\ \A q \in Pages : q # page => PageEntry(q)' = PageEntry(q)
         /\ Mapped(page) /\ ~ flags.remap => PageEntry(page)' = PageEntry(page)
         /\ ~ Mapped(page) \/ flags.remap => PageEntry(page)' = entry
<1>1. taken \subseteq Frames /\ CoreInv /\ DirOK
  BY DEF TablesInv, CoreInv, TablesOK
<1>2. CASE Refuses(page, flags)
  <2>1. TablesInv(S)' /\ Mapped(page) /\ ~ flags.remap
    BY <1>1, <1>2, RefusedKeeps
  <2>2. \A q \in Pages : PageEntry(q)' = PageEntry(q)
    BY <1>1, <1>2, RefusedKeeps
  <2> QED
    BY <2>1, <2>2
<1>3. CASE ~ Refuses(page, flags)
  <2>1. ~ Mapped(page) \/ flags.remap
    BY <1>3 DEF Refuses, Mapped
  <2>2. /\ InUse \cap (dropped \cup S) = {}
        /\ taken = (InUse \cap Frames) \cup dropped \cup S
    BY DEF TablesInv, Accounted
  <2>3. taken = (InUse \cap Frames) \cup dropped \cup S \cup ({entry.frame} \cap Frames)
    BY <2>2 DEF Pool
  <2>4. Mapped(page) => FrameOf(page) \notin Pool
    BY <2>1
  <2>5. pmalloc(taken) \in Frames \ taken
    BY FramesLeft
  <2>6. TablesInv(S)'
    BY <1>1, <1>3, <2>2, <2>3, <2>4, <2>5, MapsKeep
  <2>7. \A q \in Pages : PageEntry(q)' = IF q = page THEN entry ELSE PageEntry(q)
    BY <1>1, <1>3, <2>2, <2>3, <2>4, <2>5, MapsKeep
  <2> QED
    BY <2>1, <2>6, <2>7
<1> QED
  BY <1>2, <1>3

\* vmm_unmap_address frees the frame, if it is one of the pool.
LEMMA UnmapKeeps ==
  ASSUME NEW S, S \subseteq Frames, TablesInv(S), NEW page \in Pages,
         vmm_unmap_address(page), pmm_inited' \in BOOLEAN
  PROVE  /\ TablesInv(S)'
         /\ taken' = taken \ {PageEntry(page).frame}
         /\ \A q \in Pages : q # page => PageEntry(q)' = PageEntry(q)
         /\ PageEntry(page)' = Absent /\ ~ Mapped(page)'
<1> DEFINE f == PageEntry(page).frame
<1>1. /\ sumap_page(page) /\ taken' = taken \ {f}
      /\ UNCHANGED <<PAGE_DIRECTORY, dropped>>
  BY DEF vmm_unmap_address, sumap_page
<1>2. /\ TablesOK /\ UsesOK /\ TlbOK /\ DirOK
      /\ taken = (InUse \cap Frames) \cup dropped \cup S
      /\ InUse \cap (dropped \cup S) = {}
  BY DEF TablesInv, CoreInv, Accounted
<1>3. ~ Mapped(page) => PageEntry(page) = Absent /\ f = 0
  BY <1>2 DEF UsesOK, Absent
<1>4. Mapped(page) => f \in InUse /\ f \notin TableFrames
  BY <1>2 DEF InUse, UsesOK, FrameOf
<1>5. 0 \notin Frames /\ BootTable \notin Frames
  BY Sizes DEF Pool
<1>6. taken \subseteq Frames /\ dropped \subseteq taken
      /\ TableFrames \subseteq taken \cup {BootTable}
  BY <1>2 DEF TablesOK
<1> HIDE DEF f
<1>7. /\ taken' \subseteq Frames /\ dropped \subseteq taken'
      /\ TableFrames \subseteq taken' \cup {BootTable}
  BY <1>1, <1>2, <1>3, <1>4, <1>5, <1>6
<1>8. /\ TablesOK'
      /\ \A q \in Pages : PageEntry(q)' = IF q = page /\ PageEntry(page).present
                                          THEN Absent ELSE PageEntry(q)
      /\ tlb' = IF PageEntry(page).present THEN flush_tlb(page) ELSE tlb
  <2>1. TablesOK'
    BY <1>1, <1>2, <1>7, UnmapEffect
  <2>2. \A q \in Pages : PageEntry(q)' = IF q = page /\ PageEntry(page).present
                                         THEN Absent ELSE PageEntry(q)
    BY <1>1, <1>2, <1>7, UnmapEffect
  <2>3. tlb' = IF PageEntry(page).present THEN flush_tlb(page) ELSE tlb
    BY <1>1, <1>2, <1>7, UnmapEffect
  <2> QED
    BY <2>1, <2>2, <2>3
<1>9. /\ PageEntry(page)' = Absent /\ ~ Mapped(page)'
      /\ \A q \in Pages : q # page => /\ PageEntry(q)' = PageEntry(q)
                                      /\ Mapped(q)' = Mapped(q) /\ FrameOf(q)' = FrameOf(q)
  <2>1. PageEntry(page)' = Absent
    BY <1>3, <1>8 DEF Mapped
  <2>2. ~ Mapped(page)'
    BY <2>1 DEF Mapped, Absent
  <2> QED
    BY <1>8, <2>1, <2>2 DEF Mapped, FrameOf
<1>10. TableFrames' = TableFrames /\ DirOK'
  BY <1>1, <1>2 DEF TableFrames, Present, DirOK
<1>11. UsesOK'
  BY <1>2, <1>9, <1>10 DEF UsesOK
<1>12. \A g \in Frames : g \in InUse' <=> g \in InUse /\ g # f
  <2> SUFFICES ASSUME NEW g \in Frames PROVE g \in InUse' <=> g \in InUse /\ g # f
    OBVIOUS
  <2>1. InUse' = TableFrames' \cup {FrameOf(p)' : p \in {q \in Pages : Mapped(q)'}}
    BY DEF InUse
  <2>2. ASSUME g \in InUse' PROVE g \in InUse /\ g # f
    <3>1. CASE g \in TableFrames
      BY <1>3, <1>4, <1>5, <3>1 DEF InUse
    <3>2. ASSUME NEW p \in Pages, Mapped(p)', g = FrameOf(p)' PROVE g \in InUse /\ g # f
      <4>1. p # page /\ Mapped(p) /\ g = FrameOf(p)
        BY <1>9, <3>2
      <4>2. g \in InUse
        BY <4>1 DEF InUse
      <4>3. g # f
        <5>1. CASE Mapped(page)
          <6>1. g \in Pool
            BY DEF Pool
          <6> QED
            BY <1>2, <4>1, <5>1, <6>1 DEF UsesOK, FrameOf, f
        <5>2. CASE ~ Mapped(page)
          BY <1>3, <1>5, <5>2
        <5> QED
          BY <5>1, <5>2
      <4> QED
        BY <4>2, <4>3
    <3> QED
      BY <1>10, <2>1, <2>2, <3>1, <3>2
  <2>3. ASSUME g \in InUse, g # f PROVE g \in InUse'
    <3>1. CASE g \in TableFrames
      BY <1>10, <2>1, <3>1
    <3>2. ASSUME NEW p \in Pages, Mapped(p), g = FrameOf(p) PROVE g \in InUse'
      <4>1. p # page
        BY <2>3, <3>2 DEF FrameOf, f
      <4> QED
        BY <1>9, <2>1, <3>2, <4>1
    <3> QED
      BY <2>3, <3>1, <3>2 DEF InUse
  <2> QED
    BY <2>2, <2>3
<1>13. Accounted(S)'
  <2>1. InUse' \cap (dropped' \cup S) = {}
    BY <1>1, <1>2, <1>6, <1>12
  <2>2. \A g \in Frames : g \in taken' <=> g \in InUse' \/ g \in dropped' \/ g \in S
    <3>1. f \in Frames => f \notin dropped \cup S
      BY <1>2, <1>3, <1>4, <1>5
    <3> QED
      BY <1>1, <1>2, <1>12, <3>1
  <2>3. taken' \subseteq Frames /\ dropped' \subseteq Frames
    BY <1>1, <1>6, <1>7
  <2> QED
    BY <2>1, <2>2, <2>3 DEF Accounted
<1>14. TlbOK'
  <2> SUFFICES ASSUME NEW p \in DOMAIN tlb'
               PROVE  p \in Pages /\ tlb'[p].present /\ tlb'[p] = Translation(p)'
    BY DEF TlbOK
  <2>1. p \in DOMAIN tlb /\ tlb'[p] = tlb[p] /\ (p = page => ~ Mapped(page))
    BY <1>8 DEF flush_tlb, Restrict, Mapped
  <2>2. p \in Pages /\ tlb[p].present /\ tlb[p] = Translation(p)
    BY <1>2, <2>1 DEF TlbOK
  <2>3. Mapped(p)
    BY <2>2 DEF Translation, Mapped, Absent
  <2>4. p # page
    BY <2>1, <2>3
  <2>5. Translation(p)' = Translation(p)
    BY <1>1, <1>9, <2>2, <2>4 DEF Translation
  <2> QED
    BY <2>1, <2>2, <2>5
<1>15. TablesInv(S)'
  BY <1>8, <1>10, <1>11, <1>13, <1>14 DEF TablesInv, CoreInv
<1> QED
  BY <1>1, <1>9, <1>15 DEF f

\* The TLB keeps a translation that the tables have, or is flushed.
LEMMA TlbKeeps ==
  ASSUME NEW S, TablesInv(S), UNCHANGED <<PAGE_DIRECTORY, page_tables, taken, dropped>>,
         pmm_inited' \in BOOLEAN,
         \/ tlb' = tlb \/ tlb' = <<>>
         \/ \E page \in Pages : /\ Translation(page).present
                                /\ tlb' = Updated(tlb, page, Translation(page))
  PROVE  TablesInv(S)' /\ \A q : PageEntry(q)' = PageEntry(q)
<1>1. \A q : PageEntry(q)' = PageEntry(q) /\ Translation(q)' = Translation(q)
  BY DEF PageEntry, Translation
<1>2. TableFrames' = TableFrames /\ InUse' = InUse
  BY <1>1 DEF TableFrames, InUse, Present, Mapped, FrameOf
<1>3. TablesOK' /\ DirOK'
  BY <1>2 DEF TablesInv, CoreInv, TablesOK, DirOK, Present
<1>4. UsesOK' /\ Accounted(S)'
  BY <1>1, <1>2 DEF TablesInv, CoreInv, UsesOK, Accounted, Mapped, FrameOf
<1>5. TlbOK'
  <2>1. CASE tlb' = tlb
    BY <1>1, <2>1 DEF TablesInv, CoreInv, TlbOK
  <2>2. CASE tlb' = <<>>
    BY <2>2 DEF TlbOK
  <2>3. CASE \E page \in Pages : /\ Translation(page).present
                                 /\ tlb' = Updated(tlb, page, Translation(page))
    <3>1. PICK page \in Pages : /\ Translation(page).present
                                /\ tlb' = Updated(tlb, page, Translation(page))
      BY <2>3
    <3>2. \A p \in DOMAIN tlb' : \/ p = page /\ tlb'[p] = Translation(page)
                                 \/ p \in DOMAIN tlb /\ tlb'[p] = tlb[p]
      BY <3>1 DEF Updated
    <3> QED
      BY <1>1, <3>1, <3>2 DEF TablesInv, CoreInv, TlbOK
  <2> QED
    BY <2>1, <2>2, <2>3
<1> QED
  BY <1>1, <1>3, <1>4, <1>5 DEF TablesInv, CoreInv

-----------------------------------------------------------------------------
(* The inductive invariant.                                                *)

\* The frames of the PMM test, while it runs.
Piece == IF step[1] = "test" /\ step[2] \in 2 .. 4
         THEN test.big .. test.big + BigSize - 1 ELSE {}

TestSteps == {<<"test", 2>>, <<"test", 4>>, <<"test", 5>>}

\* Where a page may be mapped.
Place(p) == \/ p \in vpages
            \/ p = CmdlinePage /\ FrameOf(p) \notin Pool
            \/ p \in VaddmPage .. VaddmPage + VaddmSize
            \/ p \in {PmmPage, PmmPage + 3}
            \/ BrkBase <= p /\ p < TestPage
            \/ p = TestPage /\ step \in TestSteps

Placed == \A p \in Pages : Mapped(p) => Place(p)

\* Before pmm_init is done smap_page has one table for all.
Phase == /\ step = <<"pmm", 0>> => \A t \in Tables : ~ Present(t)
         /\ step = <<"pmm", 1>> => \A t \in Tables : Present(t) => t = TableOf(PmmPage)

\* paddr1 is the lowest frame that is free, so paddr2 is the same.
TestOK ==
    /\ step \in {<<"test", 2>>, <<"test", 3>>, <<"test", 4>>} =>
          /\ test.big \in Nat /\ test.paddr1 \in Frames
          /\ Piece \subseteq Frames
    /\ step \in {<<"test", 2>>, <<"test", 4>>} =>
          Mapped(TestPage) /\ FrameOf(TestPage) = test.paddr1
    /\ step = <<"test", 3>> => test.paddr1 \notin taken
    /\ step \in {<<"test", 2>>, <<"test", 3>>} =>
          \A f \in Frames \ taken : test.paddr1 <= f

IInv == /\ Flow /\ TablesInv(Piece) /\ Placed /\ Phase /\ TestOK
        /\ PmmTestPasses

\* The piece of the PMM test lies above the frames that the kernel has taken, all of
\* which the test frees (pfree(paddr_big, 4096) frees 4096 frames, not 128).
PieceIsLast == step = <<"test", 4>> => \A f \in taken : f < test.big + BigSize

\* A trap from ring 3 finds the process's stack below its kernel_esp, mapped and
\* writable; the program is that of a module that has been read.
StacksOK ==
    \A q \in processes :
       q.user => /\ q.kernel_esp = q.stack + 1 /\ q.stack \in vpages
                 /\ Mapped(q.stack) /\ PageEntry(q.stack).rw

ProgramOK ==
    program # 0 =>
       /\ program \in vpages /\ step[1] \notin {"pmm", "vaddm"}
       /\ \E i \in DOMAIN Modules :
             Modules[i].isTest /\ (step[1] \in {"modules", "name"} => i < step[2])

ProcessesOK == /\ StacksOK /\ ProgramOK
               /\ call.kind = "kstack" => ~ Mapped(call.next)

\* The pages of ring 3 are those with the user bit.
UserInv == /\ \A p \in Pages : Mapped(p) /\ PageEntry(p).user <=> p \in UserPages
           /\ UserPages \subseteq 0 .. KernelTable * Slots - 1
           /\ ProcessesOK

LEMMA VpagesBelow ==
  ASSUME Flow
  PROVE  vpages \subseteq VMallocBase .. Slots - 1
<1>1. PICK n \in 0 .. Given : vpages = VMallocBase .. VMallocBase + n - 1
  BY DEF Flow, VpagesOK
<1>2. Given \in Nat /\ Given <= Len(Modules) + 4
  BY GivenIsNat DEF Flow
<1>3. VMallocBase + Len(Modules) + 4 <= Slots /\ VMallocBase \in Nat
      /\ Len(Modules) \in Nat /\ Slots \in Nat
  BY Numbers, Sizes
<1> QED
  BY <1>1, <1>2, <1>3

\* What vmalloc has not given is not mapped, and the page of the PMM test is
\* mapped by the test alone.
LEMMA NotMappedYet ==
  ASSUME Flow, Placed
  PROVE  /\ \A p \in VMallocBase .. Slots - 1 : p \notin vpages => p \in Pages /\ ~ Mapped(p)
         /\ step \notin TestSteps => ~ Mapped(TestPage)
<1>1. vpages \subseteq VMallocBase .. Slots - 1
  BY VpagesBelow
<1>2. /\ VMallocBase \in Nat /\ CmdlinePage \in Nat /\ VaddmPage \in Nat /\ PmmPage \in Nat
      /\ BrkBase \in Nat /\ TestPage \in Nat /\ VaddmSize \in Nat /\ Slots \in Nat
      /\ KernelTable * Slots \in Nat
      /\ Slots <= CmdlinePage /\ CmdlinePage < KernelTable * Slots
      /\ KernelTable * Slots <= VaddmPage /\ VaddmPage + VaddmSize < PmmPage
      /\ PmmPage + 3 < BrkBase /\ BrkBase + 1 < TestPage
  BY Numbers, Sizes
<1>3. ASSUME NEW p \in VMallocBase .. Slots - 1, p \notin vpages
      PROVE  p \in Pages /\ ~ Mapped(p)
  <2>1. p \in Int /\ 0 <= p /\ p <= TestPage
    BY <1>2
  <2>2. p \in Pages
    BY <2>1, PagesBelow
  <2>3. ~ Place(p)
    BY <1>2, <1>3 DEF Place
  <2> QED
    BY <2>2, <2>3 DEF Placed
<1>4. ASSUME step \notin TestSteps PROVE ~ Mapped(TestPage)
  <2>1. ~ Place(TestPage)
    BY <1>1, <1>2, <1>4 DEF Place
  <2> QED
    BY <2>1, Numbers DEF Placed
<1> QED
  BY <1>3, <1>4

LEMMA CmdlineApart ==
  ASSUME Flow
  PROVE  /\ CmdlinePage \notin vpages
         /\ ~ (CmdlinePage \in VaddmPage .. VaddmPage + VaddmSize)
         /\ CmdlinePage \notin {PmmPage, PmmPage + 3} /\ ~ (BrkBase <= CmdlinePage)
         /\ CmdlinePage # TestPage /\ CmdlinePage < BrkBase
<1>1. vpages \subseteq VMallocBase .. Slots - 1
  BY VpagesBelow
<1>2. /\ VMallocBase \in Nat /\ CmdlinePage \in Nat /\ VaddmPage \in Nat
      /\ BrkBase \in Nat /\ TestPage \in Nat /\ VaddmSize \in Nat /\ Slots \in Nat
      /\ PmmPage \in Nat /\ Slots <= CmdlinePage
      /\ VaddmPage + VaddmSize < PmmPage
      /\ PmmPage + 3 < BrkBase /\ BrkBase + 1 < TestPage
  BY Numbers, Sizes
<1>3. CmdlinePage < VaddmPage
  BY Numbers
<1> QED
  BY <1>1, <1>2, <1>3

PlainStep == step \notin {<<"pmm", 0>>, <<"pmm", 1>>, <<"test", 2>>, <<"test", 3>>,
                          <<"test", 4>>}

StepAmong(s) ==
    \/ s \in {<<"pmm", 0>>, <<"pmm", 1>>}
    \/ \E k \in 0 .. VaddmSize : s = <<"vaddm", k>>
    \/ \E i \in 1 .. Len(Modules) + 1 : s = <<"modules", i>>
    \/ \E i \in 1 .. Len(Modules) : s = <<"name", i>>
    \/ \E n \in 1 .. 3 : s = <<"process_create", n>>
    \/ \E n \in 1 .. 5 : s = <<"test", n>>
    \/ s = <<"idle_process", 0>>

LEMMA TestAmong ==
  ASSUME NEW s, StepAmong(s), s[1] = "test", s[2] \in 2 .. 4
  PROVE  s \in {<<"test", 2>>, <<"test", 3>>, <<"test", 4>>}
<1>1. ~ (s \in {<<"pmm", 0>>, <<"pmm", 1>>})
  OBVIOUS
<1>2. ~ (\E k \in 0 .. VaddmSize : s = <<"vaddm", k>>)
  OBVIOUS
<1>3. ~ (\E i \in 1 .. Len(Modules) + 1 : s = <<"modules", i>>)
  OBVIOUS
<1>4. ~ (\E i \in 1 .. Len(Modules) : s = <<"name", i>>)
  OBVIOUS
<1>5. ~ (\E n \in 1 .. 3 : s = <<"process_create", n>>)
  OBVIOUS
<1>6. s # <<"idle_process", 0>>
  OBVIOUS
<1>7. PICK n \in 1 .. 5 : s = <<"test", n>>
  BY <1>1, <1>2, <1>3, <1>4, <1>5, <1>6 DEF StepAmong
<1>8. n = s[2]
  BY <1>7
<1>9. n = 2 \/ n = 3 \/ n = 4
  BY <1>8
<1> QED
  BY <1>7, <1>9

LEMMA NoPiece ==
  ASSUME StepOK, PlainStep
  PROVE  Piece = {}
<1> SUFFICES ASSUME step[1] = "test", step[2] \in 2 .. 4 PROVE FALSE
  BY DEF Piece
<1>1. StepAmong(step)
  BY Zenon DEF StepOK, StepAmong
<1> QED
  BY <1>1, TestAmong DEF PlainStep

LEMMA NotPmm ==
  ASSUME StepOK, PlainStep
  PROVE  step[1] # "pmm"
<1>1. CASE \E k \in 0 .. VaddmSize : step = <<"vaddm", k>>
  BY <1>1
<1>2. CASE \E i \in 1 .. Len(Modules) + 1 : step = <<"modules", i>>
  BY <1>2
<1>3. CASE \E i \in 1 .. Len(Modules) : step = <<"name", i>>
  BY <1>3
<1>4. CASE \E n \in 1 .. 3 : step = <<"process_create", n>>
  BY <1>4
<1>5. CASE \E n \in 1 .. 5 : step = <<"test", n>>
  BY <1>5
<1>6. CASE step = <<"idle_process", 0>>
  BY <1>6
<1> QED
  BY <1>1, <1>2, <1>3, <1>4, <1>5, <1>6 DEF StepOK, PlainStep

\* A step outside pmm_init and the PMM test keeps the invariant if it keeps the
\* tables and maps pages in their places.
LEMMA Closes ==
  ASSUME IInv, TablesInv({})', Flow', step \notin TestSteps, PlainStep',
         vpages \subseteq vpages', panic' \notin {"Mappings Not Equal", "Equvalence"},
         \A q \in Pages : PageEntry(q)' = PageEntry(q) \/ ~ Mapped(q)' \/ Place(q)'
  PROVE  IInv'
<1>1. Placed'
  <2> SUFFICES ASSUME NEW q \in Pages, Mapped(q)' PROVE Place(q)'
    BY DEF Placed
  <2>1. CASE PageEntry(q)' = PageEntry(q)
    <3>1. Mapped(q) /\ FrameOf(q)' = FrameOf(q)
      BY <2>1 DEF Mapped, FrameOf
    <3>2. Place(q)
      BY <3>1 DEF IInv, Placed
    <3> QED
      BY <3>1, <3>2 DEF Place
  <2> QED
    BY <2>1
<1>2. Phase' /\ TestOK'
  BY DEF Phase, TestOK, PlainStep
<1>3. Piece' = {}
  <2>1. StepOK' /\ PlainStep'
    BY DEF Flow
  <2>2. ASSUME step'[1] = "test", step'[2] \in 2 .. 4 PROVE FALSE
    <3>1. StepAmong(step')
      BY <2>1, Zenon DEF StepOK, StepAmong
    <3>2. step' \in {<<"test", 2>>, <<"test", 3>>, <<"test", 4>>}
      BY <2>2, <3>1, TestAmong
    <3> QED
      BY <2>1, <3>2 DEF PlainStep
  <2> QED
    BY <2>2 DEF Piece
<1>4. TablesInv(Piece)'
  BY <1>3 DEF TablesInv, Accounted
<1> QED
  BY <1>1, <1>2, <1>4 DEF IInv, PmmTestPasses

\* A step that does not touch the tables, the step of kinit and what it holds.
LEMMA SameInv ==
  ASSUME IInv, Flow', UNCHANGED <<PAGE_DIRECTORY, page_tables, taken, dropped, step,
                                  vpages, test>>,
         panic' \notin {"Mappings Not Equal", "Equvalence"},
         \/ tlb' = tlb \/ tlb' = <<>>
         \/ \E page \in Pages : /\ Translation(page).present
                                /\ tlb' = Updated(tlb, page, Translation(page))
  PROVE  IInv' /\ \A q : PageEntry(q)' = PageEntry(q)
<1>1. PICK S : S = Piece
  OBVIOUS
<1>2. TablesInv(S) /\ pmm_inited' \in BOOLEAN
  BY <1>1 DEF IInv, Flow
<1>3. TablesInv(S)'
  BY <1>2, TlbKeeps
<1>4. \A q : PageEntry(q)' = PageEntry(q)
  BY <1>2, TlbKeeps
<1>5. Piece' = S
  BY <1>1 DEF Piece
<1>6. TablesInv(Piece)'
  BY <1>3, <1>5 DEF TablesInv, Accounted
<1>7. Placed'
  BY <1>4 DEF IInv, Placed, Place, Mapped, FrameOf
<1>8. Phase'
  BY DEF IInv, Phase, Present
<1>9. TestOK'
  BY <1>1, <1>4, <1>5 DEF IInv, TestOK, Mapped, FrameOf
<1> QED
  BY <1>4, <1>6, <1>7, <1>8, <1>9 DEF IInv, PmmTestPasses

LEMMA NewInv ==
  ASSUME IInv, Flow', HasFrames, NEW page \in Pages, NEW flags \in AllFlags,
         ~ flags.remap, MapNew(page, flags),
         PlainStep, step \notin TestSteps, PlainStep', vpages \subseteq vpages',
         panic' \notin {"Mappings Not Equal", "Equvalence"},
         \/ page \in vpages'
         \/ page \in VaddmPage .. VaddmPage + VaddmSize
         \/ BrkBase <= page /\ page < TestPage
  PROVE  /\ IInv'
         /\ \A q \in Pages : q # page => PageEntry(q)' = PageEntry(q)
         /\ Mapped(page) => PageEntry(page)' = PageEntry(page)
         /\ ~ Mapped(page) =>
               PageEntry(page)' = Entry(pmalloc(taken), flags.user, flags.rw)
<1>1. pmm_inited /\ pmm_inited' \in BOOLEAN /\ StepOK
  <2>1. StepOK
    BY DEF IInv, Flow
  <2>2. step[1] # "pmm"
    BY <2>1, NotPmm
  <2> QED
    BY <2>1, <2>2 DEF IInv, Flow
<1>2. TablesInv({})
  BY <1>1, NoPiece DEF IInv
<1>3. TablesInv({})'
  BY <1>1, <1>2, MapNewKeeps
<1>4. \A q \in Pages : q # page => PageEntry(q)' = PageEntry(q)
  BY <1>1, <1>2, MapNewKeeps
<1>5. Mapped(page) => PageEntry(page)' = PageEntry(page)
  BY <1>1, <1>2, MapNewKeeps
<1>6. ~ Mapped(page) => PageEntry(page)' = Entry(pmalloc(taken), flags.user, flags.rw)
  BY <1>1, <1>2, MapNewKeeps
<1>7. Place(page)'
  BY DEF Place
<1>8. IInv'
  BY <1>3, <1>4, <1>7, Closes
<1> QED
  BY <1>4, <1>5, <1>6, <1>8

LEMMA OtherInv ==
  ASSUME IInv, Flow', HasFrames, NEW page \in Pages, NEW flags \in AllFlags,
         NEW entry \in Entries, entry.present \/ entry = Absent, entry.frame \notin Pool,
         flags.remap => page = CmdlinePage,
         smap_page(page, entry, flags, taken),
         PlainStep, step \notin TestSteps, PlainStep', vpages \subseteq vpages',
         panic' \notin {"Mappings Not Equal", "Equvalence"},
         \/ page \in vpages'
         \/ page = CmdlinePage
         \/ page \in VaddmPage .. VaddmPage + VaddmSize
  PROVE  /\ IInv'
         /\ \A q \in Pages : q # page => PageEntry(q)' = PageEntry(q)
         /\ Mapped(page) /\ ~ flags.remap => PageEntry(page)' = PageEntry(page)
         /\ ~ Mapped(page) \/ flags.remap => PageEntry(page)' = entry
<1>1. pmm_inited /\ pmm_inited' \in BOOLEAN /\ StepOK
  <2>1. StepOK
    BY DEF IInv, Flow
  <2>2. step[1] # "pmm"
    BY <2>1, NotPmm
  <2> QED
    BY <2>1, <2>2 DEF IInv, Flow
<1>2. TablesInv({})
  BY <1>1, NoPiece DEF IInv
<1>3. Mapped(page) /\ page = CmdlinePage => FrameOf(page) \notin Pool
  <2> SUFFICES ASSUME Mapped(page), page = CmdlinePage PROVE FrameOf(page) \notin Pool
    OBVIOUS
  <2>1. Place(page)
    BY DEF IInv, Placed
  <2>2. /\ CmdlinePage \notin vpages
        /\ ~ (CmdlinePage \in VaddmPage .. VaddmPage + VaddmSize)
        /\ CmdlinePage \notin {PmmPage, PmmPage + 3} /\ ~ (BrkBase <= CmdlinePage)
        /\ CmdlinePage # TestPage
    BY CmdlineApart DEF IInv
  <2> QED
    BY <2>1, <2>2 DEF Place
<1>4. TablesInv({})'
  BY <1>1, <1>2, <1>3, MapOtherKeeps
<1>5. \A q \in Pages : q # page => PageEntry(q)' = PageEntry(q)
  BY <1>1, <1>2, <1>3, MapOtherKeeps
<1>6. Mapped(page) /\ ~ flags.remap => PageEntry(page)' = PageEntry(page)
  BY <1>1, <1>2, <1>3, MapOtherKeeps
<1>7. ~ Mapped(page) \/ flags.remap => PageEntry(page)' = entry
  BY <1>1, <1>2, <1>3, MapOtherKeeps
<1>8. PageEntry(page)' = PageEntry(page) \/ Place(page)'
  <2>1. CASE page = CmdlinePage /\ PageEntry(page)' = entry
    BY <2>1 DEF Place, FrameOf
  <2>2. CASE PageEntry(page)' = PageEntry(page)
    BY <2>2
  <2>3. CASE page # CmdlinePage
    BY <2>3 DEF Place
  <2> QED
    BY <1>6, <1>7, <2>1, <2>2, <2>3
<1>9. IInv'
  BY <1>4, <1>5, <1>8, Closes
<1> QED
  BY <1>5, <1>6, <1>7, <1>9

-----------------------------------------------------------------------------
(* The actions.  None of them touches a page that the heap has; all but    *)
(* five map pages of the kernel only.                                      *)

\* No page between the first of the heap and the break is mapped otherwise.
HeapKept == \A p \in Pages : Mapped(p) /\ BrkBase + 1 <= p /\ p < brk_limit
                             => PageEntry(p)' = PageEntry(p)

\* Pages change from the kernel's first on only, and programs get none of them.
KernelOnly == \A p \in Pages : \/ PageEntry(p)' = PageEntry(p)
                               \/ VaddmPage <= p /\ ~ PageEntry(p)'.user

\* The tables from KernelTable on are those of the pages from there on.
LEMMA KernelPages ==
  ASSUME NEW p \in Pages
  PROVE  TableOf(p) < KernelTable <=> p < KernelTable * Slots
<1> DEFINE t == TableOf(p)
           i == Index(p)
<1>1. /\ t \in Nat /\ i \in 0 .. Slots - 1 /\ p = Slots * t + i
  BY PageParts DEF Tables
<1>2. Slots \in Nat /\ Slots > 0 /\ KernelTable \in Nat
  BY Numbers, Sizes
<1> HIDE DEF t, i
<1>3. ASSUME t < KernelTable PROVE p < KernelTable * Slots
  <2>1. t + 1 <= KernelTable
    BY <1>1, <1>2, <1>3
  <2>2. (t + 1) * Slots <= KernelTable * Slots
    BY <1>1, <1>2, <2>1
  <2>3. (t + 1) * Slots = Slots * t + Slots
    BY <1>1, <1>2
  <2>4. Slots * t \in Nat /\ KernelTable * Slots \in Nat
    BY <1>1, <1>2
  <2> QED
    BY <1>1, <1>2, <2>2, <2>3, <2>4
<1>4. ASSUME ~ (t < KernelTable) PROVE ~ (p < KernelTable * Slots)
  <2>1. KernelTable * Slots <= t * Slots
    BY <1>1, <1>2, <1>4
  <2>2. t * Slots = Slots * t /\ Slots * t \in Nat /\ KernelTable * Slots \in Nat
    BY <1>1, <1>2
  <2> QED
    BY <1>1, <1>2, <2>1, <2>2
<1>5. t < KernelTable <=> p < KernelTable * Slots
  BY <1>3, <1>4
<1> QED
  BY <1>5 DEF t

LEMMA HeapStepPlain ==
  ASSUME step \in HeapSteps
  PROVE  PlainStep /\ step \notin TestSteps
<1>1. HeapSteps \subseteq {<<"modules", 1>>, <<"test", 1>>, <<"idle_process", 0>>}
                          \cup ({"process_create"} \X (1 .. 3))
  BY PagingAssumption
<1>2. CASE step \in {<<"modules", 1>>, <<"test", 1>>, <<"idle_process", 0>>}
  BY <1>2 DEF PlainStep, TestSteps
<1>3. CASE step \in {"process_create"} \X (1 .. 3)
  BY <1>3 DEF PlainStep, TestSteps
<1> QED
  BY <1>1, <1>2, <1>3

LEMMA FlagsAreFlags ==
  /\ {Kernel, KernelRead, User, UserRead, UserRemap} \subseteq AllFlags
  /\ ~ Kernel.remap /\ ~ Kernel.user /\ Kernel.rw
  /\ ~ KernelRead.remap /\ ~ KernelRead.user
  /\ ~ User.remap /\ User.user /\ User.rw
  /\ ~ UserRead.remap /\ UserRead.user
  /\ UserRemap.remap /\ UserRemap.user
<1>1. /\ Kernel \in AllFlags /\ ~ Kernel.remap /\ ~ Kernel.user /\ Kernel.rw
  BY DEF Kernel, AllFlags
<1>2. /\ KernelRead \in AllFlags /\ ~ KernelRead.remap /\ ~ KernelRead.user
  BY <1>1 DEF KernelRead, AllFlags
<1>3. /\ User \in AllFlags /\ ~ User.remap /\ User.user /\ User.rw
  BY <1>1 DEF User, AllFlags
<1>4. /\ UserRead \in AllFlags /\ ~ UserRead.remap /\ UserRead.user
  BY <1>3 DEF UserRead, AllFlags
<1>5. /\ UserRemap \in AllFlags /\ UserRemap.remap /\ UserRemap.user
  BY <1>4 DEF UserRemap, AllFlags
<1> QED
  BY <1>1, <1>2, <1>3, <1>4, <1>5

LEMMA SameAction ==
  ASSUME IInv, Flow',
         \/ \E page \in TlbPages : TlbFill(page)
         \/ UserFault \/ vmm_switch_page_base
         \/ \E n \in Requests : GrowBreak(n)
         \/ \E i \in DOMAIN blocks : ShrinkBreak(i)
         \/ UNCHANGED vars
  PROVE  IInv' /\ HeapKept /\ KernelOnly /\ \A q : PageEntry(q)' = PageEntry(q)
<1>1. /\ UNCHANGED <<PAGE_DIRECTORY, page_tables, taken, dropped, step, vpages, test>>
      /\ panic' \notin {"Mappings Not Equal", "Equvalence"}
      /\ \/ tlb' = tlb \/ tlb' = <<>>
         \/ \E page \in Pages : /\ Translation(page).present
                                /\ tlb' = Updated(tlb, page, Translation(page))
  <2>0. panic \notin {"Mappings Not Equal", "Equvalence"}
    BY DEF IInv, PmmTestPasses
  <2>1. CASE \E page \in TlbPages : TlbFill(page)
    <3>1. TlbPages \subseteq Pages
      BY PagingAssumption
    <3> QED
      BY <2>0, <2>1, <3>1 DEF TlbFill, kinitVars
  <2>2. CASE UserFault
    BY <2>2 DEF UserFault, pagingVars
  <2>3. CASE vmm_switch_page_base
    BY <2>0, <2>3 DEF vmm_switch_page_base, kinitVars
  <2>4. CASE \E n \in Requests : GrowBreak(n)
    BY <2>0, <2>4 DEF GrowBreak, pagingVars, kinitVars
  <2>5. CASE \E i \in DOMAIN blocks : ShrinkBreak(i)
    BY <2>0, <2>5 DEF ShrinkBreak, pagingVars, kinitVars
  <2>6. CASE UNCHANGED vars
    BY <2>0, <2>6 DEF vars, pagingVars, kinitVars
  <2> QED
    BY <2>1, <2>2, <2>3, <2>4, <2>5, <2>6
<1>2. IInv'
  BY <1>1, SameInv
<1>3. \A q : PageEntry(q)' = PageEntry(q)
  BY <1>1, SameInv
<1> QED
  BY <1>2, <1>3 DEF HeapKept, KernelOnly

LEMMA PmmInitAction ==
  ASSUME IInv, Flow', pmm_init
  PROVE  IInv' /\ HeapKept /\ KernelOnly
<1>1. /\ TablesInv(Piece) /\ Flow /\ PmmTestPasses /\ Placed /\ Phase
      /\ TablesOK /\ CoreInv /\ DirOK
  BY DEF IInv, TablesInv, CoreInv
<1>2. /\ VaddmPage \in Nat /\ VaddmSize \in Nat /\ PmmPage \in Nat /\ BrkBase \in Nat
      /\ KernelTable * Slots \in Nat /\ KernelTable * Slots <= VaddmPage
      /\ VaddmPage + VaddmSize < PmmPage /\ PmmPage + 3 < BrkBase /\ TestPage \in Nat
      /\ BrkBase + 1 < TestPage
  BY Numbers
<1>3. PmmPage \in Pages /\ PmmPage + 3 \in Pages
  BY <1>2, PagesBelow
<1>4. ~ (TableOf(PmmPage) < KernelTable) /\ ~ (TableOf(PmmPage + 3) < KernelTable)
  <2>1. ~ (PmmPage < KernelTable * Slots) /\ ~ (PmmPage + 3 < KernelTable * Slots)
    BY <1>2
  <2> QED
    BY <1>3, <2>1, KernelPages
<1>5. CASE Kinit("pmm", 0)
  <2> DEFINE entry == Entry(PmmFrame, Kernel.user, Kernel.rw)
  <2>1. /\ step = <<"pmm", 0>> /\ step' = <<"pmm", 1>> /\ panic' = panic
        /\ smap_page(PmmPage, entry, Kernel, taken) /\ HasFrames
    BY <1>5 DEF pmm_init, Kinit, MapFrame, kinitVars
  <2>2. /\ entry \in Entries /\ entry.present /\ entry.frame = PmmFrame /\ ~ entry.user
    <3>1. Kernel.user \in BOOLEAN /\ Kernel.rw \in BOOLEAN /\ ~ Kernel.user
      BY FlagsAreFlags DEF AllFlags
    <3>2. PmmFrame \in Nat
      BY Sizes
    <3> QED
      BY <3>1, <3>2, EntryFields
  <2> HIDE DEF entry
  <2>3. Piece = {} /\ ~ pmm_inited /\ pmm_inited' \in BOOLEAN
    BY <1>1, <2>1 DEF Piece, Flow
  <2>4. \A t \in Tables : ~ Present(t)
    BY <1>1, <2>1 DEF Phase
  <2>5. \A q \in Pages : ~ Mapped(q)
    BY <2>4, PageParts DEF Mapped, PageEntry, Present, Absent
  <2>6. InUse = {}
    BY <2>4, <2>5 DEF InUse, TableFrames
  <2>7. taken \subseteq Frames /\ dropped \subseteq Frames /\ taken = dropped
    BY <1>1, <2>3, <2>6 DEF TablesOK, TablesInv, Accounted
  <2>8. taken = (InUse \cap Frames) \cup dropped \cup {} \cup ({entry.frame} \cap Frames)
    BY <2>2, <2>6, <2>7, Sizes
  <2>9. entry.frame \notin InUse \cup dropped \cup {} /\ entry.frame # BootTable
    BY <2>2, <2>6, <2>7, Sizes
  <2>10. ~ Refuses(PmmPage, Kernel)
    BY <1>3, <2>5 DEF Refuses, Mapped
  <2>11. Kernel \in AllFlags /\ ~ Kernel.user
    BY FlagsAreFlags
  <2>12. /\ {} \subseteq Frames /\ taken \subseteq taken
         /\ InUse \cap (dropped \cup {}) = {}
         /\ Mapped(PmmPage) => FrameOf(PmmPage) \notin Pool
    BY <1>3, <2>5, <2>6
  <2>13. /\ TablesInv({})'
         /\ \A q \in Pages : PageEntry(q)' = IF q = PmmPage THEN entry ELSE PageEntry(q)
    <3>1. TablesInv({})'
      BY <1>1, <1>3, <1>4, <2>1, <2>2, <2>3, <2>4, <2>7, <2>8, <2>9, <2>10, <2>11, <2>12,
         MapsKeep
    <3>2. \A q \in Pages : PageEntry(q)' = IF q = PmmPage THEN entry ELSE PageEntry(q)
      BY <1>1, <1>3, <1>4, <2>1, <2>2, <2>3, <2>4, <2>7, <2>8, <2>9, <2>10, <2>11, <2>12,
         MapsKeep
    <3> QED
      BY <3>1, <3>2
  <2>14. PAGE_DIRECTORY' = [PAGE_DIRECTORY EXCEPT
                              ![TableOf(PmmPage)] = DirEntry(PmmPage, Kernel, taken)]
    BY <1>1, <1>3, <1>4, <2>1, <2>2, <2>3, <2>4, <2>5, <2>6, <2>7, <2>8, <2>9, <2>10, <2>11,
       MapsKeep
  <2>15. Placed'
    BY <2>5, <2>13 DEF Placed, Place, Mapped
  <2>16. Phase'
    <3>1. \A t \in Tables : t # TableOf(PmmPage) => ~ Present(t)'
      BY <1>1, <2>4, <2>14 DEF Present, TablesOK
    <3> QED
      BY <2>1, <3>1 DEF Phase
  <2>17. TestOK' /\ Piece' = {}
    BY <2>1 DEF TestOK, Piece
  <2>18. TablesInv(Piece)'
    BY <2>13, <2>17 DEF TablesInv, Accounted
  <2>19. HeapKept /\ KernelOnly
    BY <1>2, <2>2, <2>5, <2>13 DEF HeapKept, KernelOnly
  <2> QED
    BY <1>1, <2>1, <2>15, <2>16, <2>17, <2>18, <2>19 DEF IInv, PmmTestPasses
<1>6. CASE Kinit("pmm", 1)
  <2> DEFINE entry == Entry(0, KernelRead.user, KernelRead.rw)
  <2>1. /\ step = <<"pmm", 1>> /\ step' = <<"vaddm", 0>> /\ panic' = panic /\ vpages' = vpages
        /\ smap_page(PmmPage + 3, entry, KernelRead, taken) /\ HasFrames
    BY <1>6 DEF pmm_init, Kinit, MapFrame, kinitVars
  <2>2. /\ entry \in Entries /\ entry.present /\ entry.frame = 0 /\ ~ entry.user
    BY FlagsAreFlags, EntryFields, Sizes DEF AllFlags
  <2> HIDE DEF entry
  <2>3. Piece = {} /\ ~ pmm_inited /\ pmm_inited' \in BOOLEAN
    BY <1>1, <2>1 DEF Piece, Flow
  <2>4. \A t \in Tables : Present(t) => t = TableOf(PmmPage + 3)
    BY <1>1, <2>1, LayoutAssumption DEF Phase
  <2>5. entry.frame \notin Pool /\ KernelRead \in AllFlags /\ ~ KernelRead.remap
        /\ ~ KernelRead.user
    BY <2>2, Sizes, FlagsAreFlags
  <2>6. TablesInv({})
    BY <1>1, <2>3
  <2>7. TablesInv({})'
    BY <1>3, <1>4, <2>1, <2>2, <2>3, <2>4, <2>5, <2>6, MapOtherKeeps
  <2>8. \A q \in Pages : q # PmmPage + 3 => PageEntry(q)' = PageEntry(q)
    BY <1>3, <1>4, <2>1, <2>2, <2>3, <2>4, <2>5, <2>6, MapOtherKeeps
  <2>9. Mapped(PmmPage + 3) => PageEntry(PmmPage + 3)' = PageEntry(PmmPage + 3)
    BY <1>3, <1>4, <2>1, <2>2, <2>3, <2>4, <2>5, <2>6, MapOtherKeeps
  <2>10. ~ Mapped(PmmPage + 3) => PageEntry(PmmPage + 3)' = entry
    BY <1>3, <1>4, <2>1, <2>2, <2>3, <2>4, <2>5, <2>6, MapOtherKeeps
  <2>11. Place(PmmPage + 3)'
    BY DEF Place
  <2>12. IInv'
    <3>1. step \notin TestSteps /\ PlainStep'
      BY <2>1 DEF TestSteps, PlainStep
    <3> QED
      BY <1>1, <2>1, <2>7, <2>8, <2>11, <3>1, Closes DEF PmmTestPasses
  <2>13. HeapKept /\ KernelOnly
    <3>1. VaddmPage <= PmmPage + 3 /\ ~ (BrkBase + 1 <= PmmPage + 3)
      BY <1>2
    <3> QED
      BY <2>2, <2>8, <2>9, <2>10, <3>1 DEF HeapKept, KernelOnly
  <2> QED
    BY <2>12, <2>13
<1> QED
  BY <1>5, <1>6 DEF pmm_init

LEMMA BlockLength ==
  ASSUME NEW b \in Blocks
  PROVE  /\ b.base \in Nat /\ b.length \in Nat /\ End(b) \in Nat
         /\ b.base + b.length <= End(b)
<1> DEFINE len == b.length
<1>1. b.base \in Nat /\ b.length \in Requests /\ End(b) \in Nat
  BY BlockParts
<1>2. \A r \in Requests : r \in Nat
  BY Numbers
<1>3. len \in Nat /\ PtrScale \in Nat /\ PtrScale > 0
  BY <1>1, <1>2, Numbers
<1>4. End(b) = b.base + PtrScale * len
  BY DEF End
<1> HIDE DEF len
<1>5. len <= PtrScale * len /\ PtrScale * len \in Nat
  BY <1>3
<1>6. b.base + len <= End(b)
  BY <1>1, <1>3, <1>4, <1>5
<1> QED
  BY <1>1, <1>3, <1>6 DEF len

\* The blocks lie in the heap.
LEMMA BlocksBelow ==
  ASSUME BlocksOK, BreakOK, NEW i \in DOMAIN blocks
  PROVE  /\ blocks[i] \in Blocks /\ BrkBase + 1 <= blocks[i].base
         /\ End(blocks[i]) < TestPage
<1>1. i \in 1 .. Len(blocks) /\ blocks[i] \in Blocks
  BY DEF BlocksOK
<1>2. End(blocks[i]) \in Nat
  BY <1>1, BlockParts
<1> QED
  BY <1>1, <1>2, BreakBound DEF BlocksOK

\* A page of the kernel, with a frame of its own.
LEMMA KernelNew ==
  ASSUME IInv, Flow', HasFrames, NEW page \in Pages, MapNew(page, Kernel),
         PlainStep, step \notin TestSteps, PlainStep', UNCHANGED <<vpages, panic>>,
         \/ page \in VaddmPage .. VaddmPage + VaddmSize
         \/ BrkBase <= page /\ page < TestPage
  PROVE  IInv' /\ HeapKept /\ KernelOnly
<1>1. /\ Kernel \in AllFlags /\ ~ Kernel.remap /\ ~ Kernel.user
  BY FlagsAreFlags
<1>2. /\ vpages \subseteq vpages' /\ panic' \notin {"Mappings Not Equal", "Equvalence"}
  BY DEF IInv, PmmTestPasses
<1>3. IInv'
  BY <1>1, <1>2, NewInv
<1>4. \A q \in Pages : q # page => PageEntry(q)' = PageEntry(q)
  BY <1>1, <1>2, NewInv
<1>5. Mapped(page) => PageEntry(page)' = PageEntry(page)
  BY <1>1, <1>2, NewInv
<1>6. ~ Mapped(page) => PageEntry(page)' = Entry(pmalloc(taken), Kernel.user, Kernel.rw)
  BY <1>1, <1>2, NewInv
<1>7. ~ Mapped(page) => ~ PageEntry(page)'.user
  BY <1>1, <1>6 DEF Entry
<1>8. VaddmPage <= page
  <2>1. /\ VaddmPage \in Nat /\ VaddmSize \in Nat /\ PmmPage \in Nat /\ BrkBase \in Nat
        /\ VaddmPage + VaddmSize < PmmPage /\ PmmPage + 3 < BrkBase /\ page \in Int
    BY Numbers DEF Pages
  <2> QED
    BY <2>1
<1> QED
  BY <1>3, <1>4, <1>5, <1>7, <1>8 DEF HeapKept, KernelOnly

LEMMA VaddmInitAction ==
  ASSUME IInv, Flow', vaddm_init
  PROVE  IInv' /\ HeapKept /\ KernelOnly
<1>1. /\ Flow /\ step = <<"vaddm", step[2]>> /\ call = NoCall /\ HasFrames
      /\ UNCHANGED <<vpages, panic>>
  BY DEF IInv, vaddm_init, Kinit, kinitVars
<1>2. step[2] \in 0 .. VaddmSize
  BY <1>1 DEF Flow, StepOK
<1>3. PICK k \in 0 .. VaddmSize : k = step[2]
  BY <1>2
<1>4. /\ VaddmPage \in Nat /\ VaddmSize \in Nat /\ PmmPage \in Nat /\ BrkBase \in Nat
      /\ VaddmPage + VaddmSize < PmmPage /\ PmmPage + 3 < BrkBase /\ TestPage \in Nat
      /\ BrkBase + 1 < TestPage
  BY Numbers
<1>5. PICK page \in Pages : page = VaddmPage + k
  <2>1. VaddmPage + k \in Int /\ 0 <= VaddmPage + k /\ VaddmPage + k <= TestPage
    BY <1>4
  <2> QED
    BY <2>1, PagesBelow
<1>6. page \in VaddmPage .. VaddmPage + VaddmSize
  BY <1>4, <1>5
<1>7. PlainStep /\ step \notin TestSteps
  BY <1>1 DEF PlainStep, TestSteps
<1>8. CASE k < VaddmSize
  <2>1. MapNew(page, Kernel) /\ step' = <<"vaddm", k + 1>>
    BY <1>3, <1>5, <1>8 DEF vaddm_init
  <2>2. PlainStep'
    BY <2>1 DEF PlainStep
  <2> QED
    BY <1>1, <1>6, <1>7, <2>1, <2>2, KernelNew
<1>9. CASE ~ (k < VaddmSize)
  <2> DEFINE entry == Entry(0, KernelRead.user, KernelRead.rw)
  <2>1. k = VaddmSize
    BY <1>4, <1>9
  <2>2. smap_page(page, entry, KernelRead, taken) /\ step' = <<"modules", 1>>
    BY <1>3, <1>5, <1>9, <2>1 DEF vaddm_init, MapFrame
  <2>3. PlainStep'
    BY <2>2 DEF PlainStep
  <2>4. /\ entry \in Entries /\ entry.present /\ entry.frame = 0 /\ ~ entry.user
    BY FlagsAreFlags, EntryFields DEF AllFlags
  <2> HIDE DEF entry
  <2>5. /\ entry.frame \notin Pool /\ KernelRead \in AllFlags /\ ~ KernelRead.remap
        /\ vpages \subseteq vpages' /\ panic' \notin {"Mappings Not Equal", "Equvalence"}
    BY <1>1, <2>4, Sizes, FlagsAreFlags DEF IInv, PmmTestPasses
  <2>6. IInv'
    BY <1>1, <1>6, <1>7, <2>2, <2>3, <2>4, <2>5, OtherInv
  <2>7. \A q \in Pages : q # page => PageEntry(q)' = PageEntry(q)
    BY <1>1, <1>6, <1>7, <2>2, <2>3, <2>4, <2>5, OtherInv
  <2>8. Mapped(page) => PageEntry(page)' = PageEntry(page)
    BY <1>1, <1>6, <1>7, <2>2, <2>3, <2>4, <2>5, OtherInv
  <2>9. ~ Mapped(page) => PageEntry(page)' = entry
    BY <1>1, <1>6, <1>7, <2>2, <2>3, <2>4, <2>5, OtherInv
  <2>10. VaddmPage <= page
    BY <1>4, <1>5
  <2> QED
    BY <2>4, <2>6, <2>7, <2>8, <2>9, <2>10 DEF HeapKept, KernelOnly
<1> QED
  BY <1>8, <1>9

LEMMA HeapAction ==
  ASSUME IInv, Flow',
         \/ MapBrkBase \/ GrowPage \/ ShrinkPage
         \/ \E i \in DOMAIN blocks : \E page \in BlockPages(blocks[i]) : KernelFault(page)
  PROVE  IInv' /\ HeapKept /\ KernelOnly
<1>1. Flow /\ CallOK /\ BlocksOK /\ BreakOK /\ PmmTestPasses
  BY DEF IInv, Flow
<1>2. /\ BrkBase \in Nat /\ TestPage \in Nat /\ BrkBase + 1 < TestPage /\ PtrScale \in Nat
      /\ PtrScale > 0
  BY Numbers
<1>3. brk_limit \in Nat /\ BrkBase + 1 <= brk_limit /\ brk_limit < TestPage
  BY <1>1, BreakBound DEF BreakOK
<1>4. step \in HeapSteps
  <2>1. ASSUME call.kind \in {"grow", "shrink"} PROVE step \in HeapSteps
    BY <1>1, <2>1 DEF CallOK, NoCall
  <2> QED
    BY <2>1 DEF MapBrkBase, GrowPage, ShrinkPage, KernelFault, Between
<1>5. PlainStep /\ step \notin TestSteps
  BY <1>4, HeapStepPlain
<1>6. ASSUME step' = step PROVE PlainStep'
  BY <1>5, <1>6 DEF PlainStep
<1>7. \A p \in Int : BrkBase <= p /\ p <= TestPage => p \in Pages
  BY <1>2, PagesBelow
<1>8. CASE MapBrkBase
  <2>1. /\ MapNew(BrkBase, Kernel) /\ HasFrames /\ step' = step /\ UNCHANGED <<vpages, panic>>
    BY <1>8 DEF MapBrkBase, Between, kinitVars
  <2>2. BrkBase \in Pages /\ BrkBase <= BrkBase /\ BrkBase < TestPage
    BY <1>2, <1>7
  <2> QED
    BY <1>5, <1>6, <2>1, <2>2, KernelNew
<1>9. CASE GrowPage
  <2>1. /\ call.kind = "grow" /\ HasFrames /\ MapNew(call.next, Kernel)
        /\ step' = step /\ UNCHANGED <<vpages, panic>>
    BY <1>9 DEF GrowPage, kinitVars
  <2>2. BrkBase + 1 <= call.next /\ call.next < brk_limit /\ call.next \in Nat
    BY <1>1, <2>1 DEF CallOK, NoCall, HeapCall
  <2>3. PICK page \in Pages : page = call.next
    BY <1>2, <1>3, <1>7, <2>2
  <2>4. BrkBase <= page /\ page < TestPage /\ MapNew(page, Kernel)
    BY <1>2, <1>3, <2>1, <2>2, <2>3
  <2> QED
    BY <1>5, <1>6, <2>1, <2>4, KernelNew
<1>10. CASE \E i \in DOMAIN blocks : \E page \in BlockPages(blocks[i]) : KernelFault(page)
  <2>1. PICK i \in DOMAIN blocks : \E page \in BlockPages(blocks[i]) : KernelFault(page)
    BY <1>10
  <2>2. PICK page \in BlockPages(blocks[i]) : KernelFault(page)
    BY <2>1
  <2>3. /\ HasFrames /\ MapNew(page, Kernel) /\ step' = step /\ UNCHANGED <<vpages, panic>>
    BY <2>2 DEF KernelFault, Between, kinitVars
  <2>4. page \in Int /\ BrkBase + 1 <= page /\ page < TestPage
    <3>1. BrkBase + 1 <= blocks[i].base /\ blocks[i] \in Blocks /\ End(blocks[i]) < TestPage
      BY <1>1, BlocksBelow
    <3>2. /\ blocks[i].base \in Nat /\ blocks[i].length \in Nat
          /\ blocks[i].base + blocks[i].length <= End(blocks[i]) /\ End(blocks[i]) \in Nat
      BY <3>1, BlockLength
    <3>3. page \in Int /\ blocks[i].base <= page
          /\ page <= blocks[i].base + blocks[i].length - 1
      BY <3>2 DEF BlockPages
    <3> QED
      BY <1>2, <1>3, <3>1, <3>2, <3>3
  <2>5. page \in Pages /\ BrkBase <= page
    BY <1>2, <1>7, <2>4
  <2> QED
    BY <1>5, <1>6, <2>3, <2>4, <2>5, KernelNew
<1>11. CASE ShrinkPage
  <2>1. /\ call.kind = "shrink" /\ vmm_unmap_address(call.next)
        /\ step' = step /\ UNCHANGED <<vpages, panic, brk_limit>>
    BY <1>11 DEF ShrinkPage, kinitVars, heapVars
  <2>2. brk_limit < call.next /\ call.next < TestPage /\ call.next \in Nat
    BY <1>1, <2>1 DEF CallOK, NoCall, HeapCall
  <2>3. PICK page \in Pages : page = call.next
    BY <1>2, <1>3, <1>7, <2>2
  <2>4. TablesInv({}) /\ {} \subseteq Frames /\ pmm_inited' \in BOOLEAN
    BY <1>1, <1>5, NoPiece DEF IInv, Flow
  <2>5. vmm_unmap_address(page)
    BY <2>1, <2>3
  <2>6. TablesInv({})'
    BY <2>4, <2>5, UnmapKeeps
  <2>7. \A q \in Pages : q # page => PageEntry(q)' = PageEntry(q)
    BY <2>4, <2>5, UnmapKeeps
  <2>8. PageEntry(page)' = Absent /\ ~ Mapped(page)'
    BY <2>4, <2>5, UnmapKeeps
  <2>9. IInv'
    <3>1. PlainStep' /\ vpages \subseteq vpages'
          /\ panic' \notin {"Mappings Not Equal", "Equvalence"}
      BY <1>1, <1>6, <2>1 DEF PmmTestPasses
    <3> QED
      BY <1>5, <2>6, <2>7, <2>8, <3>1, Closes
  <2>10. HeapKept /\ KernelOnly
    <3>1. VaddmPage <= page /\ ~ (page < brk_limit)
      <4>1. VaddmPage \in Nat /\ VaddmPage < BrkBase
        <5>1. /\ VaddmPage \in Nat /\ VaddmSize \in Nat /\ PmmPage \in Nat
              /\ VaddmPage + VaddmSize < PmmPage /\ PmmPage + 3 < BrkBase
          BY Numbers
        <5> QED
          BY <1>2, <5>1
      <4> QED
        BY <1>2, <1>3, <2>2, <2>3, <4>1
    <3>2. ~ PageEntry(page)'.user
      BY <2>8 DEF Absent
    <3> QED
      BY <2>7, <3>1, <3>2 DEF HeapKept, KernelOnly
  <2> QED
    BY <2>9, <2>10
<1> QED
  BY <1>8, <1>9, <1>10, <1>11

\* The pages that vmalloc gives are below the heap.
LEMMA VpagesAreLow ==
  ASSUME NEW p \in VMallocBase .. Slots - 1
  PROVE  /\ p \in Pages /\ p < CmdlinePage /\ p < BrkBase /\ p # CmdlinePage
         /\ p < KernelTable * Slots /\ p \in Nat
<1>1. /\ VMallocBase \in Nat /\ CmdlinePage \in Nat /\ Slots \in Nat /\ Slots <= CmdlinePage
      /\ KernelTable * Slots \in Nat /\ CmdlinePage < KernelTable * Slots
  BY Numbers, Sizes
<1>2. CmdlinePage < BrkBase /\ BrkBase \in Nat /\ BrkBase + 1 < TestPage /\ TestPage \in Nat
  <2>1. /\ KernelTable * Slots <= VaddmPage /\ VaddmPage \in Nat /\ VaddmSize \in Nat
        /\ VaddmPage + VaddmSize < PmmPage /\ PmmPage \in Nat /\ PmmPage + 3 < BrkBase
        /\ BrkBase \in Nat /\ BrkBase + 1 < TestPage /\ TestPage \in Nat
    BY Numbers
  <2> QED
    BY <1>1, <2>1
<1>3. p \in Nat /\ p < CmdlinePage /\ p < BrkBase /\ p < KernelTable * Slots /\ p <= TestPage
  BY <1>1, <1>2
<1>4. p \in Pages
  BY <1>3, PagesBelow
<1> QED
  BY <1>1, <1>3, <1>4

LEMMA MapCmdlineAction ==
  ASSUME IInv, Flow', NEW i \in DOMAIN Modules, MapCmdline(i)
  PROVE  /\ IInv' /\ HeapKept
         /\ \A q \in Pages : q # CmdlinePage => PageEntry(q)' = PageEntry(q)
         /\ Mapped(CmdlinePage)' /\ PageEntry(CmdlinePage)'.user
<1> DEFINE entry == Entry(Modules[i].cmdline, UserRemap.user, UserRemap.rw)
<1>1. /\ step = <<"modules", i>> /\ step' = <<"name", i>> /\ HasFrames
      /\ smap_page(CmdlinePage, entry, UserRemap, taken) /\ UNCHANGED <<vpages, panic>>
  BY DEF MapCmdline, Kinit, MapFrame
<1>2. Modules[i] \in [frame : Nat \ Pool, cmdline : Nat \ Pool,
                      offset : SUBSET Nat, isTest : BOOLEAN]
  <2> DEFINE M == [frame : Nat \ Pool, cmdline : Nat \ Pool,
                   offset : SUBSET Nat, isTest : BOOLEAN]
  <2>1. Modules \in Seq(M)
    BY PagingAssumption
  <2> HIDE DEF M
  <2>2. Modules[i] \in M
    BY <2>1
  <2> QED
    BY <2>2 DEF M
<1>3. Modules[i].cmdline \in Nat /\ Modules[i].cmdline \notin Pool
  BY <1>2
<1>4. /\ UserRemap \in AllFlags /\ UserRemap.remap /\ UserRemap.user
      /\ UserRemap.rw \in BOOLEAN /\ UserRemap.user \in BOOLEAN
  BY FlagsAreFlags DEF AllFlags
<1>5. /\ entry \in Entries /\ entry.present /\ entry.frame = Modules[i].cmdline
      /\ entry.user = UserRemap.user
  BY <1>3, <1>4, EntryFields
<1> HIDE DEF entry
<1>6. /\ entry.frame \notin Pool /\ CmdlinePage \in Pages
      /\ PlainStep /\ step \notin TestSteps /\ PlainStep'
      /\ vpages \subseteq vpages' /\ panic' \notin {"Mappings Not Equal", "Equvalence"}
  <2>1. CmdlinePage \in Pages
    BY PagingAssumption
  <2> QED
    BY <1>1, <1>3, <1>5, <2>1 DEF PlainStep, TestSteps, IInv, PmmTestPasses
<1>7. IInv'
  BY <1>1, <1>4, <1>5, <1>6, OtherInv
<1>8. \A q \in Pages : q # CmdlinePage => PageEntry(q)' = PageEntry(q)
  BY <1>1, <1>4, <1>5, <1>6, OtherInv
<1>9. PageEntry(CmdlinePage)' = entry
  BY <1>1, <1>4, <1>5, <1>6, OtherInv
<1>10. HeapKept
  <2>1. CmdlinePage < BrkBase /\ CmdlinePage \in Nat /\ BrkBase \in Nat
    BY CmdlineApart, Numbers DEF IInv
  <2> QED
    BY <1>8, <2>1 DEF HeapKept
<1>11. Mapped(CmdlinePage)' /\ PageEntry(CmdlinePage)'.user
  BY <1>4, <1>5, <1>9 DEF Mapped
<1> QED
  BY <1>7, <1>8, <1>10, <1>11

LEMMA ReadNameAction ==
  ASSUME IInv, Flow', NEW i \in DOMAIN Modules, ReadName(i)
  PROVE  /\ IInv' /\ HeapKept
         /\ \/ /\ UNCHANGED <<vpages, program>>
               /\ \A q \in Pages : PageEntry(q)' = PageEntry(q)
            \/ \E page \in VMallocBase .. Slots - 1 :
                  /\ Modules[i].isTest /\ program' = page
                  /\ page \notin vpages /\ vpages' = vpages \cup {page}
                  /\ \A q \in Pages : q # page => PageEntry(q)' = PageEntry(q)
                  /\ Mapped(page)' /\ PageEntry(page)'.user
<1>1. /\ step = <<"name", i>> /\ step' = <<"modules", i + 1>> /\ HasFrames
      /\ UNCHANGED <<pmm_inited, panic, test>>
  BY DEF ReadName, Kinit
<1>2. Flow /\ VpagesOK /\ StepOK /\ Placed /\ PmmTestPasses
  BY DEF IInv, Flow
<1>3. /\ PlainStep /\ step \notin TestSteps /\ PlainStep'
      /\ panic' \notin {"Mappings Not Equal", "Equvalence"}
  BY <1>1, <1>2 DEF PlainStep, TestSteps, PmmTestPasses
<1>4. CASE Modules[i].isTest /\ cmdline = Modules[i].offset
  <2>1. PICK page : page = FirstFree(vpages)
    OBVIOUS
  <2> DEFINE entry == Entry(Modules[i].frame, UserRead.user, UserRead.rw)
  <2>2. /\ smap_page(page, entry, UserRead, taken)
        /\ vpages' = vpages \cup {page} /\ program' = page
    BY <1>4, <2>1 DEF ReadName, MapFrame
  <2>3. page \in VMallocBase .. Slots - 1 /\ page \notin vpages
    <3>1. Given \in Nat /\ Given < Len(Modules) + 2 /\ Len(Modules) \in Nat
      BY <1>1, <1>2, GivenIsNat, Numbers
    <3>2. Given < Len(Modules) + 4
      BY <3>1
    <3>3. FirstFree(vpages) \in VMallocBase .. Slots - 1 /\ FirstFree(vpages) \notin vpages
      BY <1>2, <3>1, <3>2, NextPages
    <3> QED
      BY <2>1, <3>3
  <2>4. page \in Pages /\ ~ Mapped(page) /\ page < BrkBase /\ page \in Nat
    BY <1>2, <2>3, NotMappedYet, VpagesAreLow
  <2>5. Modules[i].frame \in Nat /\ Modules[i].frame \notin Pool
    <3> DEFINE M == [frame : Nat \ Pool, cmdline : Nat \ Pool,
                     offset : SUBSET Nat, isTest : BOOLEAN]
    <3>1. Modules \in Seq(M)
      BY PagingAssumption
    <3>2. Modules[i] \in M
      <4> HIDE DEF M
      <4> QED
        BY <3>1
    <3> QED
      BY <3>2
  <2>6. /\ UserRead \in AllFlags /\ ~ UserRead.remap /\ UserRead.user
        /\ UserRead.rw \in BOOLEAN /\ UserRead.user \in BOOLEAN
    BY FlagsAreFlags DEF AllFlags
  <2>7. /\ entry \in Entries /\ entry.present /\ entry.frame = Modules[i].frame
        /\ entry.user = UserRead.user
    BY <2>5, <2>6, EntryFields
  <2> HIDE DEF entry
  <2>8. entry.frame \notin Pool /\ page \in vpages' /\ vpages \subseteq vpages'
    BY <2>2, <2>5, <2>7
  <2>9. IInv'
    BY <1>1, <1>3, <2>2, <2>4, <2>6, <2>7, <2>8, OtherInv
  <2>10. \A q \in Pages : q # page => PageEntry(q)' = PageEntry(q)
    BY <1>1, <1>3, <2>2, <2>4, <2>6, <2>7, <2>8, OtherInv
  <2>11. PageEntry(page)' = entry
    BY <1>1, <1>3, <2>2, <2>4, <2>6, <2>7, <2>8, OtherInv
  <2>12. HeapKept
    <3>1. BrkBase \in Nat
      BY Numbers
    <3> QED
      BY <2>4, <2>10, <3>1 DEF HeapKept
  <2>13. Mapped(page)' /\ PageEntry(page)'.user
    BY <2>6, <2>7, <2>11 DEF Mapped
  <2> QED
    BY <1>4, <2>2, <2>3, <2>9, <2>10, <2>12, <2>13
<1>5. CASE ~ (Modules[i].isTest /\ cmdline = Modules[i].offset)
  <2>1. UNCHANGED <<pagingVars, vpages, program>>
    BY <1>5 DEF ReadName
  <2>2. TablesInv({})
    BY <1>2, <1>3, NoPiece DEF IInv
  <2>3. UNCHANGED <<PAGE_DIRECTORY, page_tables, taken, dropped>> /\ tlb' = tlb
        /\ pmm_inited' \in BOOLEAN
    BY <1>1, <1>2, <2>1 DEF pagingVars, Flow
  <2>4. TablesInv({})'
    BY <2>2, <2>3, TlbKeeps
  <2>5. \A q : PageEntry(q)' = PageEntry(q)
    BY <2>2, <2>3, TlbKeeps
  <2>6. IInv'
    BY <1>3, <2>1, <2>4, <2>5, Closes
  <2> QED
    BY <2>1, <2>5, <2>6 DEF HeapKept
<1> QED
  BY <1>4, <1>5

LEMMA UnmapCmdlineAction ==
  ASSUME IInv, Flow', UnmapCmdline
  PROVE  /\ IInv' /\ HeapKept
         /\ \A q \in Pages : q # CmdlinePage => PageEntry(q)' = PageEntry(q)
         /\ Modules = <<>> => PageEntry(CmdlinePage)' = PageEntry(CmdlinePage)
         /\ Modules # <<>> => PageEntry(CmdlinePage)' = Absent /\ ~ Mapped(CmdlinePage)'
<1>1. /\ step = <<"modules", Len(Modules) + 1>> /\ step' = <<"process_create", 1>>
      /\ HasFrames /\ UNCHANGED <<pmm_inited, vpages, panic>>
  BY DEF UnmapCmdline, Kinit, kinitVars
<1>2. /\ PlainStep /\ step \notin TestSteps /\ PlainStep' /\ vpages \subseteq vpages'
      /\ panic' \notin {"Mappings Not Equal", "Equvalence"}
  BY <1>1 DEF PlainStep, TestSteps, PmmTestPasses, IInv
<1>3. CmdlinePage \in Pages
  BY PagingAssumption
<1>4. CASE Modules # <<>>
  <2>1. smap_page(CmdlinePage, Absent, UserRemap, taken)
    BY <1>4 DEF UnmapCmdline
  <2>2. /\ Absent \in Entries /\ Absent.frame = 0 /\ Absent.frame \notin Pool
        /\ ~ Absent.present
    BY Sizes DEF Absent, Entries
  <2>3. UserRemap \in AllFlags /\ UserRemap.remap
    BY FlagsAreFlags
  <2>4. IInv'
    BY <1>1, <1>2, <1>3, <2>1, <2>2, <2>3, OtherInv
  <2>5. \A q \in Pages : q # CmdlinePage => PageEntry(q)' = PageEntry(q)
    BY <1>1, <1>2, <1>3, <2>1, <2>2, <2>3, OtherInv
  <2>6. PageEntry(CmdlinePage)' = Absent
    BY <1>1, <1>2, <1>3, <2>1, <2>2, <2>3, OtherInv
  <2>7. HeapKept
    <3>1. CmdlinePage < BrkBase /\ CmdlinePage \in Nat /\ BrkBase \in Nat
      BY CmdlineApart, Numbers DEF IInv
    <3> QED
      BY <2>5, <3>1 DEF HeapKept
  <2> QED
    BY <1>4, <2>2, <2>4, <2>5, <2>6, <2>7 DEF Mapped
<1>5. CASE Modules = <<>>
  <2>1. UNCHANGED pagingVars
    BY <1>5 DEF UnmapCmdline
  <2>2. TablesInv({})
    BY <1>2, NoPiece DEF IInv, Flow
  <2>3. UNCHANGED <<PAGE_DIRECTORY, page_tables, taken, dropped>> /\ tlb' = tlb
        /\ pmm_inited' \in BOOLEAN
    BY <1>1, <2>1 DEF pagingVars, IInv, Flow
  <2>4. TablesInv({})'
    BY <2>2, <2>3, TlbKeeps
  <2>5. \A q : PageEntry(q)' = PageEntry(q)
    BY <2>2, <2>3, TlbKeeps
  <2>6. IInv'
    BY <1>2, <2>4, <2>5, Closes
  <2> QED
    BY <1>5, <2>5, <2>6 DEF HeapKept
<1> QED
  BY <1>4, <1>5

LEMMA CreateProcessAction ==
  ASSUME IInv, Flow', NEW n \in 1 .. 3, CreateProcess(n)
  PROVE  /\ IInv' /\ HeapKept
         /\ \E page \in VMallocBase .. Slots - 1 :
               /\ page \notin vpages /\ page \in vpages'
               /\ \A q \in Pages : q # page => PageEntry(q)' = PageEntry(q)
               /\ Mapped(page)' /\ PageEntry(page)'.rw
               /\ PageEntry(page)'.user <=> IsUser(n)
               /\ ~ IsUser(n) => /\ call' = NoCall /\ vpages' = vpages \cup {page}
                                 /\ \E p : ~ p.user /\ processes' = processes \cup {p}
               /\ IsUser(n) =>
                     /\ page + 1 \in VMallocBase .. Slots - 1 /\ page + 1 \notin vpages
                     /\ vpages' = vpages \cup {page, page + 1}
                     /\ call' = [kind |-> "kstack", next |-> page + 1]
                     /\ processes' = processes \cup
                           {[stack |-> page, kernel_esp |-> page + 1, user |-> TRUE]}
<1>1. Flow /\ VpagesOK /\ StepOK /\ Placed /\ PmmTestPasses
  BY DEF IInv, Flow
<1>2. PICK page : page = FirstFree(vpages)
  OBVIOUS
<1> DEFINE kstack == FirstFree(vpages \cup {page})
           base == IF IsUser(n) THEN kstack ELSE page
           flags == StackFlags(n)
<1>3. /\ step = <<"process_create", n>> /\ call = NoCall /\ HasFrames
      /\ MapNew(page, flags)
      /\ vpages' = vpages \cup {page, base}
      /\ processes' = processes \cup
            {[stack |-> page, kernel_esp |-> base, user |-> IsUser(n)]}
      /\ call' = IF IsUser(n) THEN [kind |-> "kstack", next |-> base] ELSE NoCall
      /\ step' = AfterProcess(n) /\ panic' = panic
  BY <1>2 DEF CreateProcess, Kinit, StackPages
<1>4. Given \in Nat /\ Given < Len(Modules) + 4 /\ Len(Modules) \in Nat
      /\ (n # 3 => Given < Len(Modules) + 2)
  <2>1. Given \in Nat /\ Len(Modules) \in Nat
    BY <1>1, GivenIsNat, Numbers
  <2>2. n # 3 => Given < Len(Modules) + 2
    <3>1. n # 3 => step[1] \in {"name", "process_create"} /\ step # <<"process_create", 3>>
      BY <1>3
    <3> QED
      BY <1>1, <3>1, GivenIsNat
  <2>3. n = 3 => Given = Len(Modules) + 3
    BY <1>1, <1>3, GivenIsNat
  <2> QED
    BY <2>1, <2>2, <2>3
<1>5. page \in VMallocBase .. Slots - 1 /\ page \notin vpages
  <2>1. FirstFree(vpages) \in VMallocBase .. Slots - 1 /\ FirstFree(vpages) \notin vpages
    BY <1>1, <1>4, NextPages
  <2> QED
    BY <1>2, <2>1
<1>6. IsUser(n) => /\ base = page + 1 /\ page + 1 \in VMallocBase .. Slots - 1
                   /\ page + 1 \notin vpages
  <2> SUFFICES ASSUME IsUser(n)
               PROVE  /\ base = page + 1 /\ page + 1 \in VMallocBase .. Slots - 1
                      /\ page + 1 \notin vpages
    OBVIOUS
  <2>1. Given < Len(Modules) + 3
    BY <1>4 DEF IsUser
  <2>2. FirstFree(vpages \cup {FirstFree(vpages)}) = FirstFree(vpages) + 1
    BY <1>1, <1>4, <2>1, NextPages
  <2>3. FirstFree(vpages) + 1 \in VMallocBase .. Slots - 1
        /\ FirstFree(vpages) + 1 \notin vpages
    BY <1>1, <1>4, <2>1, NextPages
  <2> QED
    BY <1>2, <2>2, <2>3
<1>7. ~ IsUser(n) => base = page
  OBVIOUS
<1> HIDE DEF base, kstack
<1>8. /\ flags \in AllFlags /\ ~ flags.remap /\ flags.rw /\ (flags.user <=> IsUser(n))
  <2>1. CASE IsUser(n)
    BY <2>1, FlagsAreFlags DEF StackFlags
  <2>2. CASE ~ IsUser(n)
    BY <2>2, FlagsAreFlags DEF StackFlags
  <2> QED
    BY <2>1, <2>2
<1> HIDE DEF flags
<1>9. page \in Pages /\ ~ Mapped(page) /\ page < BrkBase /\ page \in Nat
  BY <1>1, <1>5, NotMappedYet, VpagesAreLow
<1>10. PlainStep /\ step \notin TestSteps /\ PlainStep'
  <2>1. step' \in {<<"process_create", 2>>, <<"process_create", 3>>, <<"test", 1>>}
    <3>1. n = 1 \/ n = 2 \/ n = 3
      OBVIOUS
    <3> QED
      BY <1>3, <3>1 DEF AfterProcess
  <2> QED
    BY <1>3, <2>1 DEF PlainStep, TestSteps
<1>11. /\ vpages \subseteq vpages' /\ page \in vpages'
       /\ panic' \notin {"Mappings Not Equal", "Equvalence"}
  BY <1>1, <1>3 DEF PmmTestPasses
<1>12. IInv'
  BY <1>3, <1>8, <1>9, <1>10, <1>11, NewInv
<1>13. \A q \in Pages : q # page => PageEntry(q)' = PageEntry(q)
  BY <1>3, <1>8, <1>9, <1>10, <1>11, NewInv
<1>14. PageEntry(page)' = Entry(pmalloc(taken), flags.user, flags.rw)
  BY <1>3, <1>8, <1>9, <1>10, <1>11, NewInv
<1>15. Mapped(page)' /\ PageEntry(page)'.rw /\ (PageEntry(page)'.user <=> IsUser(n))
  <2>1. pmalloc(taken) \in Nat
    BY <1>3, FramesLeft, Sizes
  <2>2. Entry(pmalloc(taken), flags.user, flags.rw).user = flags.user
        /\ Entry(pmalloc(taken), flags.user, flags.rw).rw = flags.rw
        /\ Entry(pmalloc(taken), flags.user, flags.rw).present
    BY DEF Entry
  <2> QED
    BY <1>8, <1>14, <2>2 DEF Mapped
<1>16. HeapKept
  <2>1. BrkBase \in Nat
    BY Numbers
  <2> QED
    BY <1>9, <1>13, <2>1 DEF HeapKept
<1>17. ~ IsUser(n) => /\ call' = NoCall /\ vpages' = vpages \cup {page}
                      /\ \E p : ~ p.user /\ processes' = processes \cup {p}
  <2> SUFFICES ASSUME ~ IsUser(n)
               PROVE  /\ call' = NoCall /\ vpages' = vpages \cup {page}
                      /\ \E p : ~ p.user /\ processes' = processes \cup {p}
    OBVIOUS
  <2> DEFINE p == [stack |-> page, kernel_esp |-> base, user |-> IsUser(n)]
  <2>1. ~ p.user
    OBVIOUS
  <2>2. processes' = processes \cup {p}
    BY <1>3
  <2> HIDE DEF p
  <2>3. \E r : ~ r.user /\ processes' = processes \cup {r}
    BY <2>1, <2>2
  <2> QED
    BY <1>3, <1>7, <2>3
<1>18. IsUser(n) =>
          /\ page + 1 \in VMallocBase .. Slots - 1 /\ page + 1 \notin vpages
          /\ vpages' = vpages \cup {page, page + 1}
          /\ call' = [kind |-> "kstack", next |-> page + 1]
          /\ processes' = processes \cup
                {[stack |-> page, kernel_esp |-> page + 1, user |-> TRUE]}
  <2> SUFFICES ASSUME IsUser(n)
               PROVE  /\ page + 1 \in VMallocBase .. Slots - 1 /\ page + 1 \notin vpages
                      /\ vpages' = vpages \cup {page, page + 1}
                      /\ call' = [kind |-> "kstack", next |-> page + 1]
                      /\ processes' = processes \cup
                            {[stack |-> page, kernel_esp |-> page + 1, user |-> TRUE]}
    OBVIOUS
  <2>1. IsUser(n) = TRUE
    BY DEF IsUser
  <2> QED
    BY <1>3, <1>6, <2>1
<1> QED
  BY <1>3, <1>5, <1>11, <1>12, <1>13, <1>15, <1>16, <1>17, <1>18

LEMMA MapKernelStackAction ==
  ASSUME IInv, Flow', MapKernelStack
  PROVE  /\ IInv' /\ HeapKept
         /\ \E page \in VMallocBase .. Slots - 1 :
               /\ page = call.next
               /\ \A q \in Pages : q # page => PageEntry(q)' = PageEntry(q)
               /\ ~ Mapped(page) => ~ PageEntry(page)'.user
<1>1. /\ Flow /\ StepOK /\ CallOK /\ PmmTestPasses /\ call.kind = "kstack"
      /\ MapNew(call.next, Kernel) /\ HasFrames /\ UNCHANGED <<step, vpages, panic>>
  BY DEF IInv, Flow, MapKernelStack, kinitVars
<1>2. step = <<"process_create", 3>> /\ call.next \in vpages
  BY <1>1 DEF CallOK, NoCall, HeapCall
<1>3. PICK page : page = call.next
  OBVIOUS
<1>4. page \in VMallocBase .. Slots - 1 /\ page \in vpages' /\ MapNew(page, Kernel)
  BY <1>1, <1>2, <1>3, VpagesBelow
<1>5. page \in Pages /\ page < BrkBase /\ page \in Nat
  BY <1>4, VpagesAreLow
<1>6. /\ PlainStep /\ step \notin TestSteps /\ PlainStep' /\ vpages \subseteq vpages'
      /\ panic' \notin {"Mappings Not Equal", "Equvalence"}
  BY <1>1, <1>2 DEF PlainStep, TestSteps, PmmTestPasses
<1>7. Kernel \in AllFlags /\ ~ Kernel.remap /\ ~ Kernel.user
  BY FlagsAreFlags
<1>8. IInv'
  BY <1>1, <1>4, <1>5, <1>6, <1>7, NewInv
<1>9. \A q \in Pages : q # page => PageEntry(q)' = PageEntry(q)
  BY <1>1, <1>4, <1>5, <1>6, <1>7, NewInv
<1>10. ~ Mapped(page) => PageEntry(page)' = Entry(pmalloc(taken), Kernel.user, Kernel.rw)
  BY <1>1, <1>4, <1>5, <1>6, <1>7, NewInv
<1>11. Mapped(page) => PageEntry(page)' = PageEntry(page)
  BY <1>1, <1>4, <1>5, <1>6, <1>7, NewInv
<1>12. ~ Mapped(page) => ~ PageEntry(page)'.user
  BY <1>7, <1>10 DEF Entry
<1>13. HeapKept
  <2>1. BrkBase \in Nat
    BY Numbers
  <2> QED
    BY <1>5, <1>9, <2>1 DEF HeapKept
<1> QED
  BY <1>3, <1>4, <1>8, <1>9, <1>12, <1>13

-----------------------------------------------------------------------------
(* The PMM test.                                                           *)

TestType == test \in [big : Nat, paddr1 : Nat, paddr3 : Nat]

\* The page of the test is the kernel's and not of the heap.
LEMMA TestPageApart ==
  ASSUME Flow
  PROVE  /\ TestPage \in Pages /\ TestPage \in Nat /\ VaddmPage <= TestPage
         /\ brk_limit \in Nat /\ brk_limit < TestPage
<1>1. brk_limit \in Nat /\ brk_limit < TestPage
  BY BreakBound DEF Flow
<1>2. /\ VaddmPage \in Nat /\ VaddmSize \in Nat /\ PmmPage \in Nat /\ BrkBase \in Nat
      /\ VaddmPage + VaddmSize < PmmPage /\ PmmPage + 3 < BrkBase /\ BrkBase + 1 < TestPage
      /\ TestPage \in Pages /\ TestPage \in Nat
  BY Numbers
<1> QED
  BY <1>1, <1>2

LEMMA TestPlaces ==
  ASSUME Placed, UNCHANGED vpages, step' \in TestSteps \/ ~ Mapped(TestPage)',
         \A q \in Pages : q # TestPage => PageEntry(q)' = PageEntry(q)
  PROVE  Placed'
<1> SUFFICES ASSUME NEW p \in Pages, Mapped(p)' PROVE Place(p)'
  BY DEF Placed
<1>1. CASE p = TestPage
  BY <1>1 DEF Place
<1>2. CASE p # TestPage
  <2>1. Mapped(p) /\ FrameOf(p)' = FrameOf(p)
    BY <1>2 DEF Mapped, FrameOf
  <2>2. Place(p)
    BY <2>1 DEF Placed
  <2> QED
    BY <1>2, <2>1, <2>2 DEF Place
<1> QED
  BY <1>1, <1>2

LEMMA TestEffect ==
  ASSUME Flow, ~ PageEntry(TestPage)'.user,
         \A q \in Pages : q # TestPage => PageEntry(q)' = PageEntry(q)
  PROVE  HeapKept /\ KernelOnly
<1>1. /\ VaddmPage <= TestPage /\ ~ (TestPage < brk_limit)
  BY TestPageApart
<1> QED
  BY <1>1 DEF HeapKept, KernelOnly

LEMMA TestWriteAction ==
  ASSUME IInv, Flow', TestType, TestWrite
  PROVE  IInv' /\ HeapKept /\ KernelOnly /\ TestType'
<1>1. /\ Flow /\ Placed /\ TablesInv(Piece) /\ PmmTestPasses /\ TablesOK /\ CoreInv /\ DirOK
  BY DEF IInv, TablesInv, CoreInv
<1>2. PICK big : big = Min(FreeRuns)
  OBVIOUS
<1>3. PICK piece : piece = big .. big + BigSize - 1
  OBVIOUS
<1>4. PICK got : got = taken \cup piece
  OBVIOUS
<1>5. PICK paddr1 : paddr1 = pmalloc(got)
  OBVIOUS
<1>6. PICK all : all = got \cup {paddr1}
  OBVIOUS
<1>7. PICK entry : entry = Entry(paddr1, FALSE, TRUE)
  OBVIOUS
<1>8. /\ step = <<"test", 1>> /\ step' = <<"test", 2>> /\ FreeRuns # {}
      /\ Cardinality(Frames \ got) >= 2
      /\ smap_page(TestPage, entry, Kernel, all)
      /\ test' = [test EXCEPT !.big = big, !.paddr1 = paddr1]
      /\ UNCHANGED <<pmm_inited, vpages, panic>>
  BY <1>2, <1>3, <1>4, <1>5, <1>6, <1>7 DEF TestWrite, Kinit
<1>9. big \in Frames /\ piece \subseteq Frames \ taken /\ big \in Nat
  <2>1. FreeRuns \subseteq Nat
    BY Sizes DEF FreeRuns
  <2>2. big \in FreeRuns
    BY <1>2, <1>8, <2>1, LeastElement
  <2> QED
    BY <1>3, <2>2, Sizes DEF FreeRuns
<1>10. /\ paddr1 \in Frames \ got /\ \A f \in Frames \ got : paddr1 <= f
       /\ pmalloc(all) \in Frames \ all
  <2>1. IsFiniteSet(Frames)
    BY PagingAssumption
  <2>2. /\ pmalloc(got) \in Frames \ got
        /\ \A f \in Frames \ got : pmalloc(got) <= f
    BY <1>8, <2>1, TwoLeft
  <2>3. pmalloc(got \cup {pmalloc(got)}) \in Frames \ (got \cup {pmalloc(got)})
    BY <1>8, <2>1, TwoLeft
  <2> QED
    BY <1>5, <1>6, <2>2, <2>3
<1>11. /\ entry \in Entries /\ entry.present /\ entry.frame = paddr1 /\ ~ entry.user
  BY <1>7, <1>10, Sizes, EntryFields
<1>12. Piece = {} /\ pmm_inited /\ pmm_inited' \in BOOLEAN
  BY <1>1, <1>8 DEF Piece, Flow
<1>13. /\ taken = (InUse \cap Frames) \cup dropped /\ taken \subseteq Frames
       /\ InUse \cap dropped = {}
  BY <1>1, <1>12 DEF TablesInv, Accounted, TablesOK
<1>14. ~ Mapped(TestPage) /\ TestPage \in Pages
  <2>1. step \notin TestSteps
    BY <1>8 DEF TestSteps
  <2> QED
    BY <1>1, <2>1, NotMappedYet, TestPageApart
<1>15. /\ piece \subseteq Frames /\ all \subseteq Frames /\ taken \subseteq all
       /\ InUse \cap (dropped \cup piece) = {}
  BY <1>4, <1>6, <1>9, <1>10, <1>13
<1>16. all = (InUse \cap Frames) \cup dropped \cup piece \cup ({entry.frame} \cap Frames)
  BY <1>4, <1>6, <1>10, <1>11, <1>13
<1>17. entry.frame \notin InUse \cup dropped \cup piece /\ entry.frame # BootTable
  BY <1>4, <1>10, <1>11, <1>13, Sizes
<1>18. ~ Refuses(TestPage, Kernel) /\ Kernel \in AllFlags
  BY <1>14, FlagsAreFlags DEF Refuses, Mapped
<1>19. TablesInv(piece)'
  BY <1>1, <1>8, <1>10, <1>11, <1>12, <1>14, <1>15, <1>16, <1>17, <1>18, MapsKeep
<1>20. \A q \in Pages : PageEntry(q)' = IF q = TestPage THEN entry ELSE PageEntry(q)
  BY <1>1, <1>8, <1>10, <1>11, <1>12, <1>14, <1>15, <1>16, <1>17, <1>18, MapsKeep
<1>21. all \subseteq taken'
  BY <1>8, <1>18 DEF smap_page
<1>22. TestType' /\ test'.big = big /\ test'.paddr1 = paddr1
  BY <1>8, <1>9, <1>10, Sizes DEF TestType
<1>23. Piece' = piece
  BY <1>3, <1>8, <1>22 DEF Piece
<1>24. TablesInv(Piece)'
  BY <1>19, <1>23 DEF TablesInv, Accounted
<1>25. Placed'
  <2>1. step' \in TestSteps
    BY <1>8 DEF TestSteps
  <2> QED
    BY <1>1, <1>8, <1>20, <2>1, TestPlaces
<1>26. TestOK'
  <2>1. Mapped(TestPage)' /\ FrameOf(TestPage)' = paddr1
    BY <1>11, <1>14, <1>20 DEF Mapped, FrameOf
  <2>2. \A f \in Frames \ taken' : paddr1 <= f
    BY <1>6, <1>10, <1>21
  <2>3. Piece' \subseteq Frames
    BY <1>15, <1>23
  <2> QED
    BY <1>8, <1>9, <1>10, <1>22, <2>1, <2>2, <2>3 DEF TestOK
<1>27. Phase' /\ PmmTestPasses'
  BY <1>1, <1>8 DEF Phase, PmmTestPasses
<1>28. HeapKept /\ KernelOnly
  <2>1. ~ PageEntry(TestPage)'.user
    BY <1>11, <1>14, <1>20
  <2> QED
    BY <1>1, <1>20, <2>1, TestEffect
<1> QED
  BY <1>22, <1>24, <1>25, <1>26, <1>27, <1>28 DEF IInv

LEMMA TestUnmapAction ==
  ASSUME IInv, Flow', TestUnmap
  PROVE  IInv' /\ HeapKept /\ KernelOnly
<1>1. /\ Flow /\ Placed /\ TablesInv(Piece) /\ PmmTestPasses /\ TestOK
  BY DEF IInv
<1>2. /\ step = <<"test", 2>> /\ step' = <<"test", 3>> /\ vmm_unmap_address(TestPage)
      /\ UNCHANGED <<pmm_inited, vpages, test, panic>>
  BY DEF TestUnmap, Kinit, kinitVars
<1>3. PICK S : S = Piece
  OBVIOUS
<1>4. /\ Mapped(TestPage) /\ FrameOf(TestPage) = test.paddr1
      /\ test.big \in Nat /\ test.paddr1 \in Frames /\ S \subseteq Frames
      /\ \A f \in Frames \ taken : test.paddr1 <= f
  BY <1>1, <1>2, <1>3 DEF TestOK
<1>5. TablesInv(S) /\ pmm_inited' \in BOOLEAN /\ TestPage \in Pages
  BY <1>1, <1>2, <1>3, TestPageApart DEF Flow
<1>6. TablesInv(S)'
  BY <1>2, <1>4, <1>5, UnmapKeeps
<1>7. taken' = taken \ {PageEntry(TestPage).frame}
  BY <1>2, <1>4, <1>5, UnmapKeeps
<1>8. \A q \in Pages : q # TestPage => PageEntry(q)' = PageEntry(q)
  BY <1>2, <1>4, <1>5, UnmapKeeps
<1>9. PageEntry(TestPage)' = Absent /\ ~ Mapped(TestPage)'
  BY <1>2, <1>4, <1>5, UnmapKeeps
<1>10. Piece' = S /\ Piece' = Piece
  BY <1>2, <1>3 DEF Piece
<1>11. TablesInv(Piece)'
  BY <1>6, <1>10 DEF TablesInv, Accounted
<1>12. Placed'
  BY <1>1, <1>2, <1>8, <1>9, TestPlaces
<1>13. taken' = taken \ {test.paddr1}
  BY <1>4, <1>7 DEF FrameOf
<1>14. TestOK'
  <2>1. \A f \in Frames \ taken' : test.paddr1 <= f
    BY <1>4, <1>13, Sizes
  <2> QED
    BY <1>2, <1>4, <1>3, <1>10, <1>13, <2>1 DEF TestOK
<1>15. Phase' /\ PmmTestPasses'
  BY <1>1, <1>2 DEF Phase, PmmTestPasses
<1>16. HeapKept /\ KernelOnly
  <2>1. ~ PageEntry(TestPage)'.user
    BY <1>9 DEF Absent
  <2> QED
    BY <1>1, <1>8, <2>1, TestEffect
<1> QED
  BY <1>11, <1>12, <1>14, <1>15, <1>16 DEF IInv

LEMMA TestRemapAction ==
  ASSUME IInv, Flow', TestRemap
  PROVE  IInv' /\ HeapKept /\ KernelOnly
<1>1. /\ Flow /\ Placed /\ TablesInv(Piece) /\ PmmTestPasses /\ TestOK
  BY DEF IInv
<1>2. /\ step = <<"test", 3>> /\ step' = <<"test", 4>> /\ MapNew(TestPage, Kernel)
      /\ HasFrames /\ UNCHANGED <<pmm_inited, vpages, test, panic>>
  BY DEF TestRemap, Kinit, kinitVars
<1>3. PICK S : S = Piece
  OBVIOUS
<1>4. /\ test.big \in Nat /\ test.paddr1 \in Frames /\ S \subseteq Frames
      /\ test.paddr1 \notin taken /\ \A f \in Frames \ taken : test.paddr1 <= f
  BY <1>1, <1>2, <1>3 DEF TestOK
<1>5. /\ TablesInv(S) /\ pmm_inited /\ pmm_inited' \in BOOLEAN /\ TestPage \in Pages
      /\ Kernel \in AllFlags /\ ~ Kernel.remap /\ ~ Kernel.user
  BY <1>1, <1>2, <1>3, TestPageApart, FlagsAreFlags DEF Flow
<1>6. ~ Mapped(TestPage)
  <2>1. step \notin TestSteps
    BY <1>2 DEF TestSteps
  <2> QED
    BY <1>1, <2>1, NotMappedYet
<1>7. TablesInv(S)'
  BY <1>2, <1>4, <1>5, MapNewKeeps
<1>8. \A q \in Pages : q # TestPage => PageEntry(q)' = PageEntry(q)
  BY <1>2, <1>4, <1>5, MapNewKeeps
<1>9. PageEntry(TestPage)' = Entry(pmalloc(taken), Kernel.user, Kernel.rw)
  BY <1>2, <1>4, <1>5, <1>6, MapNewKeeps
<1>10. pmalloc(taken) = test.paddr1
  <2>1. /\ pmalloc(taken) \in Frames \ taken
        /\ \A f \in Frames \ taken : pmalloc(taken) <= f
    BY <1>2, FramesLeft
  <2>2. pmalloc(taken) <= test.paddr1 /\ test.paddr1 <= pmalloc(taken)
    BY <1>4, <2>1
  <2>3. pmalloc(taken) \in Nat /\ test.paddr1 \in Nat
    BY <1>4, <2>1, Sizes
  <2>4. \A a, b \in Nat : a <= b /\ b <= a => a = b
    OBVIOUS
  <2> QED
    BY <2>2, <2>3, <2>4, Zenon
<1>11. /\ Mapped(TestPage)' /\ FrameOf(TestPage)' = test.paddr1
       /\ ~ PageEntry(TestPage)'.user
  BY <1>5, <1>9, <1>10 DEF Mapped, FrameOf, Entry
<1>12. Piece' = S /\ Piece' = Piece
  BY <1>2, <1>3 DEF Piece
<1>13. TablesInv(Piece)'
  BY <1>7, <1>12 DEF TablesInv, Accounted
<1>14. Placed'
  <2>1. step' \in TestSteps
    BY <1>2 DEF TestSteps
  <2> QED
    BY <1>1, <1>2, <1>8, <2>1, TestPlaces
<1>15. TestOK'
  BY <1>2, <1>3, <1>4, <1>11, <1>12 DEF TestOK
<1>16. Phase' /\ PmmTestPasses'
  BY <1>1, <1>2 DEF Phase, PmmTestPasses
<1> QED
  BY <1>1, <1>8, <1>11, <1>13, <1>14, <1>15, <1>16, TestEffect DEF IInv

\* What the test finds at its page is what it wrote: the TLB and the tables agree.
LEMMA TestReads ==
  ASSUME IInv, step = <<"test", 4>>
  PROVE  Seen(TestPage).frame = test.paddr1
<1>1. Mapped(TestPage) /\ FrameOf(TestPage) = test.paddr1 /\ TlbOK
  BY DEF IInv, TestOK, TablesInv, CoreInv
<1>2. Translation(TestPage).frame = test.paddr1
  BY <1>1 DEF Translation, Mapped, FrameOf, Entry
<1>3. Seen(TestPage) = Translation(TestPage)
  BY <1>1 DEF Seen, Cached, TlbOK
<1> QED
  BY <1>2, <1>3

LEMMA TestCompareAction ==
  ASSUME IInv, Flow', TestType, TestCompare, PieceIsLast
  PROVE  IInv' /\ HeapKept /\ KernelOnly /\ TestType'
<1>1. /\ Flow /\ Placed /\ TablesInv(Piece) /\ PmmTestPasses /\ TestOK
      /\ TablesOK /\ UsesOK /\ TlbOK /\ DirOK
  BY DEF IInv, TablesInv, CoreInv
<1>2. /\ step = <<"test", 4>> /\ step' = <<"test", 5>> /\ HasFrames
      /\ UNCHANGED <<PAGE_DIRECTORY, page_tables, tlb, pmm_inited, vpages>>
  BY Zenon DEF TestCompare, Kinit
<1>3. PICK left : left = {f \in taken : f < test.big}
  OBVIOUS
<1>4. PICK paddr3 : paddr3 = pmalloc(left)
  OBVIOUS
<1>5. Seen(TestPage).frame = test.paddr1
  BY <1>2, TestReads
<1>6. /\ panic' = IF paddr3 = test.paddr1 THEN "Equvalence" ELSE "none"
      /\ test' = [test EXCEPT !.paddr3 = paddr3]
      /\ taken' = left \cup {paddr3}
      /\ dropped' = (dropped \cap left) \cup {paddr3}
  BY <1>3, <1>4, <1>5 DEF TestCompare
<1>7. /\ test.big \in Nat /\ test.paddr1 \in Frames
      /\ Mapped(TestPage) /\ FrameOf(TestPage) = test.paddr1
      /\ \A f \in taken : f < test.big + BigSize
      /\ Piece = test.big .. test.big + BigSize - 1
      /\ BigSize \in Nat
  <2>1. BigSize \in Nat
    BY PagingAssumption
  <2> QED
    BY <1>1, <1>2, <2>1 DEF TestOK, Piece, PieceIsLast
<1>8. /\ taken = (InUse \cap Frames) \cup dropped \cup Piece /\ taken \subseteq Frames
      /\ InUse \cap (dropped \cup Piece) = {} /\ dropped \subseteq taken
      /\ TableFrames \subseteq taken \cup {BootTable} /\ TableFrames \subseteq InUse
  BY <1>1 DEF TablesInv, Accounted, TablesOK, InUse
<1>9. InUse \cap Frames \subseteq left
  <2> SUFFICES ASSUME NEW f \in InUse, f \in Frames PROVE f \in left
    OBVIOUS
  <2>1. f \in taken /\ f \notin Piece /\ f \in Nat
    BY <1>8, Sizes
  <2>2. f < test.big + BigSize /\ ~ (f \in test.big .. test.big + BigSize - 1)
    BY <1>7, <2>1
  <2>3. f < test.big
    BY <1>7, <2>1, <2>2
  <2> QED
    BY <1>3, <2>1, <2>3
<1>10. left \subseteq (InUse \cap Frames) \cup dropped
  <2> SUFFICES ASSUME NEW f \in left PROVE f \in (InUse \cap Frames) \cup dropped
    OBVIOUS
  <2>1. f \in taken /\ f < test.big /\ f \in Nat
    BY <1>3, <1>8, Sizes
  <2>2. f \notin Piece
    BY <1>7, <2>1
  <2> QED
    BY <1>8, <2>1, <2>2
<1>11. paddr3 \in Frames \ left /\ left \subseteq taken /\ left \subseteq Frames
  <2>1. Frames \ taken # {}
    BY <1>2, FramesLeft
  <2>2. Frames \ left # {} /\ Frames \ left \subseteq Nat
    BY <1>3, <2>1, Sizes
  <2>3. Min(Frames \ left) \in Frames \ left
    BY <2>2, LeastElement
  <2> QED
    BY <1>3, <1>4, <1>8, <2>3 DEF pmalloc
<1>12. test.paddr1 \in left
  <2>1. test.paddr1 \in InUse
    BY <1>1, <1>7, TestPageApart DEF InUse
  <2> QED
    BY <1>7, <1>9, <2>1
<1>13. panic' = "none"
  BY <1>6, <1>11, <1>12
<1>14. \A q : PageEntry(q)' = PageEntry(q) /\ Translation(q)' = Translation(q)
  BY <1>2 DEF PageEntry, Translation
<1>15. TableFrames' = TableFrames /\ InUse' = InUse
  BY <1>2, <1>14 DEF TableFrames, InUse, Present, Mapped, FrameOf
<1>16. TablesOK'
  <2>1. TableFrames' \subseteq taken' \cup {BootTable}
    BY <1>6, <1>8, <1>9, <1>15
  <2>2. taken' \subseteq Frames /\ dropped' \subseteq taken'
    BY <1>6, <1>11
  <2> QED
    BY <1>1, <1>2, <1>15, <2>1, <2>2 DEF TablesOK, Present
<1>17. UsesOK' /\ TlbOK' /\ DirOK'
  BY <1>1, <1>2, <1>14, <1>15 DEF UsesOK, TlbOK, DirOK, Mapped, FrameOf, Present
<1>18. Piece' = {}
  BY <1>2 DEF Piece
<1>19. Accounted(Piece)'
  <2>1. taken' = (InUse' \cap Frames) \cup dropped' \cup {}
    BY <1>6, <1>9, <1>10, <1>11, <1>15
  <2>2. InUse' \cap (dropped' \cup {}) = {}
    BY <1>6, <1>8, <1>9, <1>11, <1>15
  <2> QED
    BY <1>18, <2>1, <2>2 DEF Accounted
<1>20. TablesInv(Piece)'
  BY <1>16, <1>17, <1>19 DEF TablesInv, CoreInv
<1>21. Placed'
  <2>1. step' \in TestSteps
    BY <1>2 DEF TestSteps
  <2> QED
    BY <1>1, <1>2, <1>14, <2>1, TestPlaces
<1>22. TestOK' /\ Phase' /\ PmmTestPasses'
  BY <1>2, <1>13 DEF TestOK, Phase, PmmTestPasses
<1>23. TestType'
  BY <1>6, <1>11, Sizes DEF TestType
<1> QED
  BY <1>14, <1>20, <1>21, <1>22, <1>23 DEF IInv, HeapKept, KernelOnly

LEMMA TestEndAction ==
  ASSUME IInv, Flow', TestEnd
  PROVE  IInv' /\ HeapKept /\ KernelOnly
<1>1. /\ Flow /\ Placed /\ TablesInv(Piece) /\ PmmTestPasses
  BY DEF IInv
<1>2. /\ step = <<"test", 5>> /\ step' = <<"idle_process", 0>>
      /\ vmm_unmap_address(TestPage) /\ UNCHANGED <<pmm_inited, vpages, test, panic>>
  BY DEF TestEnd, Kinit, kinitVars
<1>3. Piece = {} /\ Piece' = {}
  BY <1>2 DEF Piece
<1>4. TablesInv({}) /\ pmm_inited' \in BOOLEAN /\ TestPage \in Pages /\ {} \subseteq Frames
  BY <1>1, <1>2, <1>3, TestPageApart DEF Flow
<1>5. TablesInv({})'
  BY <1>2, <1>4, UnmapKeeps
<1>6. \A q \in Pages : q # TestPage => PageEntry(q)' = PageEntry(q)
  BY <1>2, <1>4, UnmapKeeps
<1>7. PageEntry(TestPage)' = Absent /\ ~ Mapped(TestPage)'
  BY <1>2, <1>4, UnmapKeeps
<1>8. TablesInv(Piece)'
  BY <1>3, <1>5 DEF TablesInv, Accounted
<1>9. Placed'
  BY <1>1, <1>2, <1>6, <1>7, TestPlaces
<1>10. TestOK' /\ Phase' /\ PmmTestPasses'
  BY <1>1, <1>2 DEF TestOK, Phase, PmmTestPasses
<1>11. HeapKept /\ KernelOnly
  <2>1. ~ PageEntry(TestPage)'.user
    BY <1>7 DEF Absent
  <2> QED
    BY <1>1, <1>6, <2>1, TestEffect
<1> QED
  BY <1>8, <1>9, <1>10, <1>11 DEF IInv

-----------------------------------------------------------------------------
(* The invariant holds.                                                    *)

LEMMA InvHolds ==
  ASSUME Init
  PROVE  IInv /\ TestType
<1>1. \A t \in Tables : ~ Present(t)
  BY DEF Init, Present, Absent
<1>2. \A p \in Pages : PageEntry(p) = Absent /\ ~ Mapped(p)
  BY <1>1, PageParts DEF PageEntry, Present, Mapped, Absent
<1>3. TableFrames = {} /\ InUse = {}
  BY <1>1, <1>2 DEF TableFrames, InUse
<1>4. TablesOK
  <2>1. Absent \in Entries
    BY DEF Absent, Entries
  <2>2. PAGE_DIRECTORY \in [Tables -> Entries]
    BY <2>1 DEF Init
  <2>3. DOMAIN page_tables = {}
    BY DEF Init
  <2> QED
    BY <1>1, <1>3, <2>2, <2>3 DEF TablesOK, Init
<1>5. UsesOK /\ TlbOK /\ DirOK
  BY <1>1, <1>2 DEF UsesOK, TlbOK, DirOK, Init
<1>6. step = <<"pmm", 0>> /\ Piece = {}
  BY DEF Init, Piece
<1>7. TablesInv(Piece)
  BY <1>3, <1>4, <1>5, <1>6 DEF TablesInv, CoreInv, Accounted, Init
<1>8. Placed /\ Phase /\ TestOK /\ PmmTestPasses
  BY <1>1, <1>2, <1>6 DEF Placed, Phase, TestOK, PmmTestPasses, Init
<1>9. Flow
  <2>1. StepOK /\ pmm_inited \in BOOLEAN /\ (pmm_inited <=> step[1] # "pmm")
    <3>1. StepOK
      BY <1>6 DEF StepOK
    <3>2. pmm_inited = FALSE
      BY DEF Init
    <3>3. step[1] = "pmm"
      BY <1>6
    <3> QED
      BY <3>1, <3>2, <3>3
  <2>2. VpagesOK
    <3>1. Given = 0
      BY <1>6 DEF Given
    <3>2. VMallocBase .. VMallocBase + 0 - 1 = {}
      BY Numbers
    <3> QED
      BY <3>1, <3>2 DEF VpagesOK, Init
  <2>3. CallOK
    BY DEF CallOK, Init
  <2>4. BlocksOK
    <3>1. blocks = <<>> /\ Len(blocks) = 0 /\ brk_limit = BrkBase + 1 /\ BrkBase \in Nat
      BY Numbers DEF Init
    <3> DEFINE at == [k \in 0 .. 0 |-> BrkBase + 1]
    <3>2. at \in [0 .. 0 -> Nat] /\ \A k \in 0 .. 0 : at[k] = BrkBase + 1
      BY <3>1
    <3> HIDE DEF at
    <3>3. 0 \in 0 .. 0 /\ BrkBase + 1 <= BrkBase + 1
      BY <3>1
    <3>4. /\ at[0] = BrkBase + 1 /\ at[Len(blocks)] = brk_limit
          /\ \A i \in 1 .. Len(blocks) : at[i] = at[i - 1] + PtrScale * blocks[i].length
          /\ \A i, j \in 0 .. Len(blocks) : i <= j => at[i] <= at[j]
      BY <3>1, <3>2, <3>3
    <3> QED
      BY <3>1, <3>2, <3>4 DEF BlocksOK
  <2>5. BreakOK
    <3>1. /\ brk_limit = BrkBase + 1 /\ breaks = 0 /\ has_mapped = FALSE
          /\ 1 .. Len(blocks) = {}
      BY DEF Init
    <3>2. BrkBase + 1 <= BrkBase + 1 + PtrScale * 0 * 0 /\ 0 \in 0 .. MaxBreaks
          /\ BrkBase + 1 \in Nat
      BY Numbers
    <3>3. 0 \in Requests \cup {0}
      OBVIOUS
    <3>4. brk_limit <= BrkBase + 1 + PtrScale * 0 * breaks
      BY <3>1, <3>2
    <3>5. breaks \in 0 .. MaxBreaks /\ has_mapped \in BOOLEAN /\ brk_limit \in Nat
      BY <3>1, <3>2
    <3>6. BrkBase + 1 <= brk_limit
      BY <3>1, <3>2
    <3> QED
      BY <3>1, <3>3, <3>4, <3>5, <3>6 DEF BreakOK
  <2> QED
    BY <2>1, <2>2, <2>3, <2>4, <2>5 DEF Flow
<1>10. TestType
  BY DEF TestType, Init
<1> QED
  BY <1>7, <1>8, <1>9, <1>10 DEF IInv

\* The inductive invariant.
Inv == IInv /\ TestType

\* Every step keeps it, and what the heap has.
LEMMA InvKept ==
  ASSUME Inv, PieceIsLast, [Next]_vars
  PROVE  Inv' /\ HeapKept
<1>1. IInv /\ TestType
  BY DEF Inv
<1>2. Flow'
  BY <1>1, FlowKept DEF IInv
<1>3. ASSUME test' = test PROVE TestType'
  BY <1>1, <1>3 DEF TestType
<1>4. CASE \/ \E page \in TlbPages : TlbFill(page)
           \/ UserFault \/ vmm_switch_page_base
           \/ \E n \in Requests : GrowBreak(n)
           \/ \E i \in DOMAIN blocks : ShrinkBreak(i)
           \/ UNCHANGED vars
  <2>1. IInv' /\ HeapKept
    BY <1>1, <1>2, <1>4, SameAction
  <2>2. test' = test
    BY <1>4 DEF TlbFill, UserFault, vmm_switch_page_base, GrowBreak, ShrinkBreak, vars,
                kinitVars
  <2> QED
    BY <1>3, <2>1, <2>2 DEF Inv
<1>5. CASE pmm_init
  BY <1>1, <1>2, <1>3, <1>5, PmmInitAction DEF pmm_init, kinitVars, Inv
<1>6. CASE vaddm_init
  BY <1>1, <1>2, <1>3, <1>6, VaddmInitAction DEF vaddm_init, kinitVars, Inv
<1>7. CASE \/ MapBrkBase \/ GrowPage \/ ShrinkPage
           \/ \E i \in DOMAIN blocks :
                 \E page \in BlockPages(blocks[i]) : KernelFault(page)
  <2>1. IInv' /\ HeapKept
    BY <1>1, <1>2, <1>7, HeapAction
  <2>2. test' = test
    BY <1>7 DEF MapBrkBase, GrowPage, ShrinkPage, KernelFault, kinitVars
  <2> QED
    BY <1>3, <2>1, <2>2 DEF Inv
<1>8. ASSUME NEW i \in DOMAIN Modules, MapCmdline(i) PROVE Inv' /\ HeapKept
  <2>1. test' = test
    BY <1>8 DEF MapCmdline
  <2> QED
    BY <1>1, <1>2, <1>3, <1>8, <2>1, MapCmdlineAction DEF Inv
<1>9. ASSUME NEW i \in DOMAIN Modules, ReadName(i) PROVE Inv' /\ HeapKept
  <2>1. test' = test
    BY <1>9 DEF ReadName
  <2> QED
    BY <1>1, <1>2, <1>3, <1>9, <2>1, ReadNameAction DEF Inv
<1>10. CASE UnmapCmdline
  <2>1. test' = test
    BY <1>10 DEF UnmapCmdline, kinitVars
  <2> QED
    BY <1>1, <1>2, <1>3, <1>10, <2>1, UnmapCmdlineAction DEF Inv
<1>11. ASSUME NEW n \in 1 .. 3, CreateProcess(n) PROVE Inv' /\ HeapKept
  <2>1. test' = test
    BY <1>11 DEF CreateProcess
  <2> QED
    BY <1>1, <1>2, <1>3, <1>11, <2>1, CreateProcessAction DEF Inv
<1>12. CASE MapKernelStack
  <2>1. test' = test
    BY <1>12 DEF MapKernelStack, kinitVars
  <2> QED
    BY <1>1, <1>2, <1>3, <1>12, <2>1, MapKernelStackAction DEF Inv
<1>13. CASE TestWrite
  BY <1>1, <1>2, <1>13, TestWriteAction DEF Inv
<1>14. CASE TestUnmap
  BY <1>1, <1>2, <1>3, <1>14, TestUnmapAction DEF TestUnmap, kinitVars, Inv
<1>15. CASE TestRemap
  BY <1>1, <1>2, <1>3, <1>15, TestRemapAction DEF TestRemap, kinitVars, Inv
<1>16. CASE TestCompare
  BY <1>1, <1>2, <1>16, TestCompareAction DEF Inv
<1>17. CASE TestEnd
  BY <1>1, <1>2, <1>3, <1>17, TestEndAction DEF TestEnd, kinitVars, Inv
<1> QED
  BY <1>4, <1>5, <1>6, <1>7, <1>8, <1>9, <1>10, <1>11, <1>12, <1>13, <1>14, <1>15, <1>16,
     <1>17 DEF Next

-----------------------------------------------------------------------------
(* What the invariant says of the properties.                              *)

LEMMA TranslationIsEntry ==
  ASSUME TablesOK, NEW p \in Pages
  PROVE  Translation(p) \in Entries
<1> DEFINE dir == PAGE_DIRECTORY[TableOf(p)]
           e == PageEntry(p)
<1>1. dir \in Entries /\ e \in Entries
  BY EntryIsEntry, PageParts DEF TablesOK
<1> HIDE DEF dir, e
<1>2. /\ e.frame \in Nat /\ (dir.user /\ e.user) \in BOOLEAN
      /\ (dir.rw /\ e.rw) \in BOOLEAN
  BY <1>1 DEF Entries
<1>3. Entry(e.frame, dir.user /\ e.user, dir.rw /\ e.rw) \in Entries
  BY <1>2, EntryFields
<1>4. Absent \in Entries
  BY DEF Absent, Entries
<1>5. Translation(p) = IF ~ e.present THEN Absent
                       ELSE Entry(e.frame, dir.user /\ e.user, dir.rw /\ e.rw)
  BY DEF Translation, dir, e
<1> QED
  BY <1>3, <1>4, <1>5

LEMMA CallType ==
  ASSUME Flow
  PROVE  call.kind \in {"none", "grow", "shrink", "kstack"} /\ call.next \in Pages
<1>1. CallOK /\ BreakOK
  BY DEF Flow
<1>2. /\ brk_limit \in Nat /\ brk_limit < TestPage /\ TestPage \in Nat /\ BrkBase \in Nat
  BY TestPageApart, Numbers
<1>3. CASE call = NoCall
  <2>1. 0 \in Pages
    BY <1>2, PagesBelow
  <2> QED
    BY <1>3, <2>1 DEF NoCall
<1>4. CASE call.next \in Nat /\ HeapCall
  <2>1. call.next <= TestPage
    BY <1>2, <1>4 DEF HeapCall
  <2> QED
    BY <1>4, <2>1, PagesBelow DEF HeapCall
<1>5. CASE call.kind = "kstack" /\ call.next \in vpages
  <2>1. call.next \in VMallocBase .. Slots - 1
    BY <1>5, VpagesBelow
  <2>2. call.next \in Pages
    BY <2>1, VpagesAreLow
  <2> QED
    BY <1>5, <2>2
<1> QED
  BY <1>1, <1>3, <1>4, <1>5 DEF CallOK

LEMMA InvTypes ==
  ASSUME IInv
  PROVE  TypeOK
<1>1. Flow /\ TablesOK /\ TlbOK /\ BreakOK
  BY DEF IInv, TablesInv, CoreInv, Flow
<1>2. DOMAIN page_tables =
         {PAGE_DIRECTORY[t].frame : t \in {u \in Tables : PAGE_DIRECTORY[u].present}}
  BY <1>1 DEF TablesOK, TableFrames, Present
<1>3. \A f \in DOMAIN page_tables : page_tables[f] \in [0 .. Slots - 1 -> Entries]
  BY <1>1 DEF TablesOK
<1>4. DOMAIN tlb \subseteq Pages /\ \A page \in DOMAIN tlb : tlb[page] \in Entries
  BY <1>1, TranslationIsEntry DEF TlbOK
<1>5. brk_limit \in Pages
  <2>1. brk_limit \in Nat /\ brk_limit < TestPage /\ TestPage \in Nat
    BY <1>1, TestPageApart
  <2> QED
    BY <2>1, PagesBelow
<1>6. vpages \subseteq VMallocBase .. Slots - 1
  BY <1>1, VpagesBelow
<1>7. call.kind \in {"none", "grow", "shrink", "kstack"} /\ call.next \in Pages
  BY <1>1, CallType
<1>8. pmm_inited \in BOOLEAN /\ has_mapped \in BOOLEAN /\ breaks \in 0 .. MaxBreaks
  BY <1>1 DEF Flow, BreakOK
<1>9. /\ PAGE_DIRECTORY \in [Tables -> Entries]
      /\ taken \subseteq Frames /\ dropped \subseteq taken
  BY <1>1 DEF TablesOK
<1> QED
  BY <1>2, <1>3, <1>4, <1>5, <1>6, <1>7, <1>8, <1>9 DEF TypeOK

LEMMA InvUses ==
  ASSUME IInv
  PROVE  FramesUsedOnce /\ FramesAccounted
<1>1. TablesOK /\ UsesOK /\ Accounted(Piece)
  BY DEF IInv, TablesInv, CoreInv
<1> DEFINE TableUse(t) == [kind |-> "table", of |-> t, frame |-> PAGE_DIRECTORY[t].frame]
           PageUse(p) == [kind |-> "page", of |-> p, frame |-> PageEntry(p).frame]
<1>2. \A u : u \in Uses <=> \/ \E t \in Tables : Present(t) /\ u = TableUse(t)
                            \/ \E p \in Pages : Mapped(p) /\ u = PageUse(p)
  BY DEF Uses, Present, Mapped
<1>3. /\ \A t : TableUse(t).frame = PAGE_DIRECTORY[t].frame
      /\ \A p : PageUse(p).frame = FrameOf(p)
  BY DEF FrameOf
<1> HIDE DEF TableUse, PageUse
<1>4. ASSUME NEW u \in Uses, NEW v \in Uses, u.frame \in Pool, u.frame = v.frame
      PROVE  u = v
  <2>1. CASE \E t \in Tables : Present(t) /\ u = TableUse(t)
    <3>1. PICK t \in Tables : Present(t) /\ u = TableUse(t)
      BY <2>1
    <3>2. u.frame \in TableFrames /\ u.frame = PAGE_DIRECTORY[t].frame
      BY <1>3, <3>1 DEF TableFrames
    <3>3. ASSUME NEW p \in Pages, Mapped(p), v = PageUse(p) PROVE FALSE
      BY <1>1, <1>3, <1>4, <3>2, <3>3 DEF UsesOK
    <3>4. PICK w \in Tables : Present(w) /\ v = TableUse(w)
      BY <1>2, <3>3
    <3>5. t = w
      BY <1>1, <1>3, <1>4, <3>1, <3>2, <3>4 DEF TablesOK
    <3> QED
      BY <3>1, <3>4, <3>5
  <2>2. CASE \E p \in Pages : Mapped(p) /\ u = PageUse(p)
    <3>1. PICK p \in Pages : Mapped(p) /\ u = PageUse(p)
      BY <2>2
    <3>2. u.frame = FrameOf(p) /\ FrameOf(p) \notin TableFrames
      BY <1>1, <1>3, <3>1 DEF UsesOK
    <3>3. ASSUME NEW t \in Tables, Present(t), v = TableUse(t) PROVE FALSE
      BY <1>3, <1>4, <3>2, <3>3 DEF TableFrames
    <3>4. PICK q \in Pages : Mapped(q) /\ v = PageUse(q)
      BY <1>2, <3>3
    <3>5. p = q
      BY <1>1, <1>3, <1>4, <3>1, <3>2, <3>4 DEF UsesOK
    <3> QED
      BY <3>1, <3>4, <3>5
  <2> QED
    BY <1>2, <2>1, <2>2
<1>5. {u.frame : u \in Uses} = InUse
  <2>1. ASSUME NEW u \in Uses PROVE u.frame \in InUse
    <3>1. CASE \E t \in Tables : Present(t) /\ u = TableUse(t)
      BY <1>3, <3>1 DEF InUse, TableFrames
    <3>2. CASE \E p \in Pages : Mapped(p) /\ u = PageUse(p)
      BY <1>3, <3>2 DEF InUse
    <3> QED
      BY <1>2, <3>1, <3>2
  <2>2. ASSUME NEW f \in InUse PROVE \E u \in Uses : f = u.frame
    <3>1. CASE f \in TableFrames
      <4>1. PICK t \in Tables : Present(t) /\ f = PAGE_DIRECTORY[t].frame
        BY <3>1 DEF TableFrames
      <4>2. TableUse(t) \in Uses /\ TableUse(t).frame = f
        BY <1>2, <1>3, <4>1
      <4> QED
        BY <4>2
    <3>2. CASE f \notin TableFrames
      <4>1. PICK p \in Pages : Mapped(p) /\ f = FrameOf(p)
        BY <3>2 DEF InUse
      <4>2. PageUse(p) \in Uses /\ PageUse(p).frame = f
        BY <1>2, <1>3, <4>1
      <4> QED
        BY <4>2
    <3> QED
      BY <3>1, <3>2
  <2> QED
    BY <2>1, <2>2
<1>6. FramesUsedOnce
  BY <1>4 DEF FramesUsedOnce
<1>7. FramesAccounted
  BY <1>1, <1>5 DEF FramesAccounted, Accounted, Piece
<1> QED
  BY <1>6, <1>7

-----------------------------------------------------------------------------
(* The theorems.                                                           *)

LEMMA InvAlways ==
  Spec /\ []PieceIsLast => []Inv
<1>1. Init => Inv
  BY InvHolds DEF Inv
<1>2. Inv /\ PieceIsLast /\ [Next]_vars => Inv'
  BY InvKept
<1> QED
  BY <1>1, <1>2, PTL DEF Spec

\* Every frame of the pool is one page table or one page, the frames given are those
\* in use, in the piece of the PMM test or dropped, and the test of kinit passes:
\* what smap_page, sumap_page and their callers do keeps it.
THEOREM FramesStayInStep ==
  Spec /\ []PieceIsLast => []FramesInStep
<1>1. Inv => FramesInStep
  BY InvTypes, InvUses DEF Inv, IInv, FramesInStep
<1> QED
  BY <1>1, InvAlways, PTL

\* Every translation that the processor keeps is that of the tables: no change of a
\* table is without its flush_tlb.
THEOREM TlbStaysTrue ==
  Spec /\ []PieceIsLast => []TlbAgrees
<1>1. Inv => TlbAgrees
  BY DEF Inv, IInv, TablesInv, CoreInv, TlbOK, TlbAgrees
<1> QED
  BY <1>1, InvAlways, PTL

\* No step moves a page below the break to another frame or unmaps it, whatever
\* blocks the heap gives back: psbrk unmaps above the new break only, and where it
\* grows over a page that is mapped smap_page refuses.
THEOREM HeapStaysMapped ==
  Spec /\ []PieceIsLast => BelowBreakStable
<1> DEFINE Stays == \A page \in BrkBase + 1 .. brk_limit - 1 :
                       PageEntry(page).present => PageEntry(page)' = PageEntry(page)
<1>1. Inv /\ PieceIsLast /\ [Next]_vars => [Stays]_vars
  <2> SUFFICES ASSUME Inv, PieceIsLast, [Next]_vars, NEW page \in BrkBase + 1 .. brk_limit - 1,
                      PageEntry(page).present
               PROVE  PageEntry(page)' = PageEntry(page)
    OBVIOUS
  <2>1. HeapKept
    BY InvKept
  <2>2. Flow /\ BreakOK /\ brk_limit \in Nat
    BY DEF Inv, IInv, Flow, BreakOK
  <2>3. brk_limit < TestPage /\ TestPage \in Nat /\ BrkBase \in Nat
    BY <2>2, TestPageApart, Numbers
  <2>4. page \in Int /\ 0 <= page /\ page <= TestPage /\ page < brk_limit /\ BrkBase + 1 <= page
    BY <2>2, <2>3
  <2>5. page \in Pages
    BY <2>4, PagesBelow
  <2> QED
    BY <2>1, <2>4, <2>5 DEF HeapKept, Mapped
<1> QED
  BY <1>1, InvAlways, PTL DEF Spec, BelowBreakStable

-----------------------------------------------------------------------------
(* What user programs reach.                                               *)

\* One module is the test program; with two, the first one stays mapped.
OneProgram == \A i, j \in DOMAIN Modules :
                 Modules[i].isTest /\ Modules[j].isTest => i = j

\* Of what UserPages is made.
NamePage == IF step[1] = "name" \/ (step[1] = "modules" /\ step[2] > 1)
            THEN {CmdlinePage} ELSE {}
Stacks == {p.stack : p \in {q \in processes : q.user}}
Programs == IF program = 0 THEN {} ELSE {program}

UserPart == \A p \in Pages : Mapped(p) /\ PageEntry(p).user <=> p \in UserPages

LEMMA UserParts ==
  UserPages = Stacks \cup Programs \cup NamePage
  BY DEF UserPages, Stacks, Programs, NamePage

\* The pages that vmalloc gives, and the one of the names, are below the kernel's.
LEMMA UserPagesLow ==
  ASSUME Flow, ProcessesOK
  PROVE  /\ Stacks \cup Programs \subseteq vpages
         /\ UserPages \subseteq 0 .. KernelTable * Slots - 1
         /\ \A p \in vpages \cup {CmdlinePage} : p \in Pages /\ ~ (VaddmPage <= p)
<1>1. Stacks \cup Programs \subseteq vpages
  BY DEF Stacks, Programs, ProcessesOK, StacksOK, ProgramOK
<1>2. /\ KernelTable * Slots \in Nat /\ KernelTable * Slots <= VaddmPage
      /\ VaddmPage \in Nat /\ CmdlinePage \in Nat /\ CmdlinePage < KernelTable * Slots
  BY Numbers
<1>3. \A p \in vpages : p \in Pages /\ p \in Nat /\ p < KernelTable * Slots
  BY VpagesBelow, VpagesAreLow
<1>4. CmdlinePage \in Pages
  BY PagingAssumption
<1>5. \A p \in vpages \cup {CmdlinePage} :
         p \in Pages /\ p \in Nat /\ p < KernelTable * Slots /\ ~ (VaddmPage <= p)
  BY <1>2, <1>3, <1>4
<1>6. UserPages \subseteq vpages \cup {CmdlinePage}
  BY <1>1, UserParts DEF NamePage
<1>7. UserPages \subseteq 0 .. KernelTable * Slots - 1
  BY <1>2, <1>5, <1>6
<1> QED
  BY <1>1, <1>5, <1>7

\* A step that maps pages of the kernel only, and makes no process.
LEMMA UserSame ==
  ASSUME Flow, UserInv, Flow', KernelOnly, UNCHANGED <<processes, program, vpages>>,
         call' = call \/ call'.kind # "kstack", NamePage' = NamePage, ProgramOK'
  PROVE  UserInv'
<1>1. UserPart /\ ProcessesOK
  BY DEF UserInv, UserPart
<1>2. UserPages' = UserPages
  BY UserParts DEF Stacks, Programs, UserPages, NamePage
<1>3. \A p \in Pages : ~ (VaddmPage <= p) => PageEntry(p)' = PageEntry(p)
  BY DEF KernelOnly
<1>4. \A p \in vpages : p \in Pages /\ ~ (VaddmPage <= p)
  BY <1>1, UserPagesLow
<1>5. \A p \in UserPages : ~ (VaddmPage <= p)
  <2>1. /\ KernelTable * Slots \in Nat /\ KernelTable * Slots <= VaddmPage
        /\ VaddmPage \in Nat
    BY Numbers
  <2>2. UserPages \subseteq 0 .. KernelTable * Slots - 1
    BY <1>1, UserPagesLow
  <2> QED
    BY <2>1, <2>2
<1>6. UserPart'
  <2> SUFFICES ASSUME NEW p \in Pages
               PROVE  Mapped(p)' /\ PageEntry(p)'.user <=> p \in UserPages
    BY <1>2 DEF UserPart
  <2>1. CASE PageEntry(p)' = PageEntry(p)
    BY <1>1, <2>1 DEF UserPart, Mapped
  <2>2. CASE PageEntry(p)' # PageEntry(p)
    <3>1. VaddmPage <= p /\ ~ PageEntry(p)'.user
      BY <2>2 DEF KernelOnly
    <3> QED
      BY <1>5, <3>1
  <2> QED
    BY <2>1, <2>2
<1>7. ProcessesOK'
  <2>1. StacksOK'
    <3> SUFFICES ASSUME NEW q \in processes, q.user
                 PROVE  /\ q.kernel_esp = q.stack + 1 /\ q.stack \in vpages
                        /\ Mapped(q.stack)' /\ PageEntry(q.stack)'.rw
      BY DEF StacksOK
    <3>1. /\ q.kernel_esp = q.stack + 1 /\ q.stack \in vpages
          /\ Mapped(q.stack) /\ PageEntry(q.stack).rw
      BY <1>1 DEF ProcessesOK, StacksOK
    <3>2. PageEntry(q.stack)' = PageEntry(q.stack)
      BY <1>3, <1>4, <3>1
    <3> QED
      BY <3>1, <3>2 DEF Mapped
  <2>2. call'.kind = "kstack" => ~ Mapped(call.next)' /\ call' = call
    <3> SUFFICES ASSUME call'.kind = "kstack"
                 PROVE  ~ Mapped(call.next)' /\ call' = call
      OBVIOUS
    <3>1. PICK page : page = call.next
      OBVIOUS
    <3>2. call' = call /\ ~ Mapped(page)
      BY <1>1, <3>1 DEF ProcessesOK
    <3>3. page \in vpages
      BY <3>1, <3>2 DEF Flow, CallOK, HeapCall, NoCall
    <3>4. PageEntry(page)' = PageEntry(page)
      BY <1>3, <1>4, <3>3
    <3>5. ~ Mapped(page)' /\ page = call'.next
      BY <3>1, <3>2, <3>4 DEF Mapped
    <3> QED
      BY <3>1, <3>2, <3>5
  <2> QED
    BY <2>1, <2>2 DEF ProcessesOK
<1>8. (UserPages \subseteq 0 .. KernelTable * Slots - 1)'
  BY <1>2 DEF UserInv
<1> QED
  BY <1>6, <1>7, <1>8 DEF UserInv, UserPart

\* The program is that of a module that has been read.
LEMMA ProgramKept ==
  ASSUME StepOK, ProgramOK, program' = program, vpages \subseteq vpages',
         \/ step' = step
         \/ step[1] \in {"pmm", "vaddm"}
         \/ step'[1] \in {"process_create", "test", "idle_process"}
         \/ \E i \in DOMAIN Modules : step = <<"modules", i>> /\ step' = <<"name", i>>
         \/ \E i \in DOMAIN Modules : step = <<"name", i>> /\ step' = <<"modules", i + 1>>
  PROVE  ProgramOK'
<1> SUFFICES ASSUME program # 0 PROVE ProgramOK'
  BY DEF ProgramOK
<1>1. /\ program \in vpages' /\ step[1] \notin {"pmm", "vaddm"}
  BY DEF ProgramOK
<1>2. PICK j \in DOMAIN Modules :
        Modules[j].isTest /\ (step[1] \in {"modules", "name"} => j < step[2])
  BY DEF ProgramOK
<1>3. j \in Nat
  BY PagingAssumption
<1>4. CASE step' = step
  BY <1>1, <1>2, <1>4 DEF ProgramOK
<1>5. CASE step'[1] \in {"process_create", "test", "idle_process"}
  BY <1>1, <1>2, <1>5 DEF ProgramOK
<1>6. CASE \E i \in DOMAIN Modules : step = <<"modules", i>> /\ step' = <<"name", i>>
  BY <1>1, <1>2, <1>6 DEF ProgramOK
<1>7. CASE \E i \in DOMAIN Modules : step = <<"name", i>> /\ step' = <<"modules", i + 1>>
  <2>1. PICK i \in DOMAIN Modules : step = <<"name", i>> /\ step' = <<"modules", i + 1>>
    BY <1>7
  <2>2. i \in Nat /\ j < i
    BY <1>2, <2>1, PagingAssumption
  <2>3. j < i + 1
    BY <1>3, <2>2
  <2>4. step'[1] = "modules" /\ step'[2] = i + 1
    BY <2>1
  <2> QED
    BY <1>1, <1>2, <2>3, <2>4 DEF ProgramOK
<1> QED
  BY <1>1, <1>4, <1>5, <1>6, <1>7

\* A step that changes one page below the kernel's.
LEMMA UserOne ==
  ASSUME UserInv, NEW page \in Pages, page < KernelTable * Slots,
         \A q \in Pages : q # page => PageEntry(q)' = PageEntry(q),
         UserPages' \ {page} = UserPages \ {page},
         Mapped(page)' /\ PageEntry(page)'.user <=> page \in UserPages'
  PROVE  /\ UserPart'
         /\ UserPages' \subseteq 0 .. KernelTable * Slots - 1
<1>1. UserPart /\ UserPages \subseteq 0 .. KernelTable * Slots - 1
  BY DEF UserInv, UserPart
<1>2. page \in 0 .. KernelTable * Slots - 1
  BY Numbers DEF Pages
<1>3. UserPages' \subseteq 0 .. KernelTable * Slots - 1
  BY <1>1, <1>2
<1>4. ASSUME NEW p \in Pages, p # page
      PROVE  Mapped(p)' /\ PageEntry(p)'.user <=> p \in UserPages'
  BY <1>1, <1>4 DEF UserPart, Mapped
<1>5. UserPart'
  BY <1>4 DEF UserPart
<1> QED
  BY <1>3, <1>5

LEMMA StacksKept ==
  ASSUME Flow, StacksOK, processes' = processes, vpages \subseteq vpages',
         NEW page, \A q \in processes : q.user => q.stack # page,
         \A q \in Pages : q # page => PageEntry(q)' = PageEntry(q)
  PROVE  StacksOK'
<1> SUFFICES ASSUME NEW q \in processes, q.user
             PROVE  /\ q.kernel_esp = q.stack + 1 /\ q.stack \in vpages'
                    /\ Mapped(q.stack)' /\ PageEntry(q.stack)'.rw
  BY DEF StacksOK
<1>1. /\ q.kernel_esp = q.stack + 1 /\ q.stack \in vpages /\ q.stack # page
      /\ Mapped(q.stack) /\ PageEntry(q.stack).rw
  BY DEF StacksOK
<1>2. q.stack \in Pages
  BY <1>1, VpagesBelow, VpagesAreLow
<1>3. PageEntry(q.stack)' = PageEntry(q.stack)
  BY <1>1, <1>2
<1> QED
  BY <1>1, <1>3 DEF Mapped

\* What the steps of the kernel alone do to the pages of the programs: nothing.
LEMMA KernelKeepsUser ==
  ASSUME IInv, UserInv, Flow', KernelOnly, UNCHANGED <<processes, program, vpages>>,
         call' = call \/ call'.kind # "kstack",
         \/ step' = step
         \/ step[1] \in {"pmm", "vaddm"} /\ (step'[1] \in {"pmm", "vaddm"}
                                             \/ step' = <<"modules", 1>>)
         \/ step[1] = "test" /\ step'[1] \in {"test", "idle_process"}
  PROVE  UserInv'
<1>1. Flow /\ StepOK /\ ProgramOK
  BY DEF IInv, Flow, UserInv, ProcessesOK
<1>2. NamePage' = NamePage
  <2>1. CASE step' = step
    BY <2>1 DEF NamePage
  <2>2. CASE step[1] \in {"pmm", "vaddm"} /\ (step'[1] \in {"pmm", "vaddm"}
                                              \/ step' = <<"modules", 1>>)
    BY <2>2 DEF NamePage
  <2>3. CASE step[1] = "test" /\ step'[1] \in {"test", "idle_process"}
    BY <2>3 DEF NamePage
  <2> QED
    BY <2>1, <2>2, <2>3
<1>3. ProgramOK'
  <2>1. \/ step' = step \/ step[1] \in {"pmm", "vaddm"}
        \/ step'[1] \in {"process_create", "test", "idle_process"}
    OBVIOUS
  <2> QED
    BY <1>1, <2>1, ProgramKept
<1> QED
  BY <1>1, <1>2, <1>3, UserSame

LEMMA MapCmdlineUser ==
  ASSUME IInv, UserInv, Flow', NEW i \in DOMAIN Modules, MapCmdline(i)
  PROVE  UserInv'
<1>1. Flow /\ StepOK /\ StacksOK /\ ProgramOK /\ ProcessesOK
  BY DEF IInv, Flow, UserInv, ProcessesOK
<1>2. /\ step = <<"modules", i>> /\ step' = <<"name", i>> /\ call = NoCall /\ call' = call
      /\ UNCHANGED <<vpages, processes, program>>
  BY DEF MapCmdline, Kinit
<1>3. /\ \A q \in Pages : q # CmdlinePage => PageEntry(q)' = PageEntry(q)
      /\ Mapped(CmdlinePage)' /\ PageEntry(CmdlinePage)'.user
  BY MapCmdlineAction
<1>4. CmdlinePage \in Pages /\ CmdlinePage < KernelTable * Slots /\ CmdlinePage \notin vpages
  BY <1>1, PagingAssumption, Numbers, CmdlineApart
<1>5. /\ Stacks' = Stacks /\ Programs' = Programs /\ NamePage' = {CmdlinePage}
      /\ NamePage \subseteq {CmdlinePage}
  BY <1>2 DEF Stacks, Programs, NamePage
<1>6. UserPages = Stacks \cup Programs \cup NamePage
  BY UserParts
<1>7. UserPages' = Stacks' \cup Programs' \cup NamePage'
  BY DEF UserPages, Stacks, Programs, NamePage
<1>8. UserPages' \ {CmdlinePage} = UserPages \ {CmdlinePage} /\ CmdlinePage \in UserPages'
  BY <1>5, <1>6, <1>7
<1>9. UserPart' /\ UserPages' \subseteq 0 .. KernelTable * Slots - 1
  BY <1>3, <1>4, <1>8, UserOne
<1>10. StacksOK'
  <2>1. \A q \in processes : q.user => q.stack # CmdlinePage
    BY <1>1, <1>4 DEF StacksOK
  <2> QED
    BY <1>1, <1>2, <1>3, <2>1, StacksKept
<1>11. ProgramOK'
  BY <1>1, <1>2, ProgramKept
<1>12. call'.kind # "kstack"
  BY <1>2 DEF NoCall
<1> QED
  BY <1>9, <1>10, <1>11, <1>12 DEF UserInv, UserPart, ProcessesOK

LEMMA ReadNameUser ==
  ASSUME IInv, UserInv, Flow', OneProgram, NEW i \in DOMAIN Modules, ReadName(i)
  PROVE  UserInv'
<1>1. Flow /\ StepOK /\ StacksOK /\ ProgramOK /\ ProcessesOK
  BY DEF IInv, Flow, UserInv, ProcessesOK
<1>2. /\ step = <<"name", i>> /\ step' = <<"modules", i + 1>> /\ call = NoCall
      /\ call' = call /\ processes' = processes
  BY DEF ReadName, Kinit
<1>3. i \in Nat /\ i >= 1
  BY PagingAssumption
<1>4. NamePage = {CmdlinePage} /\ NamePage' = {CmdlinePage} /\ Stacks' = Stacks
  <2>1. i + 1 > 1
    BY <1>3
  <2> QED
    BY <1>2, <2>1 DEF NamePage, Stacks
<1>5. UserPages = Stacks \cup Programs \cup NamePage
  BY UserParts
<1>6. UserPages' = Stacks' \cup Programs' \cup NamePage'
  BY DEF UserPages, Stacks, Programs, NamePage
<1>7. call'.kind # "kstack"
  BY <1>2 DEF NoCall
<1>8. CASE /\ UNCHANGED <<vpages, program>>
           /\ \A q \in Pages : PageEntry(q)' = PageEntry(q)
  <2>1. KernelOnly
    BY <1>8 DEF KernelOnly
  <2>2. ProgramOK'
    BY <1>1, <1>2, <1>8, ProgramKept
  <2> QED
    BY <1>1, <1>2, <1>4, <1>7, <1>8, <2>1, <2>2, UserSame
<1>9. ASSUME NEW page \in VMallocBase .. Slots - 1,
             Modules[i].isTest, program' = page,
             page \notin vpages, vpages' = vpages \cup {page},
             \A q \in Pages : q # page => PageEntry(q)' = PageEntry(q),
             Mapped(page)', PageEntry(page)'.user
      PROVE  UserInv'
  <2>1. program = 0
    <3> SUFFICES ASSUME program # 0 PROVE FALSE
      OBVIOUS
    <3>1. PICK j \in DOMAIN Modules : Modules[j].isTest /\ j < i
      BY <1>1, <1>2 DEF ProgramOK
    <3>2. j = i
      BY <1>9, <3>1 DEF OneProgram
    <3> QED
      BY <1>3, <3>1, <3>2
  <2>2. page \in Pages /\ page < KernelTable * Slots /\ page # 0
    <3>1. page \in Pages /\ page < KernelTable * Slots
      BY VpagesAreLow
    <3>2. VMallocBase \in Nat /\ VMallocBase > 0
      BY Numbers
    <3> QED
      BY <3>1, <3>2
  <2>3. Programs = {} /\ Programs' = {page}
    BY <1>9, <2>1, <2>2 DEF Programs
  <2>4. UserPages' = UserPages \cup {page}
    BY <1>4, <1>5, <1>6, <2>3
  <2>5. UserPages' \ {page} = UserPages \ {page} /\ page \in UserPages'
    BY <2>4
  <2>6. UserPart' /\ UserPages' \subseteq 0 .. KernelTable * Slots - 1
    BY <1>9, <2>2, <2>5, UserOne
  <2>7. StacksOK'
    <3>1. \A q \in processes : q.user => q.stack # page
      BY <1>1, <1>9 DEF StacksOK
    <3> QED
      BY <1>1, <1>2, <1>9, <3>1, StacksKept
  <2>8. ProgramOK'
    <3>1. step'[1] = "modules" /\ i < step'[2]
      BY <1>2, <1>3
    <3> QED
      BY <1>9, <3>1 DEF ProgramOK
  <2> QED
    BY <1>7, <2>6, <2>7, <2>8 DEF UserInv, UserPart, ProcessesOK
<1> QED
  BY <1>8, <1>9, ReadNameAction

LEMMA UnmapCmdlineUser ==
  ASSUME IInv, UserInv, Flow', UnmapCmdline
  PROVE  UserInv'
<1>1. Flow /\ StepOK /\ StacksOK /\ ProgramOK /\ ProcessesOK /\ UserPart
  BY DEF IInv, Flow, UserInv, ProcessesOK, UserPart
<1>2. /\ step = <<"modules", Len(Modules) + 1>> /\ step' = <<"process_create", 1>>
      /\ call = NoCall /\ call' = call /\ UNCHANGED <<vpages, processes, program>>
  BY DEF UnmapCmdline, Kinit, kinitVars
<1>3. CmdlinePage \in Pages /\ CmdlinePage < KernelTable * Slots /\ CmdlinePage \notin vpages
  BY <1>1, PagingAssumption, Numbers, CmdlineApart
<1>4. \A q \in Pages : q # CmdlinePage => PageEntry(q)' = PageEntry(q)
  BY UnmapCmdlineAction
<1>5. Stacks' = Stacks /\ Programs' = Programs /\ NamePage' = {}
  BY <1>2 DEF Stacks, Programs, NamePage
<1>6. UserPages = Stacks \cup Programs \cup NamePage
  BY UserParts
<1>7. UserPages' = Stacks' \cup Programs' \cup NamePage'
  BY DEF UserPages, Stacks, Programs, NamePage
<1>8. CmdlinePage \notin Stacks \cup Programs /\ NamePage \subseteq {CmdlinePage}
  <2>1. Stacks \cup Programs \subseteq vpages
    BY <1>1, UserPagesLow
  <2> QED
    BY <1>3, <2>1 DEF NamePage
<1>9. CmdlinePage \notin UserPages' /\ UserPages' \ {CmdlinePage} = UserPages \ {CmdlinePage}
  BY <1>5, <1>6, <1>7, <1>8
<1>10. ~ (Mapped(CmdlinePage)' /\ PageEntry(CmdlinePage)'.user)
  <2>1. CASE Modules # <<>>
    BY <2>1, UnmapCmdlineAction
  <2>2. CASE Modules = <<>>
    <3>1. NamePage = {}
      <4>1. Len(Modules) + 1 = 1
        BY <2>2
      <4> QED
        BY <1>2, <4>1 DEF NamePage
    <3>2. CmdlinePage \notin UserPages
      BY <1>6, <1>8, <3>1
    <3>3. PageEntry(CmdlinePage)' = PageEntry(CmdlinePage)
      BY <2>2, UnmapCmdlineAction
    <3> QED
      BY <1>1, <1>3, <3>2, <3>3 DEF UserPart, Mapped
  <2> QED
    BY <2>1, <2>2
<1>11. UserPart' /\ UserPages' \subseteq 0 .. KernelTable * Slots - 1
  BY <1>3, <1>4, <1>9, <1>10, UserOne
<1>12. StacksOK'
  <2>1. \A q \in processes : q.user => q.stack # CmdlinePage
    BY <1>1, <1>3 DEF StacksOK
  <2> QED
    BY <1>1, <1>2, <1>4, <2>1, StacksKept
<1>13. ProgramOK'
  BY <1>1, <1>2, ProgramKept
<1>14. call'.kind # "kstack"
  BY <1>2 DEF NoCall
<1> QED
  BY <1>11, <1>12, <1>13, <1>14 DEF UserInv, UserPart, ProcessesOK

LEMMA CreateProcessUser ==
  ASSUME IInv, UserInv, Flow', NEW n \in 1 .. 3, CreateProcess(n)
  PROVE  UserInv'
<1>1. Flow /\ Placed /\ StepOK /\ StacksOK /\ ProgramOK /\ ProcessesOK
  BY DEF IInv, Flow, UserInv, ProcessesOK
<1>2. step = <<"process_create", n>> /\ step'[1] \in {"process_create", "test"}
      /\ program' = program
  BY DEF CreateProcess, Kinit, AfterProcess
<1>3. PICK page \in VMallocBase .. Slots - 1 :
         /\ page \notin vpages /\ page \in vpages'
         /\ \A q \in Pages : q # page => PageEntry(q)' = PageEntry(q)
         /\ Mapped(page)' /\ PageEntry(page)'.rw
         /\ PageEntry(page)'.user <=> IsUser(n)
         /\ ~ IsUser(n) => /\ call' = NoCall /\ vpages' = vpages \cup {page}
                           /\ \E p : ~ p.user /\ processes' = processes \cup {p}
         /\ IsUser(n) =>
               /\ page + 1 \in VMallocBase .. Slots - 1 /\ page + 1 \notin vpages
               /\ vpages' = vpages \cup {page, page + 1}
               /\ call' = [kind |-> "kstack", next |-> page + 1]
               /\ processes' = processes \cup
                     {[stack |-> page, kernel_esp |-> page + 1, user |-> TRUE]}
  BY CreateProcessAction
<1>4. page \in Pages /\ page < KernelTable * Slots /\ page \in Nat
  BY VpagesAreLow
<1>5. NamePage = {} /\ NamePage' = {} /\ Programs' = Programs
  BY <1>2 DEF NamePage, Programs
<1>6. UserPages = Stacks \cup Programs \cup NamePage
  BY UserParts
<1>7. UserPages' = Stacks' \cup Programs' \cup NamePage'
  BY DEF UserPages, Stacks, Programs, NamePage
<1>8. page \notin Stacks \cup Programs
  BY <1>1, <1>3, UserPagesLow
<1>9. vpages \subseteq vpages'
  BY <1>3
<1>10. ProgramOK'
  BY <1>1, <1>2, <1>9, ProgramKept
<1>11. ASSUME NEW q \in processes, q.user
       PROVE  /\ q.kernel_esp = q.stack + 1 /\ q.stack \in vpages'
              /\ Mapped(q.stack)' /\ PageEntry(q.stack)'.rw
  <2>1. /\ q.kernel_esp = q.stack + 1 /\ q.stack \in vpages
        /\ Mapped(q.stack) /\ PageEntry(q.stack).rw
    BY <1>1, <1>11 DEF StacksOK
  <2>2. q.stack \in Pages /\ q.stack # page
    BY <1>1, <1>3, <2>1, VpagesBelow, VpagesAreLow
  <2>3. PageEntry(q.stack)' = PageEntry(q.stack)
    BY <1>3, <2>2
  <2> QED
    BY <1>9, <2>1, <2>3 DEF Mapped
<1>12. CASE ~ IsUser(n)
  <2>1. PICK p : ~ p.user /\ processes' = processes \cup {p}
    BY <1>3, <1>12
  <2>2. Stacks' = Stacks
    BY <2>1 DEF Stacks
  <2>3. page \notin UserPages' /\ UserPages' \ {page} = UserPages \ {page}
    BY <1>5, <1>6, <1>7, <1>8, <2>2
  <2>4. ~ PageEntry(page)'.user
    BY <1>3, <1>12
  <2>5. UserPart' /\ UserPages' \subseteq 0 .. KernelTable * Slots - 1
    BY <1>3, <1>4, <2>3, <2>4, UserOne
  <2>6. StacksOK'
    BY <1>11, <2>1 DEF StacksOK
  <2>7. call'.kind # "kstack"
    BY <1>3, <1>12 DEF NoCall
  <2> QED
    BY <1>10, <2>5, <2>6, <2>7 DEF UserInv, UserPart, ProcessesOK
<1>13. CASE IsUser(n)
  <2> DEFINE p == [stack |-> page, kernel_esp |-> page + 1, user |-> TRUE]
  <2>1. processes' = processes \cup {p}
    BY <1>3, <1>13
  <2>2. p.stack = page /\ p.kernel_esp = page + 1 /\ p.user
    OBVIOUS
  <2> HIDE DEF p
  <2>3. Stacks' = Stacks \cup {page}
    BY <2>1, <2>2 DEF Stacks
  <2>4. page \in UserPages' /\ UserPages' \ {page} = UserPages \ {page}
    BY <1>5, <1>6, <1>7, <1>8, <2>3
  <2>5. PageEntry(page)'.user
    BY <1>3, <1>13
  <2>6. UserPart' /\ UserPages' \subseteq 0 .. KernelTable * Slots - 1
    BY <1>3, <1>4, <2>4, <2>5, UserOne
  <2>7. StacksOK'
    BY <1>3, <1>11, <2>1, <2>2 DEF StacksOK
  <2>8. ~ Mapped(page + 1)'
    <3>1. page + 1 \in Pages /\ ~ Mapped(page + 1)
      BY <1>1, <1>3, <1>13, NotMappedYet
    <3>2. page + 1 # page
      BY <1>4
    <3>3. PageEntry(page + 1)' = PageEntry(page + 1)
      BY <1>3, <3>1, <3>2
    <3> QED
      BY <3>1, <3>3 DEF Mapped
  <2>9. call'.next = page + 1
    BY <1>3, <1>13
  <2>10. ~ Mapped(call.next)'
    BY <2>8, <2>9 DEF Mapped, PageEntry
  <2> QED
    BY <1>10, <2>6, <2>7, <2>10 DEF UserInv, UserPart, ProcessesOK
<1> QED
  BY <1>12, <1>13

LEMMA MapKernelStackUser ==
  ASSUME IInv, UserInv, Flow', MapKernelStack
  PROVE  UserInv'
<1>1. Flow /\ StepOK /\ StacksOK /\ ProgramOK /\ ProcessesOK /\ UserPart
  BY DEF IInv, Flow, UserInv, ProcessesOK, UserPart
<1>2. /\ call.kind = "kstack" /\ call' = NoCall
      /\ UNCHANGED <<step, vpages, processes, program>>
  BY DEF MapKernelStack, kinitVars
<1>3. PICK page \in VMallocBase .. Slots - 1 :
         /\ page = call.next
         /\ \A q \in Pages : q # page => PageEntry(q)' = PageEntry(q)
         /\ ~ Mapped(page) => ~ PageEntry(page)'.user
  BY MapKernelStackAction
<1>4. page \in Pages /\ page < KernelTable * Slots
  BY VpagesAreLow
<1>5. ~ Mapped(page)
  BY <1>1, <1>2, <1>3 DEF ProcessesOK
<1>6. page \notin UserPages
  BY <1>1, <1>4, <1>5 DEF UserPart
<1>7. UserPages' = UserPages
  BY <1>2 DEF UserPages
<1>8. UserPart' /\ UserPages' \subseteq 0 .. KernelTable * Slots - 1
  BY <1>3, <1>4, <1>5, <1>6, <1>7, UserOne
<1>9. StacksOK'
  <2>1. \A q \in processes : q.user => q.stack # page
    BY <1>1, <1>5 DEF StacksOK
  <2> QED
    BY <1>1, <1>2, <1>3, <2>1, StacksKept
<1>10. ProgramOK'
  BY <1>1, <1>2, ProgramKept
<1>11. call'.kind # "kstack"
  BY <1>2 DEF NoCall
<1> QED
  BY <1>8, <1>9, <1>10, <1>11 DEF UserInv, UserPart, ProcessesOK

LEMMA UserHolds ==
  ASSUME Init
  PROVE  UserInv
<1>1. /\ step = <<"pmm", 0>> /\ call = NoCall /\ processes = {} /\ program = 0
      /\ \A t \in Tables : ~ Present(t)
  BY DEF Init, Present, Absent
<1>2. UserPages = {}
  BY <1>1 DEF UserPages
<1>3. \A p \in Pages : ~ Mapped(p)
  BY <1>1, PageParts DEF Mapped, PageEntry, Present, Absent
<1>4. ProcessesOK
  BY <1>1 DEF ProcessesOK, StacksOK, ProgramOK, NoCall
<1> QED
  BY <1>2, <1>3, <1>4 DEF UserInv

LEMMA UserKept ==
  ASSUME Inv, UserInv, OneProgram, PieceIsLast, [Next]_vars
  PROVE  UserInv'
<1>1. IInv /\ TestType /\ Flow /\ CallOK
  BY DEF Inv, IInv, Flow
<1>2. Flow'
  BY <1>1, FlowKept
<1>3. CASE \/ \E page \in TlbPages : TlbFill(page)
           \/ UserFault \/ vmm_switch_page_base
           \/ \E n \in Requests : GrowBreak(n)
           \/ \E i \in DOMAIN blocks : ShrinkBreak(i)
           \/ UNCHANGED vars
  <2>1. KernelOnly
    BY <1>1, <1>2, <1>3, SameAction
  <2>2. /\ UNCHANGED <<processes, program, vpages, step>>
        /\ call' = call \/ call'.kind # "kstack"
    <3>1. CASE \E page \in TlbPages : TlbFill(page)
      BY <3>1 DEF TlbFill, kinitVars
    <3>2. CASE UserFault \/ vmm_switch_page_base
      BY <3>2 DEF UserFault, vmm_switch_page_base, kinitVars
    <3>3. CASE \E n \in Requests : GrowBreak(n)
      <4>1. PICK n \in Requests : GrowBreak(n)
        BY <3>3
      <4>2. call' = [kind |-> "grow", next |-> brk_limit]
        BY <4>1 DEF GrowBreak
      <4>3. UNCHANGED <<processes, program, vpages, step>>
        BY <4>1 DEF GrowBreak, kinitVars
      <4> QED
        BY <4>2, <4>3
    <3>4. CASE \E i \in DOMAIN blocks : ShrinkBreak(i)
      <4>1. PICK i \in DOMAIN blocks : ShrinkBreak(i)
        BY <3>4
      <4>2. call' = [kind |-> "shrink", next |-> brk_limit]
        BY <4>1 DEF ShrinkBreak
      <4>3. UNCHANGED <<processes, program, vpages, step>>
        BY <4>1 DEF ShrinkBreak, kinitVars
      <4> QED
        BY <4>2, <4>3
    <3>5. CASE UNCHANGED vars
      BY <3>5 DEF vars, kinitVars
    <3> QED
      BY <1>3, <3>1, <3>2, <3>3, <3>4, <3>5
  <2> QED
    BY <1>1, <1>2, <2>1, <2>2, KernelKeepsUser
<1>4. CASE pmm_init
  <2>1. /\ UNCHANGED <<processes, program, vpages, call>> /\ step[1] = "pmm"
        /\ step'[1] \in {"pmm", "vaddm"}
    BY <1>4 DEF pmm_init, Kinit, kinitVars
  <2> QED
    BY <1>1, <1>2, <1>4, <2>1, PmmInitAction, KernelKeepsUser
<1>5. CASE vaddm_init
  <2>1. /\ UNCHANGED <<processes, program, vpages, call>> /\ step[1] = "vaddm"
        /\ step'[1] = "vaddm" \/ step' = <<"modules", 1>>
    BY <1>5 DEF vaddm_init, kinitVars
  <2> QED
    BY <1>1, <1>2, <1>5, <2>1, VaddmInitAction, KernelKeepsUser
<1>6. CASE \/ MapBrkBase \/ GrowPage \/ ShrinkPage
           \/ \E i \in DOMAIN blocks :
                 \E page \in BlockPages(blocks[i]) : KernelFault(page)
  <2>1. KernelOnly
    BY <1>1, <1>2, <1>6, HeapAction
  <2>2. /\ UNCHANGED <<processes, program, vpages, step>>
        /\ call' = call \/ call'.kind # "kstack"
    <3>1. CASE MapBrkBase
      BY <3>1 DEF MapBrkBase, kinitVars
    <3>2. CASE GrowPage
      <4>1. /\ UNCHANGED <<processes, program, vpages, step>>
            /\ call.kind = "grow"
            /\ call' = IF call.next + PtrScale < brk_limit
                        THEN [call EXCEPT !.next = @ + PtrScale] ELSE NoCall
        BY <3>2 DEF GrowPage, kinitVars
      <4>2. call'.kind # "kstack"
        BY <1>1, <4>1 DEF CallOK, NoCall
      <4> QED
        BY <4>1, <4>2
    <3>3. CASE ShrinkPage
      <4>1. /\ UNCHANGED <<processes, program, vpages, step>>
            /\ call.kind = "shrink"
            /\ call' = IF call.next - PtrScale > brk_limit
                        THEN [call EXCEPT !.next = @ - PtrScale] ELSE NoCall
        BY <3>3 DEF ShrinkPage, kinitVars
      <4>2. call'.kind # "kstack"
        BY <1>1, <4>1 DEF CallOK, NoCall
      <4> QED
        BY <4>1, <4>2
    <3>4. CASE \E i \in DOMAIN blocks :
                  \E page \in BlockPages(blocks[i]) : KernelFault(page)
      BY <3>4 DEF KernelFault, kinitVars
    <3> QED
      BY <1>6, <3>1, <3>2, <3>3, <3>4
  <2> QED
    BY <1>1, <1>2, <2>1, <2>2, KernelKeepsUser
<1>7. ASSUME NEW i \in DOMAIN Modules, MapCmdline(i) PROVE UserInv'
  BY <1>1, <1>2, <1>7, MapCmdlineUser
<1>8. ASSUME NEW i \in DOMAIN Modules, ReadName(i) PROVE UserInv'
  BY <1>1, <1>2, <1>8, ReadNameUser
<1>9. CASE UnmapCmdline
  BY <1>1, <1>2, <1>9, UnmapCmdlineUser
<1>10. ASSUME NEW n \in 1 .. 3, CreateProcess(n) PROVE UserInv'
  BY <1>1, <1>2, <1>10, CreateProcessUser
<1>11. CASE MapKernelStack
  BY <1>1, <1>2, <1>11, MapKernelStackUser
<1>12. CASE TestWrite \/ TestUnmap \/ TestRemap \/ TestCompare \/ TestEnd
  <2>1. KernelOnly
    BY <1>1, <1>2, <1>12, TestWriteAction, TestUnmapAction, TestRemapAction,
       TestCompareAction, TestEndAction
  <2>2. /\ UNCHANGED <<processes, program, vpages, call>> /\ step[1] = "test"
        /\ step'[1] \in {"test", "idle_process"}
    <3>1. CASE TestWrite
      BY <3>1 DEF TestWrite, Kinit
    <3>2. CASE TestUnmap
      BY <3>2 DEF TestUnmap, Kinit, kinitVars
    <3>3. CASE TestRemap
      BY <3>3 DEF TestRemap, Kinit, kinitVars
    <3>4. CASE TestCompare
      BY <3>4, Zenon DEF TestCompare, Kinit
    <3>5. CASE TestEnd
      BY <3>5 DEF TestEnd, Kinit, kinitVars
    <3> QED
      BY <1>12, <3>1, <3>2, <3>3, <3>4, <3>5
  <2> QED
    BY <1>1, <1>2, <2>1, <2>2, KernelKeepsUser
<1> QED
  BY <1>3, <1>4, <1>5, <1>6, <1>7, <1>8, <1>9, <1>10, <1>11, <1>12 DEF Next

LEMMA InvRuns ==
  ASSUME IInv, UserInv
  PROVE  UserRuns
<1>1. Flow /\ TablesOK /\ DirOK /\ StacksOK /\ UserPart
  BY DEF IInv, TablesInv, CoreInv, UserInv, ProcessesOK, UserPart
<1>2. ASSUME NEW p \in Pages, Mapped(p)
      PROVE  /\ Present(TableOf(p)) /\ TableOf(p) \in Tables
             /\ PAGE_DIRECTORY[TableOf(p)].rw
             /\ PAGE_DIRECTORY[TableOf(p)].user <=> TableOf(p) < KernelTable
             /\ Translation(p).present
             /\ Translation(p).user <=> PAGE_DIRECTORY[TableOf(p)].user /\ PageEntry(p).user
             /\ Translation(p).rw <=> PAGE_DIRECTORY[TableOf(p)].rw /\ PageEntry(p).rw
  <2>1. Present(TableOf(p)) /\ TableOf(p) \in Tables
    BY <1>2, PageParts DEF Mapped, PageEntry, Present, Absent
  <2>2. /\ PAGE_DIRECTORY[TableOf(p)].rw
        /\ PAGE_DIRECTORY[TableOf(p)].user <=> TableOf(p) < KernelTable
    BY <1>1, <2>1 DEF DirOK
  <2> QED
    BY <1>2, <2>1, <2>2 DEF Translation, Mapped, Entry
<1>3. ASSUME NEW p \in Pages PROVE Translation(p).user <=> p \in UserPages
  <2>1. CASE Mapped(p)
    <3>1. p \in UserPages => p < KernelTable * Slots
      <4>1. UserPages \subseteq 0 .. KernelTable * Slots - 1
        BY DEF UserInv
      <4>2. KernelTable * Slots \in Nat
        BY Numbers
      <4> QED
        BY <4>1, <4>2
    <3>2. p \in UserPages => PAGE_DIRECTORY[TableOf(p)].user
      BY <1>2, <2>1, <3>1, KernelPages
    <3>3. p \in UserPages <=> PageEntry(p).user
      BY <1>1, <2>1 DEF UserPart
    <3> QED
      BY <1>2, <2>1, <3>2, <3>3
  <2>2. CASE ~ Mapped(p)
    <3>1. ~ Translation(p).user
      BY <2>2 DEF Translation, Mapped, Absent
    <3> QED
      BY <1>1, <2>2, <3>1 DEF UserPart
  <2> QED
    BY <2>1, <2>2
<1>4. UserPages \subseteq Pages
  <2>1. /\ Stacks \cup Programs \subseteq vpages
        /\ \A p \in vpages \cup {CmdlinePage} : p \in Pages
    BY <1>1, UserPagesLow DEF UserInv
  <2> QED
    BY <2>1, UserParts DEF NamePage
<1>5. UserReachable
  BY <1>3, <1>4 DEF UserReachable
<1>6. TrapFrameLands
  <2> SUFFICES ASSUME NEW q \in processes, q.user
               PROVE  /\ Translation(q.kernel_esp - 1).present
                      /\ Translation(q.kernel_esp - 1).rw
    BY DEF TrapFrameLands
  <2>1. /\ q.kernel_esp = q.stack + 1 /\ q.stack \in vpages
        /\ Mapped(q.stack) /\ PageEntry(q.stack).rw
    BY <1>1 DEF StacksOK
  <2>2. q.stack \in Pages /\ q.stack \in Nat
    BY <1>1, <2>1, VpagesBelow, VpagesAreLow
  <2>3. q.kernel_esp - 1 = q.stack
    BY <2>1, <2>2
  <2> QED
    BY <1>2, <2>1, <2>2, <2>3
<1> QED
  BY <1>5, <1>6 DEF UserRuns

\* Ring 3 reaches the pages given to it and no other, and a trap has a stack it can
\* write: the bits of both levels of the tables fit what process_create and the
\* loop on the modules map for programs.
THEOREM ProgramsRun ==
  ASSUME OneProgram
  PROVE  Spec /\ []PieceIsLast => []UserRuns
<1>1. Init => Inv /\ UserInv
  BY InvHolds, UserHolds DEF Inv
<1>2. (Inv /\ UserInv) /\ PieceIsLast /\ [Next]_vars => (Inv /\ UserInv)'
  BY InvKept, UserKept
<1>3. Inv /\ UserInv => UserRuns
  BY InvRuns DEF Inv
<1> QED
  BY <1>1, <1>2, <1>3, PTL DEF Spec
=============================================================================
