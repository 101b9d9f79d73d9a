----------------------------- MODULE VaddmProofs ----------------------------
(***************************************************************************)
(* The manager of virtual addresses, for words of any length: as long as   *)
(* the calls fit (Vaddm!Fits; those of kinit do), no page has two holders, *)
(* and none that the search can reach is missed, whatever superpage_bitmap *)
(* holds at the start.                                                     *)
(***************************************************************************)
EXTENDS Vaddm, FiniteSetTheorems, WellFoundedInduction, TLAPS

\* The pages that the search can reach.
Reachable == 0 .. W * W - 1

\* W pages to a word, W words to a super page.
LEMMA Sizes ==
  /\ W \in Nat /\ W > 1 /\ W * W \in Nat /\ W * W > 0 /\ W * Words \in Nat
  /\ Words \in Nat /\ W < Words
<1>1. W \in Nat /\ W > 1
  BY VaddmAssumption
<1>2. W * W \in Nat /\ W * W > W
  BY <1>1
<1> DEFINE s == W * W
<1>3. s * W \in Nat /\ s * W > s
  <2>1. s \in Nat /\ s > W
    BY <1>2
  <2> HIDE DEF s
  <2> QED
    BY <1>1, <2>1
<1>4. Words = s * W
  BY <1>1 DEF Words
<1> QED
  BY <1>1, <1>2, <1>3, <1>4

\* Word and super page of a page the search can reach.
LEMMA PageInWord ==
  ASSUME NEW p \in Reachable
  PROVE  /\ p \div W \in 0 .. W - 1 /\ p \in PagesOfWord(p \div W)
         /\ SuperPage(p) = 0
<1> DEFINE w == p \div W
<1>1. W \in Nat /\ W > 1 /\ p \in Nat /\ p < W * W
  BY Sizes DEF Reachable
<1>2. w \in Int /\ w >= 0
  BY <1>1
<1>3. W * w <= p /\ p < W * w + W
  BY <1>1
<1> HIDE DEF w
<1>4. w < W
  <2> SUFFICES ASSUME w >= W PROVE FALSE
    BY <1>1, <1>2
  <2>1. W * w >= W * W
    BY <1>1, <1>2
  <2> QED
    BY <1>1, <1>2, <1>3, <2>1
<1>5. w * W = W * w /\ w * W \in Int
  BY <1>1, <1>2
<1>6. p \in w * W .. w * W + W - 1
  BY <1>1, <1>3, <1>5
<1>7. p \div (W * W) = 0
  <2> DEFINE s == W * W
  <2>1. s \in Nat /\ s > 0 /\ p < s
    BY <1>1, Sizes
  <2> HIDE DEF s
  <2>2. p \div s = 0
    BY <1>1, <2>1
  <2> QED
    BY <2>2 DEF s
<1> QED
  BY <1>1, <1>2, <1>4, <1>6, <1>7 DEF w, PagesOfWord, SuperPage

-----------------------------------------------------------------------------
(* The order of the search.                                                *)

LEMMA LeastElement ==
  ASSUME NEW T, T \subseteq Nat, T # {}
  PROVE  \E m \in T : \A n \in T : m <= n
<1> DEFINE R == {pair \in Nat \X Nat : pair[1] < pair[2]}
<1>1. IsWellFoundedOn(R, Nat)
  BY NatLessThanWellFounded, Zenon DEF OpToRel
<1>2. \A m, n \in Nat : n < m => <<n, m>> \in R
  OBVIOUS
<1> HIDE DEF R
<1>3. PICK m \in T : \A n \in T : ~ (<<n, m>> \in R)
  BY <1>1, WFMin
<1>4. \A n \in T : m \in Nat /\ n \in Nat /\ ~ (n < m)
  BY <1>2, <1>3
<1> QED
  BY <1>4

\* The search comes to one of any places before the others.
LEMMA FirstPlace ==
  ASSUME NEW S, S \subseteq Places, S # {}
  PROVE  First(S) \in S /\ \A y \in S : Leq(First(S), y)
<1> DEFINE supers == {x[1] : x \in S}
<1>1. supers \subseteq Nat /\ supers # {}
  BY DEF Places
<1>2. PICK s \in supers : \A t \in supers : s <= t
  <2> HIDE DEF supers
  <2> QED
    BY <1>1, LeastElement
<1> DEFINE pages == {p \in Nat : <<s, p>> \in S}
<1>3. pages \subseteq Nat /\ pages # {}
  <2>1. PICK x \in S : x[1] = s
    BY <1>2
  <2>2. x = <<s, x[2]>> /\ x[2] \in Nat
    BY <2>1 DEF Places
  <2> QED
    BY <2>1, <2>2
<1>4. PICK p \in pages : \A q \in pages : p <= q
  <2> HIDE DEF pages
  <2> QED
    BY <1>3, LeastElement
<1>5. <<s, p>> \in S
  BY <1>4
<1>6. \A y \in S : Leq(<<s, p>>, y)
  <2> SUFFICES ASSUME NEW y \in S, ~ (s < y[1]) PROVE s = y[1] /\ p <= y[2]
    BY DEF Leq
  <2>1. s <= y[1] /\ y[1] \in Nat /\ y[2] \in Nat /\ y = <<y[1], y[2]>> /\ s \in Nat
    BY <1>1, <1>2 DEF Places
  <2>2. s = y[1]
    BY <2>1
  <2>3. y[2] \in pages
    BY <2>1, <2>2
  <2> QED
    BY <1>4, <2>2, <2>3
<1>7. \E x \in S : \A y \in S : Leq(x, y)
  BY <1>5, <1>6
<1> QED
  BY <1>7, Zenon DEF First

\* The first place at which num pages are counted, and the first of its run.
LEMMA TheRun ==
  ASSUME NEW num \in Nat \ {0}, Hits(num) # {}
  PROVE  /\ End(num) \in Hits(num) /\ \A y \in Hits(num) : Leq(End(num), y)
         /\ Start(num) \in RunAt(End(num))
         /\ \A y \in RunAt(End(num)) : Leq(Start(num), y)
         /\ End(num) \in Visited /\ Start(num) \in Visited
         /\ Leq(Start(num), End(num)) /\ Start(num)[2] \notin page_bitmap
<1>1. End(num) \in Hits(num) /\ \A y \in Hits(num) : Leq(End(num), y)
  <2>1. Hits(num) \subseteq Places
    BY DEF Hits, Visited
  <2> QED
    BY <2>1, FirstPlace DEF End
<1> DEFINE e == End(num)
           d == Start(num)
<1>2. RunAt(e) # {} /\ RunAt(e) \subseteq Visited /\ Visited \subseteq Places
  <2> HIDE DEF e
  <2>1. Cardinality(RunAt(End(num))) >= num
    BY <1>1 DEF Hits
  <2>2. RunAt(End(num)) # {}
    <3> SUFFICES ASSUME RunAt(End(num)) = {} PROVE FALSE
      OBVIOUS
    <3>1. Cardinality(RunAt(End(num))) = 0
      BY FS_EmptySet
    <3> QED
      BY <2>1, <3>1
  <2> QED
    BY <2>2 DEF RunAt, Visited, e
<1>3. d \in RunAt(e) /\ \A y \in RunAt(e) : Leq(d, y)
  <2>1. RunAt(e) \subseteq Places
    BY <1>2
  <2> HIDE DEF e
  <2>2. First(RunAt(e)) \in RunAt(e) /\ \A y \in RunAt(e) : Leq(First(RunAt(e)), y)
    BY <1>2, <2>1, FirstPlace
  <2>3. First(RunAt(e)) = Start(num)
    BY DEF Start, e
  <2> QED
    BY <2>2, <2>3
<1>4. d \in Visited /\ Leq(d, e) /\ Leq(d, d)
  <2>1. d \in Places
    BY <1>2, <1>3
  <2> QED
    BY <1>3, <2>1 DEF RunAt, Leq, Places
<1>5. d[2] \notin page_bitmap
  BY <1>3, <1>4 DEF RunAt
<1>6. e \in Visited
  BY <1>1 DEF Hits
<1> QED
  BY <1>1, <1>3, <1>4, <1>5, <1>6

LEMMA FoundIsFree ==
  ASSUME NEW num \in Nat \ {0}, Hits(num) # {}
  PROVE  Found(num) \in Reachable /\ Found(num) \notin page_bitmap
<1> QED
  BY TheRun DEF Found, Visited, Places, Reachable

\* The places that are compared are pairs of numbers.
LEMMA PlaceType ==
  ASSUME NEW x \in Visited
  PROVE  /\ x = <<x[1], x[2]>> /\ x[1] \in 0 .. W - 1 /\ x[2] \in Reachable
         /\ x[1] \in Int /\ x[2] \in Int
<1> QED
  BY Sizes DEF Visited, Places, Reachable

LEMMA RunIsFinite ==
  ASSUME NEW x PROVE IsFiniteSet(RunAt(x))
<1>1. IsFiniteSet(0 .. W - 1) /\ IsFiniteSet(0 .. W * W - 1)
  BY Sizes, FS_Interval
<1>2. IsFiniteSet(Places)
  BY <1>1, FS_Product DEF Places
<1> QED
  BY <1>2, FS_Subset DEF RunAt, Visited

\* A free place is a hit for one page.
LEMMA FreeIsHit ==
  ASSUME NEW x \in Visited, x[2] \notin page_bitmap
  PROVE  x \in Hits(1)
<1>1. W \in Nat /\ W > 1 /\ W * W \in Nat
  BY Sizes
<1>2. \A h \in Visited : Leq(x, h) /\ Leq(h, x) => h = x
  <2> SUFFICES ASSUME NEW h \in Visited, Leq(x, h), Leq(h, x) PROVE h = x
    OBVIOUS
  <2>1. /\ h[1] \in Int /\ h[2] \in Int /\ x[1] \in Int /\ x[2] \in Int
        /\ h = <<h[1], h[2]>> /\ x = <<x[1], x[2]>>
    BY PlaceType
  <2> QED
    BY <2>1 DEF Leq
<1>3. x \in RunAt(x)
  <2>1. Leq(x, x)
    BY PlaceType DEF Leq
  <2>2. \A h \in Visited : Leq(x, h) /\ Leq(h, x) => h[2] \notin page_bitmap
    BY <1>2, Zenon
  <2> QED
    BY <2>1, <2>2, Zenon DEF RunAt
<1>4. IsFiniteSet(RunAt(x))
  BY RunIsFinite
<1>5. Cardinality(RunAt(x)) >= 1
  BY <1>3, <1>4, FS_EmptySet, FS_CardinalityType
<1> QED
  BY <1>5 DEF Hits

\* A free page is looked at for every super page that is not marked and whose
\* number is not behind its word.
LEMMA FreeIsVisited ==
  ASSUME NEW p \in Reachable, p \notin page_bitmap,
         NEW x \in 0 .. W - 1, x \notin superpage_bitmap, x * W <= p
  PROVE  <<x, p>> \in Visited
<1>1. ~ WordFull(page_bitmap, p \div W)
  BY PageInWord DEF WordFull
<1>2. <<x, p>> \in Places /\ p >= x * W
  BY Sizes DEF Places, Reachable
<1> QED
  BY <1>1, <1>2 DEF Visited

\* The first super page that is looked at sees every place the others see.
LEMMA LowestSuper ==
  ASSUME NEW x \in Visited
  PROVE  \E m \in 0 .. W - 1 : /\ <<m, x[2]>> \in Visited
                               /\ \A y \in Visited : m <= y[1]
<1> DEFINE T == {y[1] : y \in Visited}
<1>1. T \subseteq Nat /\ T # {}
  BY PlaceType, Sizes
<1>2. PICK m \in T : \A n \in T : m <= n
  <2> HIDE DEF T
  <2> QED
    BY <1>1, LeastElement
<1>3. PICK y \in Visited : y[1] = m
  BY <1>2
<1>4. m \in 0 .. W - 1 /\ m \notin superpage_bitmap /\ m \in Nat
  BY <1>3, PlaceType DEF Visited
<1>5. m <= x[1] /\ x[1] \in Nat /\ x[2] \in Int /\ W \in Nat
  BY <1>2, PlaceType, Sizes
<1>6. m * W <= x[2]
  <2>1. \A a, b, c \in Nat : a <= b => a * c <= b * c
    OBVIOUS
  <2>2. m * W <= x[1] * W
    BY <1>4, <1>5, <2>1
  <2>3. x[1] * W <= x[2]
    BY DEF Visited
  <2>4. m * W \in Int /\ x[1] * W \in Int
    BY <1>4, <1>5
  <2> QED
    BY <1>5, <2>2, <2>3, <2>4
<1>7. <<m, x[2]>> \in Visited
  <2>1. x[2] >= m * W
    BY <1>4, <1>5, <1>6
  <2>2. <<m, x[2]>> \in Places
    BY <1>4, PlaceType DEF Places, Reachable
  <2>3. ~ WordFull(page_bitmap, x[2] \div W)
    BY DEF Visited
  <2> QED
    BY <1>4, <2>1, <2>2, <2>3 DEF Visited
<1> QED
  BY <1>2, <1>4, <1>7

-----------------------------------------------------------------------------
(* What a call that fits finds: free pages, and none before them.          *)

LEMMA SingleIsLowest ==
  ASSUME Hits(1) # {}, NEW x \in Visited, x[2] \notin page_bitmap
  PROVE  Found(1) <= x[2]
<1>1. PICK m \in 0 .. W - 1 : /\ <<m, x[2]>> \in Visited
                              /\ \A y \in Visited : m <= y[1]
  BY LowestSuper
<1> DEFINE z == <<m, x[2]>>
<1>2. z \in Hits(1) /\ z \in Visited /\ z[1] = m /\ z[2] = x[2]
  BY <1>1, FreeIsHit
<1> HIDE DEF z
<1>3. Leq(End(1), z) /\ Leq(Start(1), End(1)) /\ End(1) \in Visited /\ Start(1) \in Visited
  BY <1>2, TheRun
<1>4. m <= Start(1)[1] /\ m <= End(1)[1] /\ m \in Int
  BY <1>1, <1>3
<1>5. /\ Start(1)[1] \in Int /\ Start(1)[2] \in Int /\ End(1)[1] \in Int
      /\ End(1)[2] \in Int /\ x[2] \in Int
  BY <1>3, PlaceType
<1>6. Start(1)[2] <= x[2]
  BY <1>2, <1>3, <1>4, <1>5 DEF Leq
<1> QED
  BY <1>6 DEF Found

\* Everything behind the first free page is free: a run that starts behind it
\* would have started with it.
LEMMA PackedIsLowest ==
  ASSUME NEW num \in Nat \ {0}, Hits(num) # {}, Packed, W * W <= KernelPage,
         NEW x \in Visited, x[2] \notin page_bitmap
  PROVE  Found(num) <= x[2]
<1> DEFINE q == x[2]
           s == Start(num)
           e == End(num)
<1> SUFFICES ASSUME s[2] > q PROVE FALSE
  <2>1. s[2] \in Int /\ q \in Int
    BY TheRun, PlaceType
  <2> QED
    BY <2>1 DEF Found
<1>1. q \in Reachable /\ q \in Int /\ W \in Nat /\ W * W \in Nat /\ KernelPage \in Int
  BY PlaceType, Sizes, VaddmAssumption DEF Pages
<1>2. \A p \in Reachable : q <= p => p \notin page_bitmap
  <2>1. PICK end \in 0 .. KernelPage :
          /\ (end .. KernelPage - 1) \cap page_bitmap = {}
          /\ \A y \in Visited : y[2] < end => y[2] \in page_bitmap
    BY DEF Packed
  <2>2. end <= q
    BY <1>1, <2>1
  <2> QED
    BY <1>1, <2>1, <2>2 DEF Reachable
\* The last super page for which page q is looked at before the run starts.
<1> DEFINE supers == {t \in 0 .. W - 1 : <<t, q>> \in Visited /\ t <= s[1]}
<1>3. s \in Visited /\ e \in Visited /\ Leq(s, e) /\ \A y \in RunAt(e) : Leq(s, y)
  BY TheRun
<1>4. s[1] \in Int /\ s[2] \in Int /\ e[1] \in Int /\ e[2] \in Int
  BY <1>3, PlaceType
<1>5. supers # {}
  <2>1. PICK m \in 0 .. W - 1 : <<m, q>> \in Visited /\ \A y \in Visited : m <= y[1]
    BY LowestSuper
  <2> QED
    BY <1>3, <2>1
<1>6. PICK t \in supers : \A u \in supers : u <= t
  <2> DEFINE rest == {W - u : u \in supers}
  <2>1. rest \subseteq Nat /\ rest # {}
    <3>1. supers \subseteq 0 .. W - 1
      OBVIOUS
    <3>2. \A u \in 0 .. W - 1 : W - u \in Nat
      BY <1>1
    <3> HIDE DEF supers
    <3>3. \A u \in supers : W - u \in Nat
      BY <3>1, <3>2
    <3> QED
      BY <1>5, <3>3, Zenon
  <2>2. PICK r \in rest : \A n \in rest : r <= n
    <3> HIDE DEF rest
    <3> QED
      BY <2>1, LeastElement
  <2>3. PICK t \in supers : r = W - t
    BY <2>2
  <2>4. \A u \in supers : u \in Int /\ W - u \in rest
    BY <1>1
  <2>5. \A u \in supers : W - t <= W - u
    BY <2>2, <2>3, <2>4
  <2>6. \A u \in supers : u <= t
    <3> HIDE DEF supers, rest
    <3> QED
      BY <1>1, <2>3, <2>4, <2>5
  <2> QED
    BY <2>3, <2>6
<1> DEFINE z == <<t, q>>
<1>7. z \in Visited /\ z[1] = t /\ z[2] = q /\ t <= s[1] /\ t \in Int /\ t \in 0 .. W - 1
  BY <1>6
\* All that is looked at from there to the end of the run is free.
<1>8. ASSUME NEW h \in Visited, Leq(z, h), Leq(h, s) PROVE q <= h[2]
  <2>1. h[1] \in Int /\ h[2] \in Int /\ h[1] \in 0 .. W - 1
    BY PlaceType
  <2>2. CASE h[1] = t
    BY <1>1, <1>7, <1>8, <2>1, <2>2 DEF Leq
  <2>3. CASE h[1] # t
    <3>1. t < h[1] /\ h[1] <= s[1]
      BY <1>4, <1>7, <1>8, <2>1, <2>3 DEF Leq
    <3>2. h[1] \notin supers
      BY <1>6, <1>7, <2>1, <3>1
    <3>3. <<h[1], q>> \notin Visited
      BY <2>1, <3>1, <3>2
    <3>4. h[1] \notin superpage_bitmap /\ h[2] >= h[1] * W
      BY DEF Visited
    <3>5. ~ (h[1] * W <= q)
      BY <1>1, <1>2, <2>1, <3>3, <3>4, FreeIsVisited
    <3>6. h[1] * W \in Int
      BY <1>1, <2>1
    <3> QED
      BY <1>1, <2>1, <3>4, <3>5, <3>6
  <2> QED
    BY <2>2, <2>3
<1>9. Leq(z, s) /\ ~ Leq(s, z)
  BY <1>1, <1>4, <1>7 DEF Leq
<1> HIDE DEF z, supers, q
<1>10. Leq(z, e)
  <2>1. z[1] \in Int /\ z[2] \in Int
    BY <1>7, PlaceType
  <2> QED
    BY <1>3, <1>4, <1>9, <2>1 DEF Leq
<1>11. ASSUME NEW h \in Visited, Leq(z, h), Leq(h, e) PROVE h[2] \notin page_bitmap
  <2>1. CASE Leq(h, s)
    <3>1. q <= h[2] /\ h[2] \in Reachable
      BY <1>8, <1>11, <2>1, PlaceType
    <3> QED
      BY <1>2, <3>1
  <2>2. CASE ~ Leq(h, s)
    <3>1. Leq(s, h)
      <4>1. h[1] \in Int /\ h[2] \in Int
        BY PlaceType
      <4> QED
        BY <1>4, <2>2, <4>1 DEF Leq
    <3>2. s \in RunAt(e)
      BY TheRun
    <3> QED
      BY <1>11, <3>1, <3>2 DEF RunAt
  <2> QED
    BY <2>1, <2>2
<1>12. z \in RunAt(e)
  BY <1>7, <1>10, <1>11 DEF RunAt
<1> QED
  BY <1>3, <1>9, <1>12

\* A gap that holds the pages, with no free page before it, is where the run
\* starts.
LEMMA GapIsFound ==
  ASSUME NEW num \in Nat \ {0}, NEW f \in 0 .. W * W - num,
         (f .. f + num - 1) \cap page_bitmap = {},
         NEW x \in Visited, x[2] = f,
         \A y \in Visited : y[2] \notin page_bitmap => f <= y[2]
  PROVE  Found(num) = f
<1>1. W \in Nat /\ W > 1 /\ W * W \in Nat /\ num \in Nat /\ num > 0
      /\ f \in Int /\ f >= 0 /\ f + num <= W * W
  BY Sizes
<1>2. PICK m \in 0 .. W - 1 : <<m, x[2]>> \in Visited /\ \A y \in Visited : m <= y[1]
  BY LowestSuper
<1> DEFINE first == <<m, f>>
           last == <<m, f + num - 1>>
           block == {m} \X (f .. f + num - 1)
<1>3. first \in Visited
  BY <1>2
<1>4. m \notin superpage_bitmap /\ m * W <= f /\ m * W \in Int /\ m \in Int
  BY <1>1, <1>2, <1>3 DEF Visited
<1>5. ASSUME NEW p \in f .. f + num - 1 PROVE <<m, p>> \in Visited
  <2>1. p \in Reachable /\ p \notin page_bitmap /\ m * W <= p
    BY <1>1, <1>4 DEF Reachable
  <2> QED
    BY <1>4, <2>1, FreeIsVisited
\* Between the first page and the last there are only free ones.
<1>6. ASSUME NEW h \in Visited, Leq(first, h), Leq(h, last)
      PROVE  h[1] = m /\ h[2] \in f .. f + num - 1
  <2>1. h[1] \in Int /\ h[2] \in Int
    BY PlaceType
  <2> QED
    BY <1>1, <1>4, <1>6, <2>1 DEF Leq
<1>7. block \subseteq RunAt(last)
  <2> SUFFICES ASSUME NEW p \in f .. f + num - 1 PROVE <<m, p>> \in RunAt(last)
    OBVIOUS
  <2>1. Leq(first, <<m, p>>) /\ Leq(<<m, p>>, last)
    BY <1>1, <1>4 DEF Leq
  <2>2. ASSUME NEW h \in Visited, Leq(<<m, p>>, h), Leq(h, last)
        PROVE  h[2] \notin page_bitmap
    <3>1. h[1] \in Int /\ h[2] \in Int
      BY PlaceType
    <3>2. Leq(first, h)
      BY <1>1, <1>4, <2>2, <3>1 DEF Leq
    <3> QED
      BY <1>6, <2>2, <3>2
  <2> QED
    BY <1>5, <2>1, <2>2 DEF RunAt
<1>8. last \in Visited
  <2>1. f + num - 1 \in f .. f + num - 1
    BY <1>1
  <2> QED
    BY <1>5, <2>1
<1>9. Cardinality(RunAt(last)) >= num
  <2>1. IsFiniteSet({m}) /\ Cardinality({m}) = 1
    BY FS_Singleton
  <2>2. IsFiniteSet(f .. f + num - 1) /\ Cardinality(f .. f + num - 1) = num
    <3> DEFINE g == f + num - 1
    <3>1. g \in Int /\ f \in Int /\ ~ (f > g) /\ g - f + 1 = num
      BY <1>1
    <3> HIDE DEF g
    <3>2. IsFiniteSet(f .. g) /\ Cardinality(f .. g) = g - f + 1
      BY <3>1, FS_Interval
    <3>3. IsFiniteSet(f .. g) /\ Cardinality(f .. g) = num
      BY <3>1, <3>2
    <3> QED
      BY <3>3 DEF g
  <2>3. Cardinality(block) = num
    <3>1. Cardinality(block) = 1 * num
      BY <2>1, <2>2, FS_Product
    <3> QED
      BY <1>1, <3>1
  <2>4. IsFiniteSet(RunAt(last))
    BY RunIsFinite
  <2>5. Cardinality(block) <= Cardinality(RunAt(last))
    BY <1>7, <2>4, FS_Subset
  <2>6. Cardinality(RunAt(last)) \in Nat
    BY <2>4, FS_CardinalityType
  <2> QED
    BY <1>1, <2>3, <2>5, <2>6
<1>10. last \in Hits(num)
  BY <1>8, <1>9 DEF Hits
<1> DEFINE s == Start(num)
           e == End(num)
<1>11. /\ s \in Visited /\ e \in Visited /\ Leq(s, e) /\ Leq(e, last)
       /\ s[2] \notin page_bitmap /\ \A y \in RunAt(e) : Leq(s, y)
  BY <1>10, TheRun
<1> HIDE DEF s, e
<1>12. /\ s[1] \in Int /\ s[2] \in Int /\ e[1] \in Int /\ e[2] \in Int
       /\ m <= s[1] /\ m <= e[1] /\ f <= s[2]
  BY <1>2, <1>11, PlaceType
<1>13. s[1] = m /\ e[1] = m /\ Leq(first, e)
  BY <1>1, <1>4, <1>11, <1>12 DEF Leq
<1>14. ASSUME NEW h \in Visited, Leq(first, h), Leq(h, e) PROVE h[2] \notin page_bitmap
  <2>1. h[1] \in Int /\ h[2] \in Int
    BY PlaceType
  <2>2. Leq(h, last)
    BY <1>1, <1>4, <1>11, <1>12, <1>14, <2>1 DEF Leq
  <2> QED
    BY <1>6, <1>14, <2>2
<1>15. first \in RunAt(e)
  BY <1>3, <1>13, <1>14 DEF RunAt
<1>16. s[2] <= f
  BY <1>4, <1>11, <1>12, <1>13, <1>15 DEF Leq
<1>17. s[2] = f
  BY <1>1, <1>12, <1>16
<1> QED
  BY <1>17 DEF Found, s

LEMMA FittingRange ==
  ASSUME NEW num \in Nat \ {0}, Hits(num) # {}, Fits(num)
  PROVE  /\ (Found(num) .. Found(num) + num - 1) \cap page_bitmap = {}
         /\ \A x \in Visited : x[2] \notin page_bitmap => Found(num) <= x[2]
<1>1. Found(num) \in Reachable /\ Found(num) \notin page_bitmap
  BY FoundIsFree
<1>2. Found(num) \in Int /\ W * W \in Nat /\ Found(num) < W * W /\ num \in Nat
      /\ Found(num) >= 0 /\ num > 0
  BY <1>1, Sizes DEF Reachable
<1>3. CASE num = 1
  <2>1. Found(num) .. Found(num) + num - 1 = {Found(num)}
    BY <1>2, <1>3
  <2> QED
    BY <1>1, <1>3, <2>1, SingleIsLowest
<1>4. CASE Packed /\ W * W + num <= KernelPage
  <2>1. KernelPage \in Int /\ W * W <= KernelPage
    BY <1>2, <1>4, VaddmAssumption DEF Pages
  <2>2. PICK end \in 0 .. KernelPage :
          /\ (end .. KernelPage - 1) \cap page_bitmap = {}
          /\ \A x \in Visited : x[2] < end => x[2] \in page_bitmap
    BY <1>4 DEF Packed
  <2>3. Start(num) \in Visited /\ Start(num)[2] \notin page_bitmap
        /\ Start(num)[2] = Found(num)
    BY TheRun DEF Found
  <2>4. Found(num) >= end
    BY <1>2, <2>1, <2>2, <2>3
  <2> DEFINE b == Found(num)
  <2>5. b \in Int /\ b >= end /\ b < W * W /\ end \in Int
    BY <1>2, <2>1, <2>4
  <2> HIDE DEF b
  <2>6. ASSUME NEW p \in b .. b + num - 1 PROVE p \notin page_bitmap
    <3>1. p \in end .. KernelPage - 1
      BY <1>2, <1>4, <2>1, <2>5
    <3> QED
      BY <2>2, <3>1
  <2> USE DEF b
  <2>7. (Found(num) .. Found(num) + num - 1) \cap page_bitmap = {}
    BY <2>6
  <2> QED
    BY <1>4, <2>1, <2>7, PackedIsLowest
<1>5. CASE FirstGapHolds(num)
  <2>1. PICK f \in 0 .. W * W - num :
          /\ (f .. f + num - 1) \cap page_bitmap = {}
          /\ \E x \in Visited : x[2] = f
          /\ \A x \in Visited : x[2] \notin page_bitmap => f <= x[2]
    BY <1>5 DEF FirstGapHolds
  <2>2. Found(num) = f
    BY <2>1, GapIsFound
  <2> QED
    BY <2>1, <2>2
<1> QED
  BY <1>3, <1>4, <1>5 DEF Fits

-----------------------------------------------------------------------------
(* The inductive invariant.                                                *)

HeldOK == \A r \in held : r.base \in Reachable /\ r.num \in Nat \ {0}

AddressInv == HeldOK /\ AddressesHeldOnce

\* A free page that could be reached at the start can still be.
SearchInv ==
    \A q \in Reachable \ page_bitmap :
        (\E x \in (0 .. W - 1) \ unwritten : x * W <= q)
            => \E x \in (0 .. W - 1) \ superpage_bitmap : x * W <= q

\* A super page is marked when the words that are looked at are full; a free
\* page that it reaches lies behind the range, and in one of these words.
LEMMA SetBitsKeeps ==
  ASSUME NEW num \in Nat \ {0}, Hits(num) # {}, Fits(num), SearchInv,
         SetBits(Found(num), num), UNCHANGED unwritten
  PROVE  SearchInv'
<1> DEFINE b == Found(num)
           range == b .. b + num - 1
           marked == {SuperPage(page) :
                        page \in {p \in range :
                                    SuperRegionFull(page_bitmap \cup (b .. p), p)}}
<1>1. b \in Reachable /\ W \in Nat /\ W * W \in Nat /\ b \in Int /\ b >= 0 /\ num \in Nat
  BY FoundIsFree, Sizes DEF Reachable
<1>2. /\ \A x \in Visited : x[2] \notin page_bitmap => b <= x[2]
  BY FittingRange
<1>3. page_bitmap' = page_bitmap \cup range /\ superpage_bitmap' = superpage_bitmap \cup marked
  BY DEF SetBits
<1> SUFFICES ASSUME NEW q \in Reachable, q \notin page_bitmap',
                    NEW y \in 0 .. W - 1, y \notin unwritten, y * W <= q
             PROVE  \E x \in (0 .. W - 1) \ superpage_bitmap' : x * W <= q
  BY DEF SearchInv, Reachable
<1> HIDE DEF b, marked
<1>4. q \notin page_bitmap /\ q \notin range
  BY <1>3
<1>5. PICK x \in (0 .. W - 1) \ superpage_bitmap : x * W <= q
  BY <1>4 DEF SearchInv
<1>6. q \in Int /\ q >= 0 /\ q < W * W
  BY <1>1 DEF Reachable
<1>7. q >= b + num
  <2>1. <<x, q>> \in Visited
    BY <1>4, <1>5, FreeIsVisited
  <2>2. b <= q
    BY <1>2, <1>4, <2>1
  <2> QED
    BY <1>1, <1>4, <1>6, <2>2
<1>8. x \notin marked
  <2> SUFFICES ASSUME NEW p \in range, SuperRegionFull(page_bitmap \cup (b .. p), p)
               PROVE  FALSE
    BY DEF marked
  <2> DEFINE bits == page_bitmap \cup (b .. p)
  <2>1. p \in Int /\ b <= p /\ p < q /\ p \in Reachable
    BY <1>1, <1>6, <1>7 DEF Reachable
  <2>2. q \notin bits
    BY <1>4, <1>6, <2>1
  <2> HIDE DEF bits
  <2> DEFINE v == p \div W
             w == q \div W
  <2>3. v \in 0 .. W - 1 /\ w \in 0 .. W - 1 /\ q \in PagesOfWord(w)
    BY <2>1, PageInWord
  <2>4. v <= w
    <3>1. W > 0 /\ W \in Nat /\ p \in Int /\ q \in Int /\ p >= 0
      BY Sizes, <1>1, <1>6, <2>1
    <3>2. W * v <= p /\ q < W * w + W /\ v \in Int /\ w \in Int
      BY <1>6, <3>1
    <3> HIDE DEF v, w
    <3>3. \A a, d \in Nat : a + 1 <= d => W * a + W <= W * d
      BY <3>1
    <3> SUFFICES ASSUME w < v PROVE FALSE
      BY <3>2
    <3>4. W * w + W <= W * v
      BY <2>3, <3>1, <3>2, <3>3
    <3>5. W * w \in Int /\ W * v \in Int
      BY <3>1, <3>2
    <3> QED
      BY <2>1, <3>1, <3>2, <3>4, <3>5
  <2>5. w - v \in 0 .. W - 1 /\ v + (w - v) = w
    BY <1>1, <2>3, <2>4
  <2>6. WordFull(bits, v + (w - v))
    <3>1. \A off \in 0 .. W - 1 : WordFull(bits, p \div W + off)
      BY DEF SuperRegionFull, bits
    <3> HIDE DEF w
    <3> QED
      BY <2>5, <3>1
  <2> HIDE DEF v, w
  <2>7. PagesOfWord(w) \subseteq bits
    BY <2>5, <2>6 DEF WordFull
  <2> QED
    BY <2>2, <2>3, <2>7
<1>9. x \in (0 .. W - 1) \ superpage_bitmap'
  BY <1>3, <1>5, <1>8
<1> QED
  BY <1>5, <1>9

\* A page that is freed in words 0 to W - 1 takes the mark of super page 0 away.
LEMMA ClearBitsKeeps ==
  ASSUME NEW base, NEW num, SearchInv, ClearBits(base, num), UNCHANGED unwritten
  PROVE  SearchInv'
<1> DEFINE range == base .. base + num - 1
           cleared == {SuperPage(page) : page \in range}
<1>1. page_bitmap' = page_bitmap \ range /\ superpage_bitmap' = superpage_bitmap \ cleared
  BY DEF ClearBits
<1> SUFFICES ASSUME NEW q \in Reachable, q \notin page_bitmap',
                    NEW y \in 0 .. W - 1, y \notin unwritten, y * W <= q
             PROVE  \E x \in (0 .. W - 1) \ superpage_bitmap' : x * W <= q
  BY DEF SearchInv, Reachable
<1>2. CASE q \in range
  <2>1. SuperPage(q) = 0 /\ W \in Nat /\ W > 1 /\ q >= 0 /\ q \in Int
    BY PageInWord, Sizes DEF Reachable
  <2>2. 0 \in cleared
    BY <1>2, <2>1
  <2>3. 0 \in (0 .. W - 1) \ superpage_bitmap' /\ 0 * W <= q
    BY <1>1, <2>1, <2>2
  <2> QED
    BY <2>3
<1>3. CASE q \notin range
  <2>1. PICK x \in (0 .. W - 1) \ superpage_bitmap : x * W <= q
    BY <1>1, <1>3 DEF SearchInv
  <2>2. x \in (0 .. W - 1) \ superpage_bitmap'
    BY <1>1, <2>1
  <2> QED
    BY <2>1, <2>2
<1> QED
  BY <1>2, <1>3

-----------------------------------------------------------------------------
(* The steps.                                                              *)

LEMMA AllocatesOnce ==
  ASSUME AddressInv, NEW num \in Nat \ {0}, Fits(num), vmalloc(num)
  PROVE  AddressInv'
<1>1. CASE Hits(num) = {} /\ failed' = num /\ UNCHANGED <<addressVars, held>>
  BY <1>1 DEF addressVars, AddressInv, HeldOK, AddressesHeldOnce, PagesOf
<1>2. CASE Hits(num) # {} /\ SetBits(Found(num), num)
           /\ held' = held \cup {[base |-> Found(num), num |-> num]}
  <2> DEFINE b == Found(num)
             new == [base |-> b, num |-> num]
  <2>1. b \in Reachable /\ (b .. b + num - 1) \cap page_bitmap = {}
    BY <1>2, FoundIsFree, FittingRange
  <2>2. page_bitmap' = page_bitmap \cup (b .. b + num - 1) /\ held' = held \cup {new}
    BY <1>2 DEF SetBits
  <2>3. PagesOf(new) = b .. b + num - 1 /\ new.base = b /\ new.num = num
    BY DEF PagesOf
  <2> HIDE DEF b, new
  <2>4. \A r \in held : PagesOf(r) \subseteq page_bitmap
    BY DEF AddressInv, AddressesHeldOnce
  <2>5. HeldOK'
    BY <2>1, <2>2, <2>3 DEF AddressInv, HeldOK, Reachable
  <2>6. \A r \in held' : PagesOf(r) \subseteq page_bitmap'
    BY <2>2, <2>3, <2>4
  <2>7. \A r \in held : PagesOf(r) \cap PagesOf(new) = {}
    BY <2>1, <2>3, <2>4
  <2>8. \A r, q \in held' : r # q => PagesOf(r) \cap PagesOf(q) = {}
    BY <2>2, <2>7 DEF AddressInv, AddressesHeldOnce
  <2>9. AddressesHeldOnce'
    BY <2>6, <2>8 DEF AddressesHeldOnce, PagesOf
  <2> QED
    BY <2>5, <2>9 DEF AddressInv
<1> QED
  BY <1>1, <1>2 DEF vmalloc

\* Nobody else has the pages that are freed.
LEMMA FreesOnce ==
  ASSUME AddressInv, NEW r \in held, vfree(r)
  PROVE  AddressInv'
<1>1. page_bitmap' = page_bitmap \ PagesOf(r) /\ held' = held \ {r}
  BY DEF vfree, ClearBits, PagesOf
<1>2. ASSUME NEW q \in held' PROVE PagesOf(q) \subseteq page_bitmap'
  BY <1>1 DEF AddressInv, AddressesHeldOnce
<1>3. HeldOK'
  BY <1>1 DEF AddressInv, HeldOK, Reachable
<1>4. AddressesHeldOnce'
  BY <1>1, <1>2 DEF AddressInv, AddressesHeldOnce, PagesOf
<1> QED
  BY <1>3, <1>4 DEF AddressInv

LEMMA AddressInvKept ==
  ASSUME AddressInv, [FittingNext]_vars PROVE AddressInv'
<1>1. CASE \E num \in Requests : Cardinality(held) < MaxRanges /\ Fits(num) /\ vmalloc(num)
  BY <1>1, AllocatesOnce, VaddmAssumption
<1>2. CASE \E range \in held : vfree(range)
  BY <1>2, FreesOnce
<1>3. CASE UNCHANGED vars
  BY <1>3 DEF vars, addressVars, AddressInv, HeldOK, AddressesHeldOnce, PagesOf
<1> QED
  BY <1>1, <1>2, <1>3 DEF FittingNext

\* A page is refused when nothing that is looked at is free.
LEMMA RefusedIsFull ==
  ASSUME SearchInv, Hits(1) = {}, NEW p \in 0 .. W * W - 1,
         NEW x \in (0 .. W - 1) \ unwritten, x * W <= p
  PROVE  p \in page_bitmap
<1> SUFFICES ASSUME p \notin page_bitmap PROVE FALSE
  OBVIOUS
<1>1. p \in Reachable \ page_bitmap
  BY DEF Reachable
<1>2. PICK y \in (0 .. W - 1) \ superpage_bitmap : y * W <= p
  BY <1>1 DEF SearchInv
<1>3. <<y, p>> \in Visited
  BY <1>1, <1>2, FreeIsVisited
<1> QED
  BY <1>1, <1>3, FreeIsHit

FindInv == SearchInv /\ FreePageFound

LEMMA FindInvKept ==
  ASSUME FindInv, [FittingNext]_vars PROVE FindInv'
<1>1. CASE \E num \in Requests : Cardinality(held) < MaxRanges /\ Fits(num) /\ vmalloc(num)
  <2>1. PICK num \in Requests : Fits(num) /\ vmalloc(num)
    BY <1>1
  <2>2. num \in Nat \ {0} /\ UNCHANGED unwritten
    BY <2>1, VaddmAssumption DEF vmalloc
  <2>3. CASE Hits(num) # {} /\ SetBits(Found(num), num) /\ failed' = 0
    <3>1. SearchInv'
      BY <2>1, <2>2, <2>3, SetBitsKeeps DEF FindInv
    <3>2. FreePageFound'
      BY <2>3 DEF FreePageFound
    <3> QED
      BY <3>1, <3>2 DEF FindInv
  <2>4. CASE Hits(num) = {} /\ failed' = num /\ UNCHANGED addressVars
    <3>1. SearchInv'
      BY <2>2, <2>4 DEF FindInv, SearchInv, addressVars, Reachable
    <3>2. num = 1 => \A p \in 0 .. W * W - 1 :
                       (\E x \in (0 .. W - 1) \ unwritten : x * W <= p)
                           => p \in page_bitmap
      BY <2>4, RefusedIsFull DEF FindInv
    <3>3. FreePageFound'
      BY <2>2, <2>4, <3>2 DEF FreePageFound, addressVars
    <3> QED
      BY <3>1, <3>3 DEF FindInv
  <2> QED
    BY <2>1, <2>3, <2>4 DEF vmalloc
<1>2. CASE \E range \in held : vfree(range)
  <2>1. PICK r \in held : vfree(r)
    BY <1>2
  <2>2. ClearBits(r.base, r.num) /\ failed' = 0 /\ UNCHANGED unwritten
    BY <2>1 DEF vfree
  <2>3. SearchInv'
    BY <2>2, ClearBitsKeeps DEF FindInv
  <2>4. FreePageFound'
    BY <2>2 DEF FreePageFound
  <2> QED
    BY <2>3, <2>4 DEF FindInv
<1>3. CASE UNCHANGED vars
  BY <1>3 DEF vars, addressVars, FindInv, SearchInv, FreePageFound, Reachable
<1> QED
  BY <1>1, <1>2, <1>3 DEF FittingNext

-----------------------------------------------------------------------------
(* The theorems.                                                           *)

\* An address that vmalloc gave out (vmm.c:240) is not given out again before
\* vfree, whatever superpage_bitmap held before it was written, as long as the
\* ranges that are asked for fit: one page, or behind all that are taken, or in
\* the first gap (Fits), as those of kinit (kernel.c:203-217) do.
THEOREM AddressesAreHeldOnce == FittingSpec => []AddressesHeldOnce
<1>1. Init => AddressInv
  BY DEF Init, AddressInv, HeldOK, AddressesHeldOnce
<1>2. AddressInv /\ [FittingNext]_vars => AddressInv'
  BY AddressInvKept
<1>3. AddressInv => AddressesHeldOnce
  BY DEF AddressInv
<1> QED
  BY <1>1, <1>2, <1>3, PTL DEF FittingSpec

\* With the same calls, and whatever superpage_bitmap held (vaddm_init does not
\* clear it, vmm.c:289): vmalloc of a page finds nothing (kernel.c:213) only when
\* all pages that a super page not marked at the start reaches are taken.
THEOREM FreePagesAreFound == FittingSpec => []FreePageFound
<1>1. Init => FindInv
  BY DEF Init, FindInv, SearchInv, FreePageFound
<1>2. FindInv /\ [FittingNext]_vars => FindInv'
  BY FindInvKept
<1>3. FindInv => FreePageFound
  BY DEF FindInv
<1> QED
  BY <1>1, <1>2, <1>3, PTL DEF FittingSpec
=============================================================================
