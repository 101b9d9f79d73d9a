----------------------------- MODULE HeapProofs -----------------------------
(***************************************************************************)
(* The invariants of Heap, proved for any number of pages and headers, any *)
(* heap limit and any sizes of the requests, under the hooks that liballoc *)
(* documents: what the lists of majors and minors are and what they count, *)
(* what each walk of kmalloc has seen, and that liballoc.c implements the  *)
(* allocator of disjoint blocks.                                           *)
(***************************************************************************)
EXTENDS Heap, FiniteSetTheorems, WellFoundedInduction, TLAPS

-----------------------------------------------------------------------------
(* Sums over finite sets.                                                  *)

\* A collection of subsets of a finite set has a smallest one.
LEMMA SmallestSet ==
  ASSUME NEW S, IsFiniteSet(S), NEW C, \A U \in C : U \subseteq S, C # {}
  PROVE  \E T \in C : \A U \in C : U \subseteq T => U = T
<1>1. IsWellFoundedOn(StrictSubsetOrdering(S), FiniteSubsetsOf(S))
  BY FS_StrictSubsetOrderingWellFounded
<1>2. C \subseteq FiniteSubsetsOf(S)
  BY FS_Subset DEF FiniteSubsetsOf
<1>3. PICK T \in C : \A U \in C : ~ (<<U, T>> \in StrictSubsetOrdering(S))
  BY <1>1, <1>2, WFMin
<1>4. \A U \in C : U \subseteq T => U = T
  BY <1>3 DEF StrictSubsetOrdering
<1> QED
  BY <1>4

LEMMA LeastNumber ==
  ASSUME NEW T, T \subseteq Nat, T # {}
  PROVE  \E m \in T : \A n \in T : m <= n
<1> DEFINE R == {pair \in Nat \X Nat : pair[1] < pair[2]}
<1>1. IsWellFoundedOn(R, Nat)
  BY NatLessThanWellFounded, Zenon DEF OpToRel
<1>2. \A m, n \in Nat : n < m => <<n, m>> \in R
  OBVIOUS
<1> HIDE DEF R
<1>3. PICK m \in T : \A n \in T : ~ (<<n, m>> \in R)
  BY <1>1, WFMin
<1>4. \A n \in T : m \in Nat /\ n \in Nat /\ ~ (n < m)
  BY <1>2, <1>3
<1> QED
  BY <1>4

Chosen(s) == CHOOSE x \in s : TRUE

\* One turn of the recursion of SumOver.
Turn(g, f, s) == IF s = {} THEN 0 ELSE f[Chosen(s)] + g[s \ {Chosen(s)}]

IsSum(g, f, S) == g = [s \in SUBSET S |-> Turn(g, f, s)]

LEMMA SumDef ==
  ASSUME NEW f, NEW S
  PROVE  SumOver(f, S) = (CHOOSE g : IsSum(g, f, S))[S]
BY DEF SumOver, MapThenSumSet, MapThenFoldSet, IsSum, Turn, Chosen

LEMMA ChosenIn ==
  ASSUME NEW s, s # {}
  PROVE  Chosen(s) \in s
BY DEF Chosen

\* The recursion has a solution.
LEMMA SumExists ==
  ASSUME NEW S, IsFiniteSet(S), NEW f, \A x \in S : f[x] \in Int
  PROVE  \E g \in [SUBSET S -> Int] : IsSum(g, f, S)
<1> DEFINE Upto(g, n) == \A s \in SUBSET S : Cardinality(s) <= n => g[s] = Turn(g, f, s)
           Bad == {n \in Nat : ~ \E g \in [SUBSET S -> Int] : Upto(g, n)}
<1>1. \A s \in SUBSET S : IsFiniteSet(s) /\ Cardinality(s) \in Nat
  BY FS_Subset, FS_CardinalityType
<1>2. 0 \notin Bad
  <2>1. [s \in SUBSET S |-> 0] \in [SUBSET S -> Int]
    OBVIOUS
  <2>2. Upto([s \in SUBSET S |-> 0], 0)
    <3> SUFFICES ASSUME NEW s \in SUBSET S, Cardinality(s) <= 0
                 PROVE  0 = Turn([t \in SUBSET S |-> 0], f, s)
      BY Zenon
    <3>1. s = {}
      BY <1>1, FS_EmptySet
    <3> QED
      BY <3>1 DEF Turn
  <2> QED
    BY <2>1, <2>2, Zenon
<1>3. ASSUME NEW n \in Nat, n \notin Bad
      PROVE  n + 1 \notin Bad
  <2>1. PICK g \in [SUBSET S -> Int] : Upto(g, n)
    BY <1>3
  <2> DEFINE h == [s \in SUBSET S |-> Turn(g, f, s)]
  <2>2. h \in [SUBSET S -> Int]
    <3> SUFFICES ASSUME NEW s \in SUBSET S, s # {}
                 PROVE  f[Chosen(s)] + g[s \ {Chosen(s)}] \in Int
      BY DEF Turn
    <3>1. Chosen(s) \in S /\ s \ {Chosen(s)} \in SUBSET S
      BY ChosenIn
    <3> QED
      BY <3>1
  <2>3. ASSUME NEW s \in SUBSET S, Cardinality(s) <= n
        PROVE  h[s] = g[s]
    BY <2>1, <2>3
  <2>4. ASSUME NEW s \in SUBSET S, Cardinality(s) <= n + 1, s # {}
        PROVE  h[s \ {Chosen(s)}] = g[s \ {Chosen(s)}]
    <3>1. Chosen(s) \in s /\ s \ {Chosen(s)} \in SUBSET S
      BY <2>4, ChosenIn
    <3>2. Cardinality(s \ {Chosen(s)}) = Cardinality(s) - 1
      BY <1>1, <3>1, FS_RemoveElement
    <3> HIDE DEF h
    <3>3. Cardinality(s \ {Chosen(s)}) <= n
      BY <1>1, <2>4, <3>2
    <3> QED
      BY <2>3, <3>1, <3>3
  <2>5. Upto(h, n + 1)
    <3> SUFFICES ASSUME NEW s \in SUBSET S, Cardinality(s) <= n + 1
                 PROVE  h[s] = Turn(h, f, s)
      OBVIOUS
    <3> HIDE DEF h
    <3>1. h[s] = Turn(g, f, s)
      BY DEF h
    <3> QED
      BY <2>4, <3>1 DEF Turn
  <2> HIDE DEF h, Upto
  <2> QED
    BY <2>2, <2>5
<1>4. Cardinality(S) \notin Bad
  <2> SUFFICES ASSUME Bad # {} PROVE FALSE
    BY <1>1
  <2> HIDE DEF Upto
  <2>0. Bad \subseteq Nat
    OBVIOUS
  <2> HIDE DEF Bad
  <2>1. PICK m \in Bad : \A n \in Bad : m <= n
    BY <2>0, LeastNumber
  <2>2. m \in Nat /\ m - 1 \notin Bad /\ m # 0
    BY <1>2, <2>0, <2>1
  <2>3. m - 1 \in Nat /\ (m - 1) + 1 = m
    BY <2>2
  <2> QED
    BY <1>3, <2>1, <2>2, <2>3
<1>5. PICK g \in [SUBSET S -> Int] : Upto(g, Cardinality(S))
  BY <1>1, <1>4
<1>6. \A s \in SUBSET S : Cardinality(s) <= Cardinality(S)
  BY FS_Subset
<1>7. \A s \in SUBSET S : g[s] = Turn(g, f, s)
  BY <1>5, <1>6
<1>8. g = [s \in SUBSET S |-> g[s]]
  OBVIOUS
<1> QED
  BY <1>7, <1>8 DEF IsSum

\* The solution does not depend on anything but the values of f.
LEMMA SumUnique ==
  ASSUME NEW S, IsFiniteSet(S), NEW T \in SUBSET S, NEW f, NEW e,
         \A x \in T : e[x] = f[x],
         NEW g, IsSum(g, f, S), NEW h, IsSum(h, e, T)
  PROVE  h[T] = g[T]
<1> DEFINE Bad == {s \in SUBSET T : h[s] # g[s]}
<1>1. IsFiniteSet(T)
  BY FS_Subset
<1> SUFFICES ASSUME Bad # {} PROVE FALSE
  OBVIOUS
<1>2. PICK s \in Bad : \A U \in Bad : U \subseteq s => U = s
  <2>1. \A U \in Bad : U \subseteq T
    OBVIOUS
  <2> HIDE DEF Bad
  <2> QED
    BY <1>1, <2>1, SmallestSet
<1>3. h[s] = Turn(h, e, s) /\ g[s] = Turn(g, f, s)
  <2>1. s \in SUBSET T /\ s \in SUBSET S
    OBVIOUS
  <2> QED
    BY <2>1 DEF IsSum
<1>4. s # {}
  BY <1>2, <1>3 DEF Turn
<1>5. Chosen(s) \in s /\ s \ {Chosen(s)} \in SUBSET T
  BY <1>4, ChosenIn
<1>6. h[s \ {Chosen(s)}] = g[s \ {Chosen(s)}]
  BY <1>2, <1>5
<1>7. e[Chosen(s)] = f[Chosen(s)]
  BY <1>5
<1>8. h[s] = g[s]
  BY <1>3, <1>4, <1>6, <1>7 DEF Turn
<1> QED
  BY <1>2, <1>8

\* g tells the sums of f on the subsets of S.
Sums(g, f, S) ==
    /\ g \in [SUBSET S -> Int]
    /\ IsSum(g, f, S)
    /\ \A T \in SUBSET S : SumOver(f, T) = g[T]

LEMMA SumIs ==
  ASSUME NEW S, IsFiniteSet(S), NEW f, \A x \in S : f[x] \in Int
  PROVE  \E g : Sums(g, f, S)
<1>1. PICK g \in [SUBSET S -> Int] : IsSum(g, f, S)
  BY SumExists
<1>2. ASSUME NEW T \in SUBSET S
      PROVE  SumOver(f, T) = g[T]
  <2>1. IsFiniteSet(T) /\ \A x \in T : f[x] \in Int
    BY FS_Subset
  <2>2. \E h : IsSum(h, f, T)
    BY <2>1, SumExists
  <2>3. IsSum(CHOOSE h : IsSum(h, f, T), f, T)
    BY <2>2, Zenon
  <2> QED
    BY <1>1, <2>3, SumDef, SumUnique
<1> QED
  BY <1>1, <1>2 DEF Sums

LEMMA SumType ==
  ASSUME NEW S, IsFiniteSet(S), NEW f, \A x \in S : f[x] \in Int
  PROVE  SumOver(f, S) \in Int
<1>1. PICK g : Sums(g, f, S)
  BY SumIs
<1>2. S \in SUBSET S
  OBVIOUS
<1> QED
  BY <1>1, <1>2 DEF Sums

LEMMA SumEmpty ==
  ASSUME NEW f
  PROVE  SumOver(f, {}) = 0
<1>1. PICK g : Sums(g, f, {})
  BY SumIs, FS_EmptySet
<1>2. g[{}] = Turn(g, f, {})
  BY <1>1 DEF Sums, IsSum
<1> QED
  BY <1>1, <1>2 DEF Sums, Turn

LEMMA SumAgree ==
  ASSUME NEW S, IsFiniteSet(S), NEW f, NEW e, \A x \in S : f[x] \in Int,
         \A x \in S : e[x] = f[x]
  PROVE  SumOver(e, S) = SumOver(f, S)
<1>1. PICK g : Sums(g, f, S)
  BY SumIs
<1>2. \A x \in S : e[x] \in Int
  OBVIOUS
<1>3. PICK h : Sums(h, e, S)
  BY <1>2, SumIs
<1> QED
  BY <1>1, <1>3, SumUnique DEF Sums

\* The elements may be taken in any order.
LEMMA SumStep ==
  ASSUME NEW S, IsFiniteSet(S), NEW f, \A x \in S : f[x] \in Int, NEW x \in S
  PROVE  SumOver(f, S) = f[x] + SumOver(f, S \ {x})
<1>1. PICK g : Sums(g, f, S)
  BY SumIs
<1> DEFINE Bad == {T \in SUBSET S : ~ \A y \in T : g[T] = f[y] + g[T \ {y}]}
<1>2. Bad = {}
  <2> SUFFICES ASSUME Bad # {} PROVE FALSE
    OBVIOUS
  <2>1. PICK T \in Bad : \A U \in Bad : U \subseteq T => U = T
    <3>1. \A U \in Bad : U \subseteq S
      OBVIOUS
    <3> HIDE DEF Bad
    <3> QED
      BY <3>1, SmallestSet
  <2>2. PICK y \in T : g[T] # f[y] + g[T \ {y}]
    OBVIOUS
  <2> DEFINE z == Chosen(T)
  <2>3. z \in T
    BY ChosenIn
  <2>4. g[T] = f[z] + g[T \ {z}]
    BY <1>1, <2>2 DEF Sums, IsSum, Turn
  <2> HIDE DEF z
  <2>5. y # z
    BY <2>2, <2>4
  <2>6. T \ {z} \notin Bad /\ T \ {y} \notin Bad
    BY <2>1, <2>3
  <2>7. g[T \ {z}] = f[y] + g[(T \ {z}) \ {y}]
    BY <2>5, <2>6
  <2>8. g[T \ {y}] = f[z] + g[(T \ {y}) \ {z}]
    BY <2>3, <2>5, <2>6
  <2>9. (T \ {z}) \ {y} = (T \ {y}) \ {z}
    OBVIOUS
  <2>10. f[y] \in Int /\ f[z] \in Int /\ g[(T \ {z}) \ {y}] \in Int
    BY <1>1, <2>3 DEF Sums
  <2>11. g[T \ {y}] = f[z] + g[(T \ {z}) \ {y}]
    BY <2>8, <2>9, Zenon
  <2>12. f[z] + (f[y] + g[(T \ {z}) \ {y}]) = f[y] + (f[z] + g[(T \ {z}) \ {y}])
    BY <2>10
  <2>13. g[T] = f[y] + g[T \ {y}]
    BY <2>4, <2>7, <2>11, <2>12, Zenon
  <2> QED
    BY <2>2, <2>13, Zenon
<1>3. g[S] = f[x] + g[S \ {x}]
  BY <1>2
<1> QED
  BY <1>1, <1>3 DEF Sums

LEMMA SumAdd ==
  ASSUME NEW S, IsFiniteSet(S), NEW f, NEW x, x \notin S,
         \A y \in S \cup {x} : f[y] \in Int
  PROVE  SumOver(f, S \cup {x}) = f[x] + SumOver(f, S)
<1>1. IsFiniteSet(S \cup {x}) /\ (S \cup {x}) \ {x} = S
  BY FS_AddElement
<1> QED
  BY <1>1, SumStep, x \in S \cup {x}

\* A sum of numbers is a number.
LEMMA SumNat ==
  ASSUME NEW S, IsFiniteSet(S), NEW f, \A x \in S : f[x] \in Nat
  PROVE  SumOver(f, S) \in Nat
<1> DEFINE Bad == {T \in SUBSET S : SumOver(f, T) \notin Nat}
<1> SUFFICES ASSUME Bad # {} PROVE FALSE
  OBVIOUS
<1>1. PICK T \in Bad : \A U \in Bad : U \subseteq T => U = T
  <2>1. \A U \in Bad : U \subseteq S
    OBVIOUS
  <2> HIDE DEF Bad
  <2> QED
    BY <2>1, SmallestSet
<1>2. PICK x \in T : TRUE
  BY SumEmpty
<1>3. SumOver(f, T \ {x}) \in Nat
  BY <1>1, <1>2
<1>4. IsFiniteSet(T) /\ \A y \in T : f[y] \in Int /\ f[y] \in Nat
  BY FS_Subset
<1>5. SumOver(f, T) = f[x] + SumOver(f, T \ {x})
  BY <1>2, <1>4, SumStep
<1> QED
  BY <1>1, <1>2, <1>3, <1>4, <1>5

LEMMA Greatest ==
  ASSUME NEW S, IsFiniteSet(S), S \subseteq Nat, S # {}
  PROVE  \E a \in S : \A c \in S : c <= a
<1> DEFINE Bad == {T \in SUBSET S : T # {} /\ ~ \E a \in T : \A c \in T : c <= a}
<1> SUFFICES ASSUME Bad # {} PROVE FALSE
  OBVIOUS
<1>1. PICK T \in Bad : \A U \in Bad : U \subseteq T => U = T
  <2>1. \A U \in Bad : U \subseteq S
    OBVIOUS
  <2> HIDE DEF Bad
  <2> QED
    BY <2>1, SmallestSet
<1>2. PICK x \in T : TRUE
  OBVIOUS
<1>3. T \ {x} # {}
  BY <1>2
<1>4. T \ {x} \notin Bad
  BY <1>1, <1>2
<1>5. PICK a \in T \ {x} : \A c \in T \ {x} : c <= a
  BY <1>3, <1>4
<1>6. \A c \in T : c <= a \/ c = x
  BY <1>5
<1> QED
  BY <1>2, <1>5, <1>6

\* Intervals that lie between lo and hi, each apart from the others, are not
\* longer than what lies between lo and hi.
LEMMA SumFits ==
  ASSUME NEW S, IsFiniteSet(S), S \subseteq Nat, NEW f, \A x \in S : f[x] \in Nat,
         NEW lo \in Nat, NEW hi \in Nat, lo <= hi,
         \A c \in S : lo <= c /\ c + f[c] <= hi,
         \A c, d \in S : c < d => c + f[c] <= d
  PROVE  SumOver(f, S) <= hi - lo
<1> DEFINE Bad == {T \in SUBSET S : T # {} /\ ~ \E a \in T : SumOver(f, T) <= a + f[a] - lo}
<1>1. Bad = {}
  <2> SUFFICES ASSUME Bad # {} PROVE FALSE
    OBVIOUS
  <2>1. PICK T \in Bad : \A U \in Bad : U \subseteq T => U = T
    <3>1. \A U \in Bad : U \subseteq S
      OBVIOUS
    <3> HIDE DEF Bad
    <3> QED
      BY <3>1, SmallestSet
  <2>2. IsFiniteSet(T) /\ T \subseteq Nat /\ T # {}
    BY FS_Subset
  <2>3. PICK a \in T : \A c \in T : c <= a
    BY <2>2, Greatest
  <2>4. SumOver(f, T) = f[a] + SumOver(f, T \ {a})
    <3>1. \A x \in T : f[x] \in Int
      OBVIOUS
    <3> QED
      BY <2>2, <2>3, <3>1, SumStep, Zenon
  <2>5. a \in Nat /\ f[a] \in Nat /\ lo <= a
    OBVIOUS
  <2>6. CASE T \ {a} = {}
    <3>1. SumOver(f, T \ {a}) = 0
      BY <2>6, SumEmpty
    <3>2. SumOver(f, T) <= a + f[a] - lo
      BY <2>4, <2>5, <3>1
    <3> QED
      BY <3>2
  <2>7. CASE T \ {a} # {}
    <3>1. PICK b \in T \ {a} : SumOver(f, T \ {a}) <= b + f[b] - lo
      <4>1. T \ {a} \notin Bad
        BY <2>1
      <4> QED
        BY <2>7, <4>1
    <3>2. b < a /\ b + f[b] <= a /\ b \in Nat /\ f[b] \in Nat
      BY <2>2, <2>3
    <3>3. SumOver(f, T \ {a}) \in Nat
      BY <2>2, SumNat, FS_Subset
    <3>4. SumOver(f, T) <= a + f[a] - lo
      BY <2>4, <2>5, <3>1, <3>2, <3>3
    <3> QED
      BY <3>4
  <2> QED
    BY <2>6, <2>7
<1>2. CASE S = {}
  BY <1>2, SumEmpty
<1>3. CASE S # {}
  <2>1. PICK a \in S : SumOver(f, S) <= a + f[a] - lo
    BY <1>1, <1>3
  <2>2. SumOver(f, S) \in Nat
    BY SumNat
  <2> QED
    BY <2>1, <2>2
<1> QED
  BY <1>2, <1>3

-----------------------------------------------------------------------------
(* Arithmetic.                                                             *)

LEMMA Numbers ==
  /\ MajorSize \in Nat /\ MajorSize > 0 /\ MinorSize \in Nat /\ MinorSize > 0
  /\ ALIGNMENT \in Nat /\ ALIGNMENT > 1 /\ ALIGN_INFO \in Nat /\ ALIGN_INFO > 0
  /\ l_pageSize \in Nat /\ l_pageSize > 0 /\ l_pageCount \in Nat /\ l_pageCount > 0
  /\ HeapStart \in Nat /\ HeapStart > 0 /\ HeapLimit \in Nat
  /\ BrkScale \in Nat /\ Requests \subseteq Nat /\ \A r \in Requests : r > 0
BY HeapAssumption

\* Division by a number.
LEMMA Division ==
  ASSUME NEW d \in Nat, d > 0, NEW x \in Nat
  PROVE  /\ x \div d \in Nat /\ x % d \in Nat /\ x % d < d
         /\ x = d * (x \div d) + (x % d)
OBVIOUS

LEMMA Multiple ==
  ASSUME NEW d \in Nat, d > 0, NEW q \in Nat
  PROVE  (d * q) % d = 0 /\ d * q \in Nat
OBVIOUS

\* ALIGN puts the block on a multiple of ALIGNMENT.
LEMMA AlignFacts ==
  ASSUME NEW p \in Nat
  PROVE  /\ AlignDiff(p) \in Nat
         /\ ALIGN_INFO <= AlignDiff(p) /\ AlignDiff(p) < ALIGN_INFO + ALIGNMENT
         /\ (p + AlignDiff(p)) % ALIGNMENT = 0
<1> DEFINE x == p + ALIGN_INFO
           q == x \div ALIGNMENT
           over == x % ALIGNMENT
<1>1. x \in Nat /\ ALIGNMENT \in Nat /\ ALIGNMENT > 1 /\ ALIGN_INFO \in Nat
  BY Numbers
<1>2. q \in Nat /\ over \in Nat /\ over < ALIGNMENT /\ x = ALIGNMENT * q + over
  BY <1>1, Division
<1>3. AlignDiff(p) = ALIGN_INFO + (IF over = 0 THEN 0 ELSE ALIGNMENT - over)
  BY DEF AlignDiff
<1>4. (p + AlignDiff(p)) = (IF over = 0 THEN ALIGNMENT * q ELSE ALIGNMENT * (q + 1))
  <2>1. CASE over = 0
    <3>1. p + AlignDiff(p) = x
      BY <1>1, <1>3, <2>1
    <3>2. x = ALIGNMENT * q
      BY <1>1, <1>2, <2>1, Multiple
    <3> QED
      BY <2>1, <3>1, <3>2
  <2>2. CASE over # 0
    <3>1. p + AlignDiff(p) = x + (ALIGNMENT - over)
      BY <1>1, <1>2, <1>3, <2>2
    <3>2. ALIGNMENT * (q + 1) = ALIGNMENT * q + ALIGNMENT
      BY <1>1, <1>2
    <3>3. ALIGNMENT * q \in Nat
      BY <1>1, <1>2, Multiple
    <3> HIDE DEF x, q, over
    <3> QED
      BY <1>1, <1>2, <2>2, <3>1, <3>2, <3>3
  <2> QED
    BY <2>1, <2>2
<1> HIDE DEF x, q, over
<1>5. (p + AlignDiff(p)) % ALIGNMENT = 0
  <2>1. (ALIGNMENT * q) % ALIGNMENT = 0 /\ (ALIGNMENT * (q + 1)) % ALIGNMENT = 0
    BY <1>1, <1>2, Multiple, q + 1 \in Nat
  <2> QED
    BY <1>4, <2>1
<1> QED
  BY <1>1, <1>2, <1>3, <1>5

\* The pages of a new major hold its header and the block.
LEMMA PagesHold ==
  ASSUME NEW bytes \in Nat
  PROVE  /\ PagesFor(bytes) \in Nat
         /\ PagesFor(bytes) * l_pageSize \in Nat
         /\ bytes + MajorSize + MinorSize <= PagesFor(bytes) * l_pageSize
<1> DEFINE x == bytes + MajorSize + MinorSize + l_pageSize - 1
           st == x \div l_pageSize
<1>1. x \in Nat /\ l_pageSize \in Nat /\ l_pageSize > 0 /\ l_pageCount \in Nat
  BY Numbers
<1>2. st \in Nat /\ x % l_pageSize \in Nat /\ x % l_pageSize < l_pageSize
      /\ x = l_pageSize * st + (x % l_pageSize)
  BY <1>1, Division
<1>3. bytes + MajorSize + MinorSize <= l_pageSize * st
  <2>1. l_pageSize * st \in Nat
    BY <1>1, <1>2, Multiple
  <2>2. x = bytes + MajorSize + MinorSize + l_pageSize - 1
    OBVIOUS
  <2> HIDE DEF x, st
  <2> QED
    BY <1>1, <1>2, <2>1, <2>2, Numbers
<1>4. PagesFor(bytes) = IF st < l_pageCount THEN l_pageCount ELSE st
  BY DEF PagesFor
<1> HIDE DEF x, st
<1>5. PagesFor(bytes) \in Nat /\ st <= PagesFor(bytes)
  BY <1>1, <1>2, <1>4
<1>6. l_pageSize * st <= l_pageSize * PagesFor(bytes)
  BY <1>1, <1>2, <1>5
<1>7. PagesFor(bytes) * l_pageSize = l_pageSize * PagesFor(bytes)
  BY <1>1, <1>5
<1>8. l_pageSize * PagesFor(bytes) \in Nat /\ l_pageSize * st \in Nat
  BY <1>1, <1>2, <1>5, Multiple
<1> QED
  BY <1>3, <1>5, <1>6, <1>7, <1>8, Numbers
-----------------------------------------------------------------------------
(* The inductive invariant.                                                *)

\* The headers.
Headers ==
    /\ IsFiniteSet(DOMAIN majors) /\ IsFiniteSet(DOMAIN minors)
    /\ DOMAIN majors \subseteq Nat \ {0} /\ DOMAIN minors \subseteq Nat \ {0}
    /\ majors \in [DOMAIN majors -> [prev : Nat, next : Nat, pages : Nat, size : Nat,
                                     usage : Nat, first : Nat]]
    /\ minors \in [DOMAIN minors -> [prev : Nat, next : Nat, block : Nat, size : Nat,
                                     req_size : Nat]]
    /\ brk_limit \in Nat

EndOfMajor(m) == m + majors[m].size

\* Majors lie in the heap and apart from each other.
MajorsApart ==
    /\ \A m \in DOMAIN majors :
          HeapStart <= m /\ EndOfMajor(m) <= HeapLimit /\ MajorSize <= majors[m].size
    /\ \A m, k \in DOMAIN majors : m < k => EndOfMajor(m) <= k

\* Minors lie in their major and apart from each other.
MinorsApart ==
    /\ \A a \in DOMAIN minors :
          /\ minors[a].block \in DOMAIN majors
          /\ minors[a].block + MajorSize <= a
          /\ EndOf(a) <= minors[a].block + majors[minors[a].block].size
    /\ \A a, c \in DOMAIN minors :
          minors[a].block = minors[c].block /\ a < c => EndOf(a) <= c

\* c is the last of the set S below a, NULL if there is none.
IsPrev(S, a, c) ==
    \/ c = NULL /\ \A x \in S : a <= x
    \/ c \in S /\ c < a /\ \A x \in S : x <= c \/ a <= x

\* c is the first of the set S above a, NULL if there is none.
IsNext(S, a, c) ==
    \/ c = NULL /\ \A x \in S : x <= a
    \/ c \in S /\ a < c /\ \A x \in S : x <= a \/ c <= x

\* The minors of the major m among mi.
MinorsIn(mi, m) == {a \in DOMAIN mi : mi[a].block = m}

\* The pointers between the minors of a major are those of its sorted list.
Sorted ==
    /\ \A m \in DOMAIN majors : IsNext(MinorsIn(minors, m), 0, majors[m].first)
    /\ \A a \in DOMAIN minors :
          /\ IsPrev(MinorsIn(minors, minors[a].block), a, minors[a].prev)
          /\ IsNext(MinorsIn(minors, minors[a].block), a, minors[a].next)

\* What a client holds for the header a among mi.
BlockAt(mi, a) == [ptr |-> a + MinorSize + AlignDiff(a + MinorSize),
                   req |-> mi[a].req_size,
                   diff |-> AlignDiff(a + MinorSize)]

\* One block is held for each minor, behind its header.
Held ==
    /\ DOMAIN live = {BlockAt(minors, a) : a \in DOMAIN minors}
    /\ \A b \in DOMAIN live : live[b] = 1
    /\ \A a \in DOMAIN minors :
          minors[a].req_size + ALIGNMENT + ALIGN_INFO <= minors[a].size

Phases == {"idle", "root", "bet", "major", "next", "empty", "front", "minor", "release"}

InMajor == {"major", "next", "empty", "front", "minor"}

\* The call in progress; a major without minors is the one it has just made.
Calling ==
    /\ op \in [phase : Phases, req : Nat, old : SUBSET DOMAIN live, maj : Nat, min : Nat,
               startedBet : BOOLEAN, bestSize : Int]
    /\ op.phase \in InMajor => op.maj \in DOMAIN majors
    /\ \A m \in DOMAIN majors :
          majors[m].first = NULL =>
              /\ FreeIn(m) >= Need
              /\ \/ At("bet") /\ DOMAIN majors = {m}
                 \/ op.phase \in {"major", "empty"} /\ op.maj = m
    /\ At("idle") => op.old = {}
    /\ At("empty") => FreeIn(op.maj) >= Need /\ majors[op.maj].first = NULL
    /\ At("minor") => op.min \in MinorsOf(op.maj)
    /\ l_bestBet \in DOMAIN majors \cup {NULL}
    /\ ~ At("idle") => op.req > 0

\* No room for the request in m.
Full(m) == \A gap \in Gaps(m) : gap < Need

\* The list of the majors, and how far the walk has come in it.
Walked ==
    /\ \E order \in [1 .. Cardinality(DOMAIN majors) -> DOMAIN majors] :
          /\ IsMajorList(order)
          /\ op.phase \in InMajor =>
                \E k \in 1 .. Cardinality(DOMAIN majors) :
                   /\ order[k] = op.maj
                   /\ ~ op.startedBet => \A j \in 1 .. k - 1 : Full(order[j])
    /\ At("bet") => l_memRoot # NULL
    /\ At("next") => Full(op.maj)
    /\ At("minor") => /\ FrontGap(op.maj) < Need
                      /\ \A c \in MinorsOf(op.maj) : c < op.min => GapBehind(c) < Need

IInv == Headers /\ MajorsApart /\ MinorsApart /\ Sorted /\ Held /\ Accounting
        /\ Calling /\ Walked

WholeOf == [a \in DOMAIN minors |-> minors[a].size + MinorSize]

LEMMA AccountingIs ==
  ASSUME Accounting, NEW m \in DOMAIN majors
  PROVE  majors[m].usage = MajorSize + SumOver(WholeOf, MinorsOf(m))
BY DEF Accounting, WholeOf

LEMMA HeaderFacts ==
  ASSUME Headers
  PROVE  /\ \A m \in DOMAIN majors :
               /\ m \in Nat /\ m > 0 /\ majors[m].prev \in Nat /\ majors[m].next \in Nat
               /\ majors[m].pages \in Nat /\ majors[m].size \in Nat
               /\ majors[m].usage \in Nat /\ majors[m].first \in Nat
               /\ EndOfMajor(m) \in Nat
         /\ \A a \in DOMAIN minors :
               /\ a \in Nat /\ a > 0 /\ minors[a].prev \in Nat /\ minors[a].next \in Nat
               /\ minors[a].block \in Nat /\ minors[a].size \in Nat
               /\ minors[a].req_size \in Nat
               /\ EndOf(a) \in Nat /\ a < EndOf(a)
         /\ \A m : IsFiniteSet(MinorsOf(m)) /\ MinorsOf(m) \subseteq DOMAIN minors
         /\ 0 \notin DOMAIN majors /\ 0 \notin DOMAIN minors
<1>1. ASSUME NEW m \in DOMAIN majors
      PROVE  /\ m \in Nat /\ m > 0 /\ majors[m].prev \in Nat /\ majors[m].next \in Nat
             /\ majors[m].pages \in Nat /\ majors[m].size \in Nat
             /\ majors[m].usage \in Nat /\ majors[m].first \in Nat
  BY DEF Headers
<1>2. ASSUME NEW a \in DOMAIN minors
      PROVE  /\ a \in Nat /\ a > 0 /\ minors[a].prev \in Nat /\ minors[a].next \in Nat
             /\ minors[a].block \in Nat /\ minors[a].size \in Nat
             /\ minors[a].req_size \in Nat
  BY DEF Headers
<1>3. ASSUME NEW m
      PROVE  IsFiniteSet(MinorsOf(m)) /\ MinorsOf(m) \subseteq DOMAIN minors
  <2>1. MinorsOf(m) \subseteq DOMAIN minors
    BY DEF MinorsOf
  <2> QED
    BY <2>1, FS_Subset DEF Headers
<1>4. 0 \notin DOMAIN majors /\ 0 \notin DOMAIN minors
  BY DEF Headers
<1> QED
  BY <1>1, <1>2, <1>3, <1>4, Numbers DEF EndOfMajor, EndOf

LEMMA WholeFacts ==
  ASSUME Headers, MinorsApart, NEW m \in DOMAIN majors
  PROVE  /\ \A a \in MinorsOf(m) : WholeOf[a] \in Nat /\ WholeOf[a] \in Int
         /\ \A a \in MinorsOf(m) : a + WholeOf[a] = EndOf(a)
         /\ \A a \in MinorsOf(m) : m + MajorSize <= a /\ EndOf(a) <= EndOfMajor(m)
         /\ \A a, c \in MinorsOf(m) : a < c => EndOf(a) <= c
BY HeaderFacts, Numbers DEF WholeOf, MinorsApart, MinorsOf, EndOf, EndOfMajor

\* A space in a major that no minor takes is not larger than what is free in it.
LEMMA FreeBound ==
  ASSUME Headers, MajorsApart, MinorsApart, Accounting, NEW m \in DOMAIN majors,
         NEW g \in Nat, NEW len \in Nat,
         m + MajorSize <= g, g + len <= EndOfMajor(m),
         \A c \in MinorsOf(m) : EndOf(c) <= g \/ g + len <= c
  PROVE  len <= FreeIn(m)
<1>1. /\ majors[m].usage = MajorSize + SumOver(WholeOf, MinorsOf(m))
      /\ IsFiniteSet(MinorsOf(m)) /\ MinorsOf(m) \subseteq Nat
      /\ m \in Nat /\ majors[m].size \in Nat /\ EndOfMajor(m) \in Nat
      /\ EndOfMajor(m) = m + majors[m].size
      /\ FreeIn(m) = majors[m].size - majors[m].usage
      /\ MajorSize <= majors[m].size
  BY AccountingIs, HeaderFacts DEF EndOfMajor, FreeIn, MajorsApart
<1>2. SumOver(WholeOf, MinorsOf(m)) \in Nat
  BY <1>1, WholeFacts, SumNat
<1>3. CASE len = 0
  <2>1. SumOver(WholeOf, MinorsOf(m)) <= EndOfMajor(m) - (m + MajorSize)
    <3>1. \A x \in MinorsOf(m) : WholeOf[x] \in Nat
      BY WholeFacts
    <3>2. m + MajorSize \in Nat /\ m + MajorSize <= EndOfMajor(m)
      BY <1>1, Numbers
    <3>3. \A c \in MinorsOf(m) : m + MajorSize <= c /\ c + WholeOf[c] <= EndOfMajor(m)
      BY WholeFacts
    <3>4. \A c, d \in MinorsOf(m) : c < d => c + WholeOf[c] <= d
      BY WholeFacts
    <3> QED
      BY <1>1, <3>1, <3>2, <3>3, <3>4, SumFits
  <2> QED
    BY <1>1, <1>2, <1>3, <2>1, Numbers
<1>4. CASE len > 0
  <2> DEFINE S == MinorsOf(m) \cup {g}
             f == [x \in S |-> IF x = g THEN len ELSE WholeOf[x]]
  <2>1. g \notin MinorsOf(m)
    BY <1>1, <1>4, HeaderFacts, WholeFacts
  <2>2. \A x \in MinorsOf(m) : f[x] = WholeOf[x]
    BY <2>1
  <2>3. f[g] = len
    OBVIOUS
  <2>4. \A x \in S : f[x] \in Nat /\ f[x] \in Int
    BY <2>2, <2>3, WholeFacts
  <2> HIDE DEF f
  <2>5. SumOver(f, S) = len + SumOver(f, MinorsOf(m))
    BY <1>1, <2>1, <2>3, <2>4, SumAdd
  <2>6. SumOver(f, MinorsOf(m)) = SumOver(WholeOf, MinorsOf(m))
    <3>1. \A x \in MinorsOf(m) : WholeOf[x] \in Int
      BY WholeFacts
    <3> QED
      BY <1>1, <2>2, <3>1, SumAgree
  <2>7. SumOver(f, S) <= EndOfMajor(m) - (m + MajorSize)
    <3>1. \A x \in S : f[x] \in Nat
      BY <2>4
    <3>2. m + MajorSize \in Nat /\ m + MajorSize <= EndOfMajor(m)
      BY <1>1, Numbers
    <3>3. ASSUME NEW c \in S
          PROVE  m + MajorSize <= c /\ c + f[c] <= EndOfMajor(m)
      BY <2>2, <2>3, WholeFacts
    <3>4. ASSUME NEW c \in S, NEW d \in S, c < d
          PROVE  c + f[c] <= d
      <4>1. CASE c = g
        <5>1. d \in MinorsOf(m) /\ d < EndOf(d)
          BY <3>4, <4>1, HeaderFacts
        <5> QED
          BY <1>1, <2>3, <3>4, <4>1, <5>1, HeaderFacts
      <4>2. CASE d = g
        <5>1. c \in MinorsOf(m)
          BY <3>4, <4>2
        <5>2. c + f[c] = EndOf(c)
          BY <2>2, <5>1, WholeFacts
        <5> QED
          BY <1>1, <3>4, <4>2, <5>1, <5>2
      <4>3. CASE c # g /\ d # g
        <5>1. c \in MinorsOf(m) /\ d \in MinorsOf(m)
          BY <4>3
        <5> QED
          BY <2>2, <3>4, <5>1, WholeFacts
      <4> QED
        BY <4>1, <4>2, <4>3
    <3>5. IsFiniteSet(S) /\ S \subseteq Nat
      BY <1>1, FS_AddElement
    <3> HIDE DEF S
    <3> QED
      BY <1>1, <3>1, <3>2, <3>3, <3>4, <3>5, SumFits
  <2> QED
    BY <1>1, <1>2, <2>5, <2>6, <2>7, Numbers
<1> QED
  BY <1>3, <1>4

\* usage lies between its bounds.
LEMMA UsageBound ==
  ASSUME Headers, MajorsApart, MinorsApart, Accounting, NEW m \in DOMAIN majors
  PROVE  /\ majors[m].usage \in MajorSize .. majors[m].size
         /\ FreeIn(m) \in Nat
         /\ MinorsOf(m) = {} => FreeIn(m) = majors[m].size - MajorSize
<1>1. /\ majors[m].usage = MajorSize + SumOver(WholeOf, MinorsOf(m))
      /\ IsFiniteSet(MinorsOf(m))
      /\ m \in Nat /\ majors[m].size \in Nat /\ majors[m].usage \in Nat
      /\ EndOfMajor(m) = m + majors[m].size
      /\ FreeIn(m) = majors[m].size - majors[m].usage
  BY AccountingIs, HeaderFacts DEF EndOfMajor, FreeIn
<1>2. SumOver(WholeOf, MinorsOf(m)) \in Nat
  BY <1>1, WholeFacts, SumNat
<1>3. 0 <= FreeIn(m)
  <2> DEFINE g == EndOfMajor(m)
  <2>1. m + MajorSize <= g /\ g \in Nat
    BY <1>1, Numbers DEF MajorsApart
  <2>2. \A c \in MinorsOf(m) : EndOf(c) <= g
    BY WholeFacts
  <2>3. g + 0 <= EndOfMajor(m)
    BY <2>1
  <2> HIDE DEF g
  <2> QED
    BY <2>1, <2>2, <2>3, FreeBound
<1>4. MinorsOf(m) = {} => SumOver(WholeOf, MinorsOf(m)) = 0
  BY SumEmpty
<1> QED
  BY <1>1, <1>2, <1>3, <1>4, Numbers

\* An address between its neighbours joins the list.
LEMMA Inserted ==
  ASSUME NEW S,
         \A x \in S : x \in Nat /\ x > 0, NEW a \in Nat, a > 0, a \notin S,
         NEW before, NEW after, IsPrev(S, a, before), IsNext(S, a, after)
  PROVE  /\ before \in Nat /\ after \in Nat
         /\ IsPrev(S \cup {a}, a, before) /\ IsNext(S \cup {a}, a, after)
         /\ \A f : IsNext(S, 0, f) =>
               IsNext(S \cup {a}, 0, IF before = NULL THEN a ELSE f)
         /\ \A x \in S : \A q :
               IsPrev(S, x, q) => IsPrev(S \cup {a}, x, IF x = after THEN a ELSE q)
         /\ \A x \in S : \A q :
               IsNext(S, x, q) => IsNext(S \cup {a}, x, IF x = before THEN a ELSE q)
<1>1. \A x \in S : x \in Nat /\ x > 0 /\ x # a
  OBVIOUS
<1>2. before \in Nat /\ after \in Nat
  BY <1>1 DEF IsPrev, IsNext, NULL
<1>3. IsPrev(S \cup {a}, a, before) /\ IsNext(S \cup {a}, a, after)
  BY <1>1 DEF IsPrev, IsNext
<1>4. ASSUME NEW f, IsNext(S, 0, f)
      PROVE  IsNext(S \cup {a}, 0, IF before = NULL THEN a ELSE f)
  <2>1. CASE before = NULL
    <3>1. \A x \in S : a <= x
      BY <1>1, <2>1 DEF IsPrev, NULL
    <3>2. IsNext(S \cup {a}, 0, a)
      BY <1>1, <3>1 DEF IsNext
    <3> QED
      BY <2>1, <3>2
  <2>2. CASE before # NULL
    <3>1. before \in S /\ before < a
      BY <2>2 DEF IsPrev
    <3>2. f \in S /\ 0 < f /\ (\A x \in S : f <= x)
      BY <1>1, <1>4, <3>1 DEF IsNext
    <3>3. f < a
      BY <1>1, <3>1, <3>2
    <3>4. IsNext(S \cup {a}, 0, f)
      BY <1>1, <3>2, <3>3 DEF IsNext
    <3> QED
      BY <2>2, <3>4
  <2> QED
    BY <2>1, <2>2
<1>5. ASSUME NEW x \in S, NEW q, IsPrev(S, x, q)
      PROVE  IsPrev(S \cup {a}, x, IF x = after THEN a ELSE q)
  <2>1. CASE x = after
    <3>1. a < x /\ \A y \in S : y <= a \/ x <= y
      BY <1>1, <2>1 DEF IsNext, NULL
    <3>2. IsPrev(S \cup {a}, x, a)
      BY <1>1, <3>1 DEF IsPrev
    <3> QED
      BY <2>1, <3>2
  <2>2. CASE x # after
    <3>1. x < a => IsPrev(S \cup {a}, x, q)
      BY <1>1, <1>5 DEF IsPrev
    <3>2. CASE a < x
      <4>1. after \in S /\ a < after /\ after < x
        BY <1>1, <2>2, <3>2 DEF IsNext
      <4>2. q \in S /\ q < x /\ \A y \in S : y <= q \/ x <= y
        BY <1>1, <1>5, <4>1 DEF IsPrev
      <4>3. after <= q
        BY <1>1, <4>1, <4>2
      <4>4. a <= q
        BY <1>1, <4>1, <4>2, <4>3
      <4>5. IsPrev(S \cup {a}, x, q)
        BY <1>1, <4>2, <4>4 DEF IsPrev
      <4> QED
        BY <2>2, <4>5
    <3> QED
      BY <1>1, <2>2, <3>1, <3>2
  <2> QED
    BY <2>1, <2>2
<1>6. ASSUME NEW x \in S, NEW q, IsNext(S, x, q)
      PROVE  IsNext(S \cup {a}, x, IF x = before THEN a ELSE q)
  <2>1. CASE x = before
    <3>1. x < a /\ \A y \in S : y <= x \/ a <= y
      BY <1>1, <2>1 DEF IsPrev, NULL
    <3>2. IsNext(S \cup {a}, x, a)
      BY <1>1, <3>1 DEF IsNext
    <3> QED
      BY <2>1, <3>2
  <2>2. CASE x # before
    <3>1. a < x => IsNext(S \cup {a}, x, q)
      BY <1>1, <1>6 DEF IsNext
    <3>2. CASE x < a
      <4>1. before \in S /\ before < a /\ x < before
        BY <1>1, <2>2, <3>2 DEF IsPrev
      <4>2. q \in S /\ x < q /\ \A y \in S : y <= x \/ q <= y
        BY <1>1, <1>6, <4>1 DEF IsNext
      <4>3. q <= before
        BY <1>1, <4>1, <4>2
      <4>4. q <= a
        BY <1>1, <4>1, <4>2, <4>3
      <4>5. IsNext(S \cup {a}, x, q)
        BY <1>1, <4>2, <4>4 DEF IsNext
      <4> QED
        BY <2>2, <4>5
    <3> QED
      BY <1>1, <2>2, <3>1, <3>2
  <2> QED
    BY <2>1, <2>2
<1> QED
  BY <1>2, <1>3, <1>4, <1>5, <1>6

\* An address leaves the list.
LEMMA Removed ==
  ASSUME NEW S,
         \A x \in S : x \in Nat /\ x > 0, NEW a \in S,
         NEW before, NEW after, IsPrev(S, a, before), IsNext(S, a, after)
  PROVE  /\ before \in (S \ {a}) \cup {NULL} /\ after \in (S \ {a}) \cup {NULL}
         /\ \A f : IsNext(S, 0, f) =>
               IsNext(S \ {a}, 0, IF before = NULL THEN after ELSE f)
         /\ \A x \in S \ {a} : \A q :
               IsPrev(S, x, q) => IsPrev(S \ {a}, x, IF x = after THEN before ELSE q)
         /\ \A x \in S \ {a} : \A q :
               IsNext(S, x, q) => IsNext(S \ {a}, x, IF x = before THEN after ELSE q)
<1>1. \A x \in S : x \in Nat /\ x > 0
  OBVIOUS
<1>2. before \in (S \ {a}) \cup {NULL} /\ after \in (S \ {a}) \cup {NULL}
  BY <1>1 DEF IsPrev, IsNext
<1>3. before = NULL => \A x \in S : a <= x
  BY <1>1 DEF IsPrev, NULL
<1>4. before # NULL => before \in S /\ before < a /\ \A x \in S : x <= before \/ a <= x
  BY DEF IsPrev
<1>5. after = NULL => \A x \in S : x <= a
  BY <1>1 DEF IsNext, NULL
<1>6. after # NULL => after \in S /\ a < after /\ \A x \in S : x <= a \/ after <= x
  BY DEF IsNext
<1>7. ASSUME NEW f, IsNext(S, 0, f)
      PROVE  IsNext(S \ {a}, 0, IF before = NULL THEN after ELSE f)
  <2>1. CASE before = NULL
    <3>1. CASE after = NULL
      <4>1. S \ {a} = {}
        BY <1>1, <1>3, <1>5, <2>1, <3>1
      <4> QED
        BY <2>1, <3>1, <4>1 DEF IsNext
    <3>2. CASE after # NULL
      <4>1. \A x \in S \ {a} : after <= x
        BY <1>1, <1>3, <1>6, <2>1, <3>2
      <4> QED
        BY <1>1, <1>6, <2>1, <3>2, <4>1 DEF IsNext
    <3> QED
      BY <3>1, <3>2
  <2>2. CASE before # NULL
    <3>1. f \in S /\ \A x \in S : f <= x
      BY <1>1, <1>7 DEF IsNext
    <3>2. f # a
      BY <1>1, <1>4, <2>2, <3>1
    <3>3. IsNext(S \ {a}, 0, f)
      BY <1>1, <3>1, <3>2 DEF IsNext
    <3> QED
      BY <2>2, <3>3
  <2> QED
    BY <2>1, <2>2
<1>8. ASSUME NEW x \in S \ {a}, NEW q, IsPrev(S, x, q)
      PROVE  IsPrev(S \ {a}, x, IF x = after THEN before ELSE q)
  <2>1. CASE x = after
    <3>1. after # NULL
      BY <1>1, <2>1 DEF NULL
    <3>2. IsPrev(S \ {a}, x, before)
      <4>1. CASE before = NULL
        <5>1. \A y \in S \ {a} : x <= y
          BY <1>1, <1>3, <1>6, <2>1, <3>1, <4>1
        <5> QED
          BY <4>1, <5>1 DEF IsPrev
      <4>2. CASE before # NULL
        <5>1. before \in S \ {a} /\ before < x
          BY <1>1, <1>4, <1>6, <2>1, <3>1, <4>2
        <5>2. \A y \in S \ {a} : y <= before \/ x <= y
          BY <1>1, <1>4, <1>6, <2>1, <3>1, <4>2
        <5> QED
          BY <5>1, <5>2 DEF IsPrev
      <4> QED
        BY <4>1, <4>2
    <3> QED
      BY <2>1, <3>2
  <2>2. CASE x # after
    <3>1. q # a
      <4> SUFFICES ASSUME q = a PROVE FALSE
        OBVIOUS
      <4>1. a < x /\ \A y \in S : y <= a \/ x <= y
        BY <1>1, <1>8 DEF IsPrev, NULL
      <4>2. after # NULL
        BY <1>1, <1>5, <4>1
      <4> QED
        BY <1>1, <1>6, <2>2, <4>1, <4>2
    <3>2. IsPrev(S \ {a}, x, q)
      BY <1>1, <1>8, <3>1 DEF IsPrev
    <3> QED
      BY <2>2, <3>2
  <2> QED
    BY <2>1, <2>2
<1>9. ASSUME NEW x \in S \ {a}, NEW q, IsNext(S, x, q)
      PROVE  IsNext(S \ {a}, x, IF x = before THEN after ELSE q)
  <2>1. CASE x = before
    <3>1. before # NULL
      BY <1>1, <2>1 DEF NULL
    <3>2. IsNext(S \ {a}, x, after)
      <4>1. CASE after = NULL
        <5>1. \A y \in S \ {a} : y <= x
          BY <1>1, <1>4, <1>5, <2>1, <3>1, <4>1
        <5> QED
          BY <4>1, <5>1 DEF IsNext
      <4>2. CASE after # NULL
        <5>1. after \in S \ {a} /\ x < after
          BY <1>1, <1>4, <1>6, <2>1, <3>1, <4>2
        <5>2. \A y \in S \ {a} : y <= x \/ after <= y
          BY <1>1, <1>4, <1>6, <2>1, <3>1, <4>2
        <5> QED
          BY <5>1, <5>2 DEF IsNext
      <4> QED
        BY <4>1, <4>2
    <3> QED
      BY <2>1, <3>2
  <2>2. CASE x # before
    <3>1. q # a
      <4> SUFFICES ASSUME q = a PROVE FALSE
        OBVIOUS
      <4>1. x < a /\ \A y \in S : y <= x \/ a <= y
        BY <1>1, <1>9 DEF IsNext, NULL
      <4>2. before # NULL
        BY <1>1, <1>3, <4>1
      <4> QED
        BY <1>1, <1>4, <2>2, <4>1, <4>2
    <3>2. IsNext(S \ {a}, x, q)
      BY <1>1, <1>9, <3>1 DEF IsNext
    <3> QED
      BY <2>2, <3>2
  <2> QED
    BY <2>1, <2>2
<1> QED
  BY <1>2, <1>7, <1>8, <1>9

-----------------------------------------------------------------------------
(* A header is placed.                                                     *)

\* There is room for the request at a between its neighbours.
Room(a, before, after) ==
    /\ op.maj \in DOMAIN majors
    /\ a \in Nat /\ op.maj + MajorSize <= a /\ a + Need <= EndOfMajor(op.maj)
    /\ \A c \in MinorsOf(op.maj) : EndOf(c) <= a \/ a + Need <= c
    /\ IsPrev(MinorsOf(op.maj), a, before) /\ IsNext(MinorsOf(op.maj), a, after)

LEMMA SizeFacts ==
  ASSUME op.req \in Nat
  PROVE  /\ Size \in Nat /\ Need \in Nat /\ Need = Size + MinorSize
         /\ Size = op.req + ALIGNMENT + ALIGN_INFO /\ op.req < Size /\ Size < Need
BY Numbers DEF Size, Need

LEMMA PlaceNew ==
  ASSUME Headers, MajorsApart, MinorsApart, op.req \in Nat,
         NEW a, NEW before, NEW after, Room(a, before, after)
  PROVE  /\ a \notin DOMAIN minors /\ a > 0
         /\ before = NULL \/ before \in MinorsOf(op.maj)
         /\ after = NULL \/ after \in MinorsOf(op.maj)
<1>1. a > 0
  BY Numbers, HeaderFacts DEF Room
<1>2. before = NULL \/ before \in MinorsOf(op.maj)
  BY DEF Room, IsPrev
<1>3. after = NULL \/ after \in MinorsOf(op.maj)
  BY DEF Room, IsNext
<1>4. ASSUME a \in DOMAIN minors PROVE FALSE
  <2>1. CASE minors[a].block = op.maj
    <3>1. a \in MinorsOf(op.maj)
      BY <1>4, <2>1 DEF MinorsOf
    <3> QED
      BY <3>1, HeaderFacts, SizeFacts, Numbers DEF Room
  <2>2. CASE minors[a].block # op.maj
    <3> DEFINE k == minors[a].block
    <3>1. k \in DOMAIN majors /\ k + MajorSize <= a /\ EndOf(a) <= EndOfMajor(k)
      BY <1>4 DEF MinorsApart, EndOfMajor
    <3>2. k \in Nat /\ op.maj \in Nat /\ a \in Nat /\ a < EndOf(a) /\ EndOf(a) \in Nat
          /\ EndOfMajor(k) \in Nat /\ EndOfMajor(op.maj) \in Nat
      BY <1>4, <3>1, HeaderFacts DEF Room
    <3>3. op.maj + MajorSize <= a /\ a + Need <= EndOfMajor(op.maj)
      BY DEF Room
    <3>4. k < op.maj => EndOfMajor(k) <= op.maj
      BY <3>1 DEF MajorsApart, Room
    <3>5. op.maj < k => EndOfMajor(op.maj) <= k
      BY <3>1 DEF MajorsApart, Room
    <3> HIDE DEF k
    <3>6. k # op.maj
      BY <2>2 DEF k
    <3> QED
      BY <3>1, <3>2, <3>3, <3>4, <3>5, <3>6, SizeFacts, Numbers
  <2> QED
    BY <2>1, <2>2
<1> QED
  BY <1>1, <1>2, <1>3, <1>4

\* What Place does to the headers, field by field.
Placed(a, before, after) ==
    /\ DOMAIN minors' = DOMAIN minors \cup {a}
    /\ minors'[a] = [prev |-> before, next |-> after, block |-> op.maj,
                     size |-> Size, req_size |-> op.req]
    /\ \A x \in DOMAIN minors :
          /\ minors'[x].block = minors[x].block
          /\ minors'[x].size = minors[x].size
          /\ minors'[x].req_size = minors[x].req_size
          /\ minors'[x].next = IF x = before THEN a ELSE minors[x].next
          /\ minors'[x].prev = IF x = after THEN a ELSE minors[x].prev
    /\ DOMAIN majors' = DOMAIN majors
    /\ \A k \in DOMAIN majors :
          /\ majors'[k].prev = majors[k].prev /\ majors'[k].next = majors[k].next
          /\ majors'[k].pages = majors[k].pages /\ majors'[k].size = majors[k].size
          /\ majors'[k].usage = IF k = op.maj THEN majors[k].usage + Need
                                ELSE majors[k].usage
          /\ majors'[k].first = IF k = op.maj /\ before = NULL THEN a
                                ELSE majors[k].first

LEMMA PlaceEffect ==
  ASSUME Headers, op.maj \in DOMAIN majors, op.req \in Nat,
         NEW a \in Nat, a > 0, a \notin DOMAIN minors,
         NEW before \in Nat, NEW after \in Nat, Place(a, before, after)
  PROVE  Placed(a, before, after) /\ Headers'
<1> DEFINE linked == [x \in DOMAIN minors |->
                         [minors[x] EXCEPT !.next = IF x = before THEN a ELSE @,
                                           !.prev = IF x = after THEN a ELSE @]]
           new == [prev |-> before, next |-> after, block |-> op.maj,
                   size |-> Size, req_size |-> op.req]
           MinorRec == [prev : Nat, next : Nat, block : Nat, size : Nat, req_size : Nat]
           MajorRec == [prev : Nat, next : Nat, pages : Nat, size : Nat, usage : Nat,
                        first : Nat]
<1>1. minors' = [x \in DOMAIN minors \cup {a} |-> IF x = a THEN new ELSE linked[x]]
  BY Zenon DEF Place, Put
<1>2. DOMAIN minors' = DOMAIN minors \cup {a} /\ minors'[a] = new
  BY <1>1
<1>3. ASSUME NEW x \in DOMAIN minors
      PROVE  /\ minors'[x].block = minors[x].block
             /\ minors'[x].size = minors[x].size
             /\ minors'[x].req_size = minors[x].req_size
             /\ minors'[x].next = IF x = before THEN a ELSE minors[x].next
             /\ minors'[x].prev = IF x = after THEN a ELSE minors[x].prev
             /\ minors'[x] \in MinorRec
  <2>1. minors'[x] = [minors[x] EXCEPT !.next = IF x = before THEN a ELSE @,
                                       !.prev = IF x = after THEN a ELSE @]
    BY <1>1
  <2>2. minors[x] \in MinorRec
    BY DEF Headers
  <2> QED
    BY <2>1, <2>2
<1>4. new \in MinorRec
  BY SizeFacts, HeaderFacts
<1>5. majors' = [majors EXCEPT ![op.maj].usage = @ + Need,
                               ![op.maj].first = IF before = NULL THEN a ELSE @]
  BY DEF Place
<1>6. DOMAIN majors' = DOMAIN majors
  BY <1>5
<1>7. ASSUME NEW k \in DOMAIN majors
      PROVE  /\ majors'[k].prev = majors[k].prev /\ majors'[k].next = majors[k].next
             /\ majors'[k].pages = majors[k].pages /\ majors'[k].size = majors[k].size
             /\ majors'[k].usage = IF k = op.maj THEN majors[k].usage + Need
                                   ELSE majors[k].usage
             /\ majors'[k].first = IF k = op.maj /\ before = NULL THEN a
                                   ELSE majors[k].first
             /\ majors'[k] \in MajorRec
  <2>1. majors[k] \in MajorRec
    BY DEF Headers
  <2>2. CASE k = op.maj
    <3>1. majors'[k] = [majors[k] EXCEPT !.usage = @ + Need,
                                         !.first = IF before = NULL THEN a ELSE @]
      BY <1>5, <2>2
    <3>2. Need \in Nat
      BY SizeFacts
    <3>3. majors[k].usage + Need \in Nat
      BY <2>1, <3>2
    <3>4. /\ majors'[k].usage = majors[k].usage + Need
          /\ majors'[k].first = IF before = NULL THEN a ELSE majors[k].first
          /\ majors'[k].prev = majors[k].prev /\ majors'[k].next = majors[k].next
          /\ majors'[k].pages = majors[k].pages /\ majors'[k].size = majors[k].size
          /\ majors'[k] = [prev |-> majors[k].prev, next |-> majors[k].next,
                           pages |-> majors[k].pages, size |-> majors[k].size,
                           usage |-> majors[k].usage + Need,
                           first |-> IF before = NULL THEN a ELSE majors[k].first]
      BY <2>1, <3>1
    <3> HIDE DEF MajorRec
    <3>5. majors'[k] \in MajorRec
      BY <2>1, <3>3, <3>4 DEF MajorRec
    <3> QED
      BY <2>2, <3>4, <3>5
  <2>3. CASE k # op.maj
    <3>1. majors'[k] = majors[k]
      BY <1>5, <2>3
    <3> QED
      BY <2>1, <2>3, <3>1
  <2> QED
    BY <2>2, <2>3
<1>8. minors' \in [DOMAIN minors' -> MinorRec]
  <2>1. \A x \in DOMAIN minors' : minors'[x] \in MinorRec
    BY <1>2, <1>3, <1>4
  <2>2. minors' = [x \in DOMAIN minors' |-> minors'[x]]
    BY <1>1
  <2> HIDE DEF MinorRec
  <2> QED
    BY <2>1, <2>2
<1>9. majors' \in [DOMAIN majors' -> MajorRec]
  <2>1. \A k \in DOMAIN majors' : majors'[k] \in MajorRec
    BY <1>6, <1>7
  <2>2. majors' = [k \in DOMAIN majors' |-> majors'[k]]
    BY <1>5
  <2> HIDE DEF MajorRec
  <2> QED
    BY <2>1, <2>2
<1>10. IsFiniteSet(DOMAIN minors')
  BY <1>2, FS_AddElement DEF Headers
<1>11. brk_limit' = brk_limit
  BY DEF Place
<1>12. Headers'
  BY <1>2, <1>6, <1>8, <1>9, <1>10, <1>11 DEF Headers
<1> HIDE DEF new
<1> QED
  BY <1>2, <1>3, <1>6, <1>7, <1>12 DEF new, Placed

\* The same from the room there is.
LEMMA PlaceNumbers ==
  ASSUME Headers, MajorsApart, MinorsApart, op.req \in Nat,
         NEW a, NEW before, NEW after, Room(a, before, after), Place(a, before, after)
  PROVE  /\ a \in Nat /\ a > 0 /\ a \notin DOMAIN minors
         /\ before \in Nat /\ after \in Nat /\ op.maj \in DOMAIN majors
         /\ before = NULL \/ before \in MinorsOf(op.maj)
         /\ after = NULL \/ after \in MinorsOf(op.maj)
         /\ Placed(a, before, after) /\ Headers'
<1>1. a \in Nat /\ op.maj \in DOMAIN majors
  BY DEF Room
<1>2. \A x \in MinorsOf(op.maj) : x \in Nat
  BY HeaderFacts
<1>3. a > 0 /\ a \notin DOMAIN minors
  BY PlaceNew
<1>4. before = NULL \/ before \in MinorsOf(op.maj)
  BY PlaceNew
<1>5. after = NULL \/ after \in MinorsOf(op.maj)
  BY PlaceNew
<1>6. before \in Nat /\ after \in Nat
  BY <1>2, <1>4, <1>5 DEF NULL
<1>7. Placed(a, before, after) /\ Headers'
  BY <1>1, <1>3, <1>6, PlaceEffect
<1> QED
  BY <1>1, <1>3, <1>4, <1>5, <1>6, <1>7

LEMMA PlaceMinors ==
  ASSUME Headers, MajorsApart, MinorsApart, op.req \in Nat,
         NEW a, NEW before, NEW after, Room(a, before, after), Place(a, before, after)
  PROVE  \A k : MinorsIn(minors', k) = IF k = op.maj THEN MinorsIn(minors, k) \cup {a}
                                      ELSE MinorsIn(minors, k)
<1>1. /\ a \notin DOMAIN minors
      /\ DOMAIN minors' = DOMAIN minors \cup {a}
      /\ minors'[a].block = op.maj
      /\ \A x \in DOMAIN minors : minors'[x].block = minors[x].block
  <2>1. a \in Nat /\ a \notin DOMAIN minors /\ op.maj \in DOMAIN majors /\ Placed(a, before, after)
    BY PlaceNumbers
  <2> QED
    BY <2>1 DEF Placed
<1> QED
  BY <1>1 DEF MinorsIn

\* Headers stay apart and sorted.
LEMMA PlaceKeepsLayout ==
  ASSUME Headers, MajorsApart, MinorsApart, Sorted, op.req \in Nat,
         NEW a, NEW before, NEW after, Room(a, before, after), Place(a, before, after)
  PROVE  Headers' /\ MajorsApart' /\ MinorsApart' /\ Sorted'
<1> DEFINE S == MinorsOf(op.maj)
<1>1. /\ a \in Nat /\ before \in Nat /\ after \in Nat /\ op.maj \in DOMAIN majors
      /\ a > 0 /\ a \notin DOMAIN minors
      /\ before = NULL \/ before \in S
      /\ after = NULL \/ after \in S
  BY PlaceNumbers
<1>2. /\ DOMAIN minors' = DOMAIN minors \cup {a}
      /\ minors'[a] = [prev |-> before, next |-> after, block |-> op.maj,
                       size |-> Size, req_size |-> op.req]
      /\ \A x \in DOMAIN minors :
            /\ minors'[x].block = minors[x].block
            /\ minors'[x].size = minors[x].size
            /\ minors'[x].req_size = minors[x].req_size
            /\ minors'[x].next = IF x = before THEN a ELSE minors[x].next
            /\ minors'[x].prev = IF x = after THEN a ELSE minors[x].prev
      /\ DOMAIN majors' = DOMAIN majors
      /\ \A k \in DOMAIN majors :
            /\ majors'[k].size = majors[k].size
            /\ majors'[k].first = IF k = op.maj /\ before = NULL THEN a
                                  ELSE majors[k].first
      /\ Headers'
  <2>1. Placed(a, before, after) /\ Headers'
    BY PlaceNumbers
  <2> QED
    BY <2>1 DEF Placed
<1>3. \A k \in DOMAIN majors : EndOfMajor(k)' = EndOfMajor(k)
  BY <1>2 DEF EndOfMajor
<1>4. \A x \in DOMAIN minors : EndOf(x)' = EndOf(x)
  BY <1>2 DEF EndOf
<1>5. EndOf(a)' = a + Need
  BY <1>1, <1>2, SizeFacts, Numbers DEF EndOf
<1>6. MajorsApart'
  BY <1>2, <1>3 DEF MajorsApart
<1>7. MinorsApart'
  <2>1. ASSUME NEW x \in DOMAIN minors'
        PROVE  /\ minors'[x].block \in DOMAIN majors
               /\ minors'[x].block + MajorSize <= x
               /\ EndOf(x)' <= minors'[x].block + majors'[minors'[x].block].size
    <3>1. CASE x = a
      BY <1>1, <1>2, <1>5, <3>1 DEF Room, EndOfMajor
    <3>2. CASE x \in DOMAIN minors
      BY <1>2, <1>4, <3>2 DEF MinorsApart
    <3> QED
      BY <1>2, <3>1, <3>2
  <2>2. ASSUME NEW x \in DOMAIN minors', NEW y \in DOMAIN minors',
               minors'[x].block = minors'[y].block, x < y
        PROVE  EndOf(x)' <= y
    <3>1. CASE x = a
      <4>1. y \in DOMAIN minors /\ minors[y].block = op.maj
        BY <1>1, <1>2, <2>2, <3>1
      <4>2. y \in S
        BY <4>1 DEF MinorsOf
      <4> QED
        BY <1>1, <1>5, <2>2, <3>1, <4>1, <4>2, HeaderFacts DEF Room
    <3>2. CASE y = a
      <4>1. x \in DOMAIN minors /\ minors[x].block = op.maj
        BY <1>1, <1>2, <2>2, <3>2
      <4>2. x \in S
        BY <4>1 DEF MinorsOf
      <4> QED
        BY <1>1, <1>4, <2>2, <3>2, <4>1, <4>2, HeaderFacts, SizeFacts DEF Room
    <3>3. CASE x \in DOMAIN minors /\ y \in DOMAIN minors
      BY <1>2, <1>4, <2>2, <3>3 DEF MinorsApart
    <3> QED
      BY <1>2, <3>1, <3>2, <3>3
  <2> QED
    BY <1>2, <2>1, <2>2 DEF MinorsApart
<1>8. \A k : MinorsIn(minors', k) = IF k = op.maj THEN MinorsIn(minors, k) \cup {a}
                                      ELSE MinorsIn(minors, k)
  BY PlaceMinors
<1>9. IsPrev(S, a, before) /\ IsNext(S, a, after) /\ S \subseteq DOMAIN minors
  BY DEF Room, MinorsOf
<1>10. /\ \A x \in S : x \in Nat /\ x > 0
       /\ a \notin S
  BY <1>1, <1>9, HeaderFacts
<1> HIDE DEF S
<1>11. /\ IsPrev(S \cup {a}, a, before) /\ IsNext(S \cup {a}, a, after)
       /\ \A f : IsNext(S, 0, f) =>
             IsNext(S \cup {a}, 0, IF before = NULL THEN a ELSE f)
       /\ \A x \in S : \A q :
             IsPrev(S, x, q) => IsPrev(S \cup {a}, x, IF x = after THEN a ELSE q)
       /\ \A x \in S : \A q :
             IsNext(S, x, q) => IsNext(S \cup {a}, x, IF x = before THEN a ELSE q)
  BY <1>1, <1>9, <1>10, Inserted
<1>12. ASSUME NEW k \in DOMAIN majors
       PROVE  IsNext(MinorsIn(minors', k), 0, majors'[k].first)
  <2>1. IsNext(MinorsIn(minors, k), 0, majors[k].first)
    BY DEF Sorted
  <2>2. CASE k # op.maj
    <3>1. MinorsIn(minors', k) = MinorsIn(minors, k) /\ majors'[k].first = majors[k].first
      BY <1>2, <1>8, <2>2
    <3> QED
      BY <2>1, <3>1
  <2>3. CASE k = op.maj
    <3>1. /\ MinorsIn(minors', k) = S \cup {a} /\ MinorsIn(minors, k) = S
          /\ majors'[k].first = IF before = NULL THEN a ELSE majors[k].first
      BY <1>2, <1>8, <2>3 DEF S, MinorsOf, MinorsIn
    <3> QED
      BY <1>11, <2>1, <3>1
  <2> QED
    BY <2>2, <2>3
<1>13. ASSUME NEW x \in DOMAIN minors
       PROVE  /\ IsPrev(MinorsIn(minors', minors'[x].block), x, minors'[x].prev)
              /\ IsNext(MinorsIn(minors', minors'[x].block), x, minors'[x].next)
  <2> DEFINE b == minors[x].block
  <2>1. minors'[x].block = b /\ x \in Nat /\ x > 0
    BY <1>2, HeaderFacts
  <2>2. IsPrev(MinorsIn(minors, b), x, minors[x].prev) /\ IsNext(MinorsIn(minors, b), x, minors[x].next)
    BY DEF Sorted
  <2>3. CASE b # op.maj
    <3>1. x \notin S
      BY <2>3 DEF MinorsOf, S
    <3>2. x # before /\ x # after
      BY <1>1, <2>1, <3>1 DEF NULL
    <3>3. /\ MinorsIn(minors', b) = MinorsIn(minors, b)
          /\ minors'[x].prev = minors[x].prev /\ minors'[x].next = minors[x].next
      BY <1>2, <1>8, <2>3, <3>2
    <3> QED
      BY <2>1, <2>2, <3>3
  <2>4. CASE b = op.maj
    <3>1. x \in S
      BY <2>4 DEF MinorsOf, S
    <3>2. /\ MinorsIn(minors', b) = S \cup {a} /\ MinorsIn(minors, b) = S
          /\ minors'[x].prev = IF x = after THEN a ELSE minors[x].prev
          /\ minors'[x].next = IF x = before THEN a ELSE minors[x].next
      BY <1>2, <1>8, <2>4 DEF S, MinorsOf, MinorsIn
    <3> QED
      BY <1>11, <2>1, <2>2, <3>1, <3>2
  <2> QED
    BY <2>3, <2>4
<1>14. /\ IsPrev(MinorsIn(minors', minors'[a].block), a, minors'[a].prev)
       /\ IsNext(MinorsIn(minors', minors'[a].block), a, minors'[a].next)
  <2>1. minors'[a].prev = before /\ minors'[a].next = after /\ minors'[a].block = op.maj
    BY <1>2
  <2>2. MinorsIn(minors', op.maj) = S \cup {a}
    BY <1>8 DEF S, MinorsOf, MinorsIn
  <2> QED
    BY <1>11, <2>1, <2>2
<1>15. Sorted'
  <2>1. \A x \in DOMAIN minors' :
           /\ IsPrev(MinorsIn(minors', minors'[x].block), x, minors'[x].prev)
           /\ IsNext(MinorsIn(minors', minors'[x].block), x, minors'[x].next)
    BY <1>2, <1>13, <1>14
  <2> QED
    BY <1>2, <1>12, <2>1 DEF Sorted
<1> QED
  BY <1>2, <1>6, <1>7, <1>15

\* Blocks taken and given back.
LEMMA BagAdd ==
  ASSUME NEW B, \A c \in DOMAIN B : B[c] = 1, NEW b, b \notin DOMAIN B
  PROVE  /\ DOMAIN (B (+) SetToBag({b})) = DOMAIN B \cup {b}
         /\ \A c \in DOMAIN (B (+) SetToBag({b})) : (B (+) SetToBag({b}))[c] = 1
BY DEF (+), SetToBag

LEMMA BagRemove ==
  ASSUME NEW B, \A c \in DOMAIN B : B[c] = 1, NEW b
  PROVE  /\ DOMAIN (B (-) SetToBag({b})) = DOMAIN B \ {b}
         /\ \A c \in DOMAIN (B (-) SetToBag({b})) : (B (-) SetToBag({b}))[c] = 1
BY DEF (-), SetToBag

\* A block tells its header.
LEMMA BlockFacts ==
  ASSUME NEW mi, NEW a \in Nat, mi[a].req_size \in Nat
  PROVE  /\ BlockAt(mi, a) \in [ptr : Nat, req : Nat, diff : Nat]
         /\ BlockAt(mi, a).ptr = a + MinorSize + BlockAt(mi, a).diff
         /\ BlockAt(mi, a).req = mi[a].req_size
         /\ BlockAt(mi, a).diff \in Nat
         /\ BlockAt(mi, a).diff < ALIGNMENT + ALIGN_INFO
         /\ BlockAt(mi, a).ptr % ALIGNMENT = 0
         /\ MinorOf(BlockAt(mi, a)) = a
<1> DEFINE p == a + MinorSize
           d == AlignDiff(p)
           b == BlockAt(mi, a)
<1>1. p \in Nat
  BY Numbers
<1>2. d \in Nat /\ d < ALIGN_INFO + ALIGNMENT /\ (p + d) % ALIGNMENT = 0
  BY <1>1, AlignFacts
<1>3. b = [ptr |-> p + d, req |-> mi[a].req_size, diff |-> d]
  BY DEF BlockAt
<1> HIDE DEF b
<1>4. b.ptr = p + d /\ b.req = mi[a].req_size /\ b.diff = d
  BY <1>3
<1>5. MinorOf(b) = p + d - d - MinorSize
  BY <1>1, <1>2, <1>4, Numbers DEF MinorOf
<1> HIDE DEF d
<1>6. MinorOf(b) = a
  BY <1>2, <1>5, Numbers
<1>7. b \in [ptr : Nat, req : Nat, diff : Nat]
  BY <1>1, <1>2, <1>3
<1> QED
  BY <1>2, <1>4, <1>6, <1>7, Numbers DEF b

\* The blocks are those of the headers.
LEMMA PlaceKeepsHeld ==
  ASSUME Headers, MajorsApart, MinorsApart, Held, op.req \in Nat,
         NEW a, NEW before, NEW after, Room(a, before, after), Place(a, before, after)
  PROVE  /\ Held'
         /\ BlockAt(minors', a) \notin DOMAIN live
         /\ DOMAIN live' = DOMAIN live \cup {BlockAt(minors', a)}
         /\ live' = live (+) SetToBag({BlockAt(minors', a)})
<1> DEFINE r == BlockAt(minors', a)
<1>1. /\ a \in Nat /\ a \notin DOMAIN minors
      /\ DOMAIN minors' = DOMAIN minors \cup {a}
      /\ minors'[a].req_size = op.req /\ minors'[a].size = Size
      /\ \A x \in DOMAIN minors :
            minors'[x].size = minors[x].size /\ minors'[x].req_size = minors[x].req_size
  <2>1. a \in Nat /\ a \notin DOMAIN minors /\ op.maj \in DOMAIN majors /\ Placed(a, before, after)
    BY PlaceNumbers
  <2> QED
    BY <2>1 DEF Placed
<1>2. r \notin DOMAIN live
  <2> SUFFICES ASSUME r \in DOMAIN live PROVE FALSE
    OBVIOUS
  <2>1. PICK c \in DOMAIN minors : r = BlockAt(minors, c)
    BY DEF Held
  <2>2. MinorOf(r) = a
    BY <1>1, BlockFacts
  <2>3. MinorOf(r) = c
    BY <2>1, HeaderFacts, BlockFacts
  <2> QED
    BY <1>1, <2>2, <2>3
<1>3. live' = live (+) SetToBag({r})
  BY <1>1 DEF Place, BlockAt
<1>4. DOMAIN live' = DOMAIN live \cup {r} /\ \A c \in DOMAIN live' : live'[c] = 1
  <2>1. \A c \in DOMAIN live : live[c] = 1
    BY DEF Held
  <2> HIDE DEF r
  <2>2. /\ DOMAIN (live (+) SetToBag({r})) = DOMAIN live \cup {r}
        /\ \A c \in DOMAIN (live (+) SetToBag({r})) : (live (+) SetToBag({r}))[c] = 1
    BY <1>2, <2>1, BagAdd
  <2> QED
    BY <1>3, <2>2
<1>5. \A x \in DOMAIN minors : BlockAt(minors', x) = BlockAt(minors, x)
  BY <1>1 DEF BlockAt
<1>6. DOMAIN live' = {BlockAt(minors', x) : x \in DOMAIN minors'}
  <2>1. DOMAIN live = {BlockAt(minors, x) : x \in DOMAIN minors}
    BY DEF Held
  <2>2. {BlockAt(minors', x) : x \in DOMAIN minors'}
          = {BlockAt(minors', x) : x \in DOMAIN minors} \cup {r}
    BY <1>1
  <2>3. {BlockAt(minors', x) : x \in DOMAIN minors} = {BlockAt(minors, x) : x \in DOMAIN minors}
    BY <1>5
  <2> QED
    BY <1>4, <2>1, <2>2, <2>3
<1>7. \A x \in DOMAIN minors' : minors'[x].req_size + ALIGNMENT + ALIGN_INFO <= minors'[x].size
  BY <1>1, SizeFacts, Numbers DEF Held
<1> QED
  BY <1>2, <1>3, <1>4, <1>6, <1>7 DEF Held

\* The sums.
LEMMA PlaceKeepsSums ==
  ASSUME Headers, MajorsApart, MinorsApart, Accounting, op.req \in Nat,
         NEW a, NEW before, NEW after, Room(a, before, after), Place(a, before, after)
  PROVE  Accounting'
<1>1. /\ a \in Nat /\ a \notin DOMAIN minors /\ op.maj \in DOMAIN majors
      /\ DOMAIN minors' = DOMAIN minors \cup {a}
      /\ DOMAIN majors' = DOMAIN majors
      /\ minors'[a].size = Size
      /\ \A x \in DOMAIN minors : minors'[x].size = minors[x].size
      /\ \A k \in DOMAIN majors :
            /\ majors'[k].size = majors[k].size
            /\ majors'[k].usage = IF k = op.maj THEN majors[k].usage + Need
                                  ELSE majors[k].usage
  <2>1. a \in Nat /\ a \notin DOMAIN minors /\ op.maj \in DOMAIN majors /\ Placed(a, before, after)
    BY PlaceNumbers
  <2> QED
    BY <2>1 DEF Placed
<1>2. \A k : MinorsIn(minors', k) = IF k = op.maj THEN MinorsIn(minors, k) \cup {a}
                                    ELSE MinorsIn(minors, k)
  BY PlaceMinors
<1>3. l_allocated' = l_allocated /\ l_inuse' = l_inuse + Size
  BY DEF Place
<1> DEFINE size == [m \in DOMAIN majors |-> majors[m].size]
           used == [x \in DOMAIN minors |-> minors[x].size]
           whole == [x \in DOMAIN minors |-> minors[x].size + MinorSize]
<1>4. size' = size
  BY <1>1
<1>5. SumOver(used', DOMAIN minors') = Size + SumOver(used, DOMAIN minors)
  <2>1. \A x \in DOMAIN minors : used'[x] = used[x] /\ used[x] \in Int
    BY <1>1, HeaderFacts
  <2>2. used'[a] = Size /\ Size \in Int
    BY <1>1, SizeFacts
  <2>3. IsFiniteSet(DOMAIN minors)
    BY DEF Headers
  <2> HIDE DEF used
  <2>4. SumOver(used', DOMAIN minors \cup {a}) = used'[a] + SumOver(used', DOMAIN minors)
    BY <1>1, <2>1, <2>2, <2>3, SumAdd
  <2>5. SumOver(used', DOMAIN minors) = SumOver(used, DOMAIN minors)
    BY <2>1, <2>3, SumAgree
  <2> QED
    BY <1>1, <2>2, <2>4, <2>5
<1>6. ASSUME NEW k \in DOMAIN majors
      PROVE  majors'[k].usage = MajorSize + SumOver(whole', MinorsIn(minors', k))
  <2>1. majors[k].usage = MajorSize + SumOver(whole, MinorsIn(minors, k))
    BY DEF Accounting, MinorsOf, MinorsIn
  <2> DEFINE S == MinorsIn(minors, k)
  <2>2. \A x \in S : whole'[x] = whole[x] /\ whole[x] \in Int
    <3>1. S \subseteq DOMAIN minors
      BY DEF MinorsIn
    <3>2. \A x \in DOMAIN minors : whole'[x] = whole[x] /\ whole[x] = minors[x].size + MinorSize
      BY <1>1
    <3>3. \A x \in DOMAIN minors : minors[x].size \in Nat
      BY HeaderFacts
    <3> HIDE DEF whole, S
    <3> QED
      BY <3>1, <3>2, <3>3, Numbers
  <2>3. whole'[a] = Need /\ Need \in Int
    BY <1>1, SizeFacts
  <2>4. IsFiniteSet(S) /\ a \notin S
    <3>1. S = MinorsOf(k) /\ S \subseteq DOMAIN minors
      BY DEF MinorsIn, MinorsOf
    <3> HIDE DEF S
    <3>2. IsFiniteSet(S)
      BY <3>1, HeaderFacts
    <3> QED
      BY <1>1, <3>1, <3>2
  <2>5. MinorsIn(minors', k) = IF k = op.maj THEN S \cup {a} ELSE S
    BY <1>2
  <2>6. majors'[k].usage = IF k = op.maj THEN majors[k].usage + Need ELSE majors[k].usage
    BY <1>1
  <2> HIDE DEF whole, S
  <2>7. SumOver(whole', S) = SumOver(whole, S) /\ SumOver(whole, S) \in Int
    BY <2>2, <2>4, SumAgree, SumType
  <2>8. SumOver(whole', S \cup {a}) = whole'[a] + SumOver(whole', S)
    BY <2>2, <2>3, <2>4, SumAdd
  <2> QED
    BY <2>1, <2>3, <2>5, <2>6, <2>7, <2>8, Numbers DEF S
<1>7. \A k \in DOMAIN majors' : majors'[k].usage = MajorSize + SumOver(whole', MinorsOf(k)')
  BY <1>1, <1>6 DEF MinorsOf, MinorsIn
<1>8. l_allocated = SumOver(size, DOMAIN majors) /\ l_inuse = SumOver(used, DOMAIN minors)
  BY DEF Accounting
<1>9. l_inuse' = SumOver(used', DOMAIN minors')
  <2>1. SumOver(used, DOMAIN minors) \in Int /\ Size \in Int
    <3>1. \A x \in DOMAIN minors : used[x] \in Int
      BY HeaderFacts
    <3> HIDE DEF used
    <3> QED
      BY <3>1, SizeFacts, SumType DEF Headers
  <2> HIDE DEF used
  <2> QED
    BY <1>3, <1>5, <1>8, <2>1
<1> QED
  BY <1>1, <1>3, <1>4, <1>7, <1>8, <1>9 DEF Accounting

\* The list of the majors is what it was if their pointers are.
LEMMA OrderKept ==
  ASSUME DOMAIN majors' = DOMAIN majors, l_memRoot' = l_memRoot,
         \A k \in DOMAIN majors :
            majors'[k].prev = majors[k].prev /\ majors'[k].next = majors[k].next,
         NEW order \in [1 .. Cardinality(DOMAIN majors) -> DOMAIN majors],
         IsMajorList(order)
  PROVE  IsMajorList(order)'
<1> DEFINE n == Cardinality(DOMAIN majors)
<1>1. \A i \in 1 .. n : order[i] \in DOMAIN majors
  OBVIOUS
<1>2. Cardinality(DOMAIN majors') = n
  OBVIOUS
<1>3. /\ \A m \in DOMAIN majors : \E i \in 1 .. n : order[i] = m
      /\ l_memRoot = IF n = 0 THEN NULL ELSE order[1]
      /\ \A i \in 1 .. n :
            /\ majors[order[i]].prev = IF i = 1 THEN NULL ELSE order[i - 1]
            /\ majors[order[i]].next = IF i = n THEN NULL ELSE order[i + 1]
  BY DEF IsMajorList
<1> HIDE DEF n
<1>4. \A i \in 1 .. n :
         /\ majors'[order[i]].prev = IF i = 1 THEN NULL ELSE order[i - 1]
         /\ majors'[order[i]].next = IF i = n THEN NULL ELSE order[i + 1]
  BY <1>1, <1>3
<1> QED
  BY <1>2, <1>3, <1>4 DEF IsMajorList

\* The call is over, or only the block it moves is left to be freed.
LEMMA AfterReturn ==
  ASSUME Calling, Walked, Return,
         DOMAIN live \subseteq DOMAIN live',
         DOMAIN majors' = DOMAIN majors, l_memRoot' = l_memRoot, l_bestBet' = l_bestBet,
         \A k \in DOMAIN majors :
            majors'[k].prev = majors[k].prev /\ majors'[k].next = majors[k].next,
         \A k \in DOMAIN majors : majors'[k].first # NULL,
         ~ At("idle")
  PROVE  Calling' /\ Walked'
<1> DEFINE OpRec(L) == [phase : Phases, req : Nat, old : SUBSET L, maj : Nat, min : Nat,
                        startedBet : BOOLEAN, bestSize : Int]
<1>1. /\ op \in OpRec(DOMAIN live)
      /\ l_bestBet \in DOMAIN majors \cup {NULL}
      /\ op.req > 0
  BY DEF Calling
<1>2. /\ op' \in OpRec(DOMAIN live')
      /\ op'.phase = "idle" => op'.old = {}
      /\ op'.phase # "idle" => op'.req > 0
      /\ op'.phase \in {"idle", "release"}
  <2>1. CASE op.old = {}
    <3>1. op' = Idle
      BY <2>1 DEF Return
    <3> QED
      BY <3>1 DEF Idle, Phases, NULL
  <2>2. CASE op.old # {}
    <3>1. op' = [op EXCEPT !.phase = "release"]
      BY <2>2 DEF Return
    <3>2. op' \in OpRec(DOMAIN live)
      BY <1>1, <3>1 DEF Phases
    <3>3. op'.phase = "release" /\ op'.req = op.req
      BY <1>1, <3>1
    <3>4. op' \in OpRec(DOMAIN live')
      BY <3>2
    <3> HIDE DEF OpRec
    <3> QED
      BY <1>1, <3>3, <3>4
  <2> QED
    BY <2>1, <2>2
<1>3. PICK order \in [1 .. Cardinality(DOMAIN majors) -> DOMAIN majors] : IsMajorList(order)
  BY DEF Walked
<1>4. IsMajorList(order)'
  BY <1>3, OrderKept
<1>5. order \in [1 .. Cardinality(DOMAIN majors') -> DOMAIN majors']
  BY <1>3
<1>6. Calling'
  BY <1>1, <1>2 DEF Calling, At, InMajor
<1>7. Walked'
  <2>1. op'.phase \notin InMajor /\ op'.phase \notin {"bet", "next", "minor"}
    BY <1>2 DEF InMajor
  <2> QED
    BY <1>4, <1>5, <2>1 DEF Walked, At
<1> QED
  BY <1>6, <1>7

\* A step that places a header.
LEMMA PlaceStep ==
  ASSUME IInv, op.phase \in {"empty", "front", "minor"},
         NEW a, NEW before, NEW after, Room(a, before, after), Place(a, before, after)
  PROVE  IInv'
<1>1. Headers /\ MajorsApart /\ MinorsApart /\ Sorted /\ Held /\ Accounting /\ Calling
      /\ Walked
  BY DEF IInv
<1>2. op.req \in Nat
  BY <1>1 DEF Calling
<1>3. Headers' /\ MajorsApart' /\ MinorsApart' /\ Sorted'
  BY <1>1, <1>2, PlaceKeepsLayout
<1>4. Held' /\ DOMAIN live' = DOMAIN live \cup {BlockAt(minors', a)}
  BY <1>1, <1>2, PlaceKeepsHeld
<1>5. Accounting'
  BY <1>1, <1>2, PlaceKeepsSums
<1>6. /\ a > 0 /\ op.maj \in DOMAIN majors
      /\ before = NULL \/ before \in MinorsOf(op.maj)
      /\ DOMAIN majors' = DOMAIN majors
      /\ \A k \in DOMAIN majors :
            /\ majors'[k].prev = majors[k].prev /\ majors'[k].next = majors[k].next
            /\ majors'[k].first = IF k = op.maj /\ before = NULL THEN a
                                  ELSE majors[k].first
  <2>1. /\ a > 0 /\ op.maj \in DOMAIN majors
        /\ before = NULL \/ before \in MinorsOf(op.maj)
        /\ Placed(a, before, after)
    BY <1>1, <1>2, PlaceNumbers
  <2> QED
    BY <2>1 DEF Placed
<1>7. ASSUME NEW k \in DOMAIN majors
      PROVE  majors'[k].first # NULL
  <2>1. CASE k = op.maj /\ before = NULL
    BY <1>6, <2>1 DEF NULL
  <2>2. CASE k = op.maj /\ before # NULL
    <3>1. before \in MinorsIn(minors, k) /\ before \in Nat /\ before > 0
      BY <1>1, <1>6, <2>2, HeaderFacts DEF MinorsOf, MinorsIn
    <3>2. IsNext(MinorsIn(minors, k), 0, majors[k].first)
      BY <1>1 DEF Sorted
    <3>3. majors[k].first # NULL
      BY <1>1, <3>1, <3>2, HeaderFacts DEF IsNext, NULL, MinorsIn
    <3> QED
      BY <1>6, <2>2, <3>3
  <2>3. CASE k # op.maj
    <3>1. majors[k].first # NULL
      BY <1>1, <2>3 DEF Calling, At
    <3> QED
      BY <1>6, <2>3, <3>1
  <2> QED
    BY <2>1, <2>2, <2>3
<1>8. Return /\ l_memRoot' = l_memRoot /\ l_bestBet' = l_bestBet
  BY DEF Place
<1>9. ~ At("idle")
  BY DEF At
<1>10. Calling' /\ Walked'
  BY <1>1, <1>4, <1>6, <1>7, <1>8, <1>9, AfterReturn
<1> QED
  BY <1>3, <1>4, <1>5, <1>10 DEF IInv

\* A header is placed where there is room for it.
Placing == /\ op.phase \in {"empty", "front", "minor"}
           /\ \E a, before, after : Room(a, before, after) /\ Place(a, before, after)

LEMMA PlacingStep ==
  ASSUME IInv, Placing
  PROVE  IInv'
BY PlaceStep DEF Placing

LEMMA PlaceInEmptyPlaces ==
  ASSUME IInv, PlaceInEmpty
  PROVE  Placing
<1> DEFINE m == op.maj
           a == op.maj + MajorSize
           S == MinorsOf(op.maj)
<1>1. Headers /\ MajorsApart /\ MinorsApart /\ Sorted /\ Accounting /\ Calling
  BY DEF IInv
<1>2. At("empty") /\ Place(a, NULL, NULL)
  BY DEF PlaceInEmpty
<1>3. /\ m \in DOMAIN majors /\ FreeIn(m) >= Need /\ majors[m].first = NULL /\ op.req \in Nat
  BY <1>1, <1>2 DEF Calling, At, InMajor
<1>4. S = {}
  <2>1. IsNext(S, 0, NULL)
    BY <1>1, <1>3 DEF Sorted, MinorsOf, MinorsIn
  <2>2. \A x \in S : x \in Nat /\ x > 0
    BY <1>1, HeaderFacts
  <2> HIDE DEF S
  <2> QED
    BY <2>1, <2>2 DEF IsNext, NULL
<1>5. FreeIn(m) = majors[m].size - MajorSize
  BY <1>1, <1>3, <1>4, UsageBound
<1>6. m \in Nat /\ majors[m].size \in Nat /\ Need \in Nat /\ EndOfMajor(m) = m + majors[m].size
  BY <1>1, <1>3, HeaderFacts, SizeFacts DEF EndOfMajor
<1>7. a \in Nat /\ a + Need <= EndOfMajor(m)
  BY <1>3, <1>5, <1>6, Numbers
<1>8. Room(a, NULL, NULL)
  BY <1>3, <1>4, <1>7, <1>6, Numbers DEF Room, IsPrev, IsNext
<1>9. op.phase \in {"empty", "front", "minor"}
  BY <1>2 DEF At
<1> QED
  BY <1>2, <1>8, <1>9 DEF Placing

\* A major that is not being started has minors.
LEMMA FirstMinor ==
  ASSUME Headers, MinorsApart, Sorted, Calling, NEW m \in DOMAIN majors,
         op.phase \notin {"bet", "major", "empty"}
  PROVE  /\ majors[m].first \in MinorsOf(m) /\ majors[m].first \in Nat
         /\ \A x \in MinorsOf(m) : majors[m].first <= x
<1>1. majors[m].first # NULL
  BY DEF Calling, At
<1>2. IsNext(MinorsOf(m), 0, majors[m].first)
  BY DEF Sorted, MinorsOf, MinorsIn
<1>3. \A x \in MinorsOf(m) : x \in Nat /\ x > 0
  BY HeaderFacts
<1> QED
  BY <1>1, <1>2, <1>3 DEF IsNext

LEMMA PlaceInFrontPlaces ==
  ASSUME IInv, PlaceInFront
  PROVE  Placing
<1> DEFINE m == op.maj
           a == op.maj + MajorSize
           S == MinorsOf(op.maj)
           first == majors[op.maj].first
<1>1. Headers /\ MajorsApart /\ MinorsApart /\ Sorted /\ Accounting /\ Calling
  BY DEF IInv
<1>2. At("front") /\ FrontGap(m) >= Need /\ Place(a, NULL, first)
  BY DEF PlaceInFront
<1>3. m \in DOMAIN majors /\ op.req \in Nat
  BY <1>1, <1>2 DEF Calling, At, InMajor
<1>4. first \in S /\ first \in Nat /\ \A x \in S : first <= x
  BY <1>1, <1>2, <1>3, FirstMinor DEF At
<1>5. m \in Nat /\ Need \in Nat /\ Need > 0 /\ a \in Nat
  BY <1>1, <1>3, HeaderFacts, SizeFacts, Numbers
<1>6. a + Need <= first /\ a < first
  BY <1>2, <1>4, <1>5, Numbers DEF FrontGap
<1>7. /\ \A x \in S : x \in Nat /\ x > 0
      /\ first < EndOf(first) /\ EndOf(first) <= EndOfMajor(m)
      /\ EndOf(first) \in Nat /\ EndOfMajor(m) \in Nat
  BY <1>1, <1>3, <1>4, HeaderFacts, WholeFacts
<1>8. a + Need <= EndOfMajor(m)
  BY <1>4, <1>5, <1>6, <1>7
<1>9. Room(a, NULL, first)
  <2> HIDE DEF S, first
  <2>1. \A x \in S : a + Need <= x /\ a <= x
    BY <1>4, <1>5, <1>6, <1>7
  <2>2. IsPrev(S, a, NULL)
    BY <2>1 DEF IsPrev
  <2>3. IsNext(S, a, first)
    BY <1>4, <1>6 DEF IsNext
  <2> QED
    BY <1>3, <1>5, <1>8, <2>1, <2>2, <2>3 DEF Room, S
<1>10. op.phase \in {"empty", "front", "minor"}
  BY <1>2 DEF At
<1> QED
  BY <1>2, <1>9, <1>10 DEF Placing

LEMMA PlaceBehindPlaces ==
  ASSUME IInv, PlaceBehind
  PROVE  Placing
<1> DEFINE m == op.maj
           c == op.min
           a == EndOf(op.min)
           S == MinorsOf(op.maj)
           next == minors[op.min].next
<1>1. Headers /\ MajorsApart /\ MinorsApart /\ Sorted /\ Accounting /\ Calling
  BY DEF IInv
<1>2. At("minor") /\ GapBehind(c) >= Need /\ Place(a, c, next)
  BY DEF PlaceBehind
<1>3. m \in DOMAIN majors /\ op.req \in Nat /\ c \in S
  BY <1>1, <1>2 DEF Calling, At, InMajor
<1>4. c \in DOMAIN minors /\ minors[c].block = m
  BY <1>3 DEF MinorsOf
<1>5. IsNext(S, c, next)
  BY <1>1, <1>4 DEF Sorted, MinorsOf, MinorsIn
<1>6. /\ \A x \in S : x \in Nat /\ x > 0 /\ x < EndOf(x) /\ EndOf(x) \in Nat
      /\ \A x \in S : m + MajorSize <= x /\ EndOf(x) <= EndOfMajor(m)
      /\ \A x, y \in S : x < y => EndOf(x) <= y
      /\ m \in Nat /\ EndOfMajor(m) \in Nat /\ Need \in Nat /\ Need > 0
      /\ EndOfMajor(m) = m + majors[m].size
  BY <1>1, <1>3, HeaderFacts, WholeFacts, SizeFacts DEF EndOfMajor
<1>7. a \in Nat /\ c < a /\ a = EndOf(c)
  BY <1>3, <1>6
<1>8. GapBehind(c) = (IF next = NULL THEN EndOfMajor(m) ELSE next) - a
  BY <1>4, <1>6 DEF GapBehind
<1> HIDE DEF m, c, a, S, next
<1>9. Room(a, c, next)
  <2>1. CASE next = NULL
    <3>1. \A x \in S : x <= c
      BY <1>3, <1>5, <1>6, <2>1 DEF IsNext, NULL
    <3>2. \A x \in S : EndOf(x) <= a
      BY <1>3, <1>6, <1>7, <3>1
    <3>3. a + Need <= EndOfMajor(m)
      BY <1>2, <1>6, <1>7, <1>8, <2>1
    <3>4. IsPrev(S, a, c)
      BY <1>3, <1>6, <1>7, <3>1 DEF IsPrev
    <3>5. IsNext(S, a, next)
      BY <1>3, <1>6, <1>7, <2>1, <3>1 DEF IsNext
    <3>6. m + MajorSize <= a
      BY <1>3, <1>6, <1>7, Numbers
    <3> QED
      BY <1>3, <1>7, <3>2, <3>3, <3>4, <3>5, <3>6 DEF Room, S, m
  <2>2. CASE next # NULL
    <3>1. next \in S /\ c < next /\ \A x \in S : x <= c \/ next <= x
      BY <1>5, <2>2 DEF IsNext
    <3>2. a + Need <= next /\ a < next
      BY <1>2, <1>6, <1>7, <1>8, <2>2, <3>1
    <3>3. \A x \in S : EndOf(x) <= a \/ a + Need <= x
      BY <1>3, <1>6, <1>7, <3>1, <3>2
    <3>4. a + Need <= EndOfMajor(m)
      BY <1>6, <1>7, <3>1, <3>2
    <3>5. IsPrev(S, a, c)
      BY <1>3, <1>6, <1>7, <3>1, <3>2 DEF IsPrev
    <3>6. IsNext(S, a, next)
      BY <1>3, <1>6, <1>7, <3>1, <3>2 DEF IsNext
    <3>7. m + MajorSize <= a
      BY <1>3, <1>6, <1>7, Numbers
    <3> QED
      BY <1>3, <1>7, <3>3, <3>4, <3>5, <3>6, <3>7 DEF Room, S, m
  <2> QED
    BY <2>1, <2>2
<1>10. op.phase \in {"empty", "front", "minor"}
  BY <1>2 DEF At
<1> QED
  BY <1>2, <1>9, <1>10 DEF Placing

-----------------------------------------------------------------------------
(* The walk.                                                               *)

\* No room in a major is larger than what its usage leaves.
LEMMA GapsBound ==
  ASSUME Headers, MajorsApart, MinorsApart, Sorted, Accounting, NEW m \in DOMAIN majors
  PROVE  \A gap \in Gaps(m) : gap \in Int /\ gap <= FreeIn(m)
<1> DEFINE S == MinorsOf(m)
           first == majors[m].first
<1>1. /\ \A x \in S : x \in Nat /\ x > 0 /\ x < EndOf(x) /\ EndOf(x) \in Nat
      /\ \A x \in S : m + MajorSize <= x /\ EndOf(x) <= EndOfMajor(m)
      /\ \A x, y \in S : x < y => EndOf(x) <= y
      /\ m \in Nat /\ EndOfMajor(m) \in Nat
      /\ EndOfMajor(m) = m + majors[m].size
      /\ majors[m].size \in Nat
  BY HeaderFacts, WholeFacts DEF EndOfMajor
<1>2. IsNext(S, 0, first)
  BY DEF Sorted, MinorsOf, MinorsIn
<1>3. m + MajorSize \in Nat
  BY <1>1, Numbers
<1>4. CASE first = NULL
  <2>1. S = {}
    <3> HIDE DEF S, first
    <3> QED
      BY <1>1, <1>2, <1>4 DEF IsNext, NULL
  <2>2. FreeIn(m) = majors[m].size - MajorSize
    BY <2>1, UsageBound
  <2>3. Gaps(m) = {majors[m].size - MajorSize}
    BY <1>4 DEF Gaps
  <2> QED
    BY <1>1, <2>2, <2>3, Numbers
<1>5. CASE first # NULL
  <2>1. first \in S /\ \A x \in S : first <= x
    <3> HIDE DEF S, first
    <3> QED
      BY <1>1, <1>2, <1>5 DEF IsNext
  <2>2. FrontGap(m) \in Int /\ FrontGap(m) <= FreeIn(m)
    <3> DEFINE g == m + MajorSize
               len == FrontGap(m)
    <3>1. len = first - m - MajorSize
      BY DEF FrontGap
    <3> HIDE DEF S, first, len
    <3>2. len \in Nat /\ g + len = first
      BY <1>1, <1>3, <2>1, <3>1, Numbers
    <3>3. g + len <= EndOfMajor(m)
      BY <1>1, <2>1, <3>2
    <3>4. \A c \in MinorsOf(m) : EndOf(c) <= g \/ g + len <= c
      BY <2>1, <3>2 DEF S
    <3>5. g \in Nat /\ m + MajorSize <= g
      BY <1>3
    <3> HIDE DEF g
    <3>6. len <= FreeIn(m)
      BY <3>2, <3>3, <3>4, <3>5, FreeBound
    <3> QED
      BY <3>2, <3>6 DEF len
  <2>3. ASSUME NEW a \in S
        PROVE  GapBehind(a) \in Int /\ GapBehind(a) <= FreeIn(m)
    <3> DEFINE g == EndOf(a)
               len == GapBehind(a)
               next == minors[a].next
    <3>1. a \in DOMAIN minors /\ minors[a].block = m
      BY DEF MinorsOf
    <3>2. IsNext(S, a, next)
      BY <3>1 DEF Sorted, MinorsOf, MinorsIn
    <3>3. len = (IF next = NULL THEN EndOfMajor(m) ELSE next) - g
      BY <1>1, <3>1 DEF GapBehind
    <3>4. g \in Nat /\ a < g /\ g <= EndOfMajor(m) /\ m + MajorSize <= g /\ g = EndOf(a)
          /\ a \in Nat
      BY <1>1, <1>3
    <3> HIDE DEF S, next, g, len
    <3>5. /\ len \in Nat /\ g + len <= EndOfMajor(m)
          /\ \A c \in S : EndOf(c) <= g \/ g + len <= c
      <4>1. CASE next = NULL
        <5>1. \A c \in S : c <= a
          BY <1>1, <3>2, <3>4, <4>1 DEF IsNext, NULL
        <5>2. \A c \in S : EndOf(c) <= g
          BY <1>1, <3>4, <5>1
        <5> QED
          BY <1>1, <3>3, <3>4, <4>1, <5>2
      <4>2. CASE next # NULL
        <5>1. next \in S /\ a < next /\ \A c \in S : c <= a \/ next <= c
          BY <3>2, <4>2 DEF IsNext
        <5>2. g <= next /\ next \in Nat
          BY <1>1, <3>4, <5>1
        <5>3. g + len = next /\ len \in Nat
          BY <3>3, <3>4, <4>2, <5>2
        <5>4. \A c \in S : c <= a => EndOf(c) <= g
          BY <1>1, <3>4
        <5> QED
          BY <1>1, <5>1, <5>2, <5>3, <5>4
      <4> QED
        BY <4>1, <4>2
    <3>6. len <= FreeIn(m)
      BY <3>4, <3>5, FreeBound DEF S
    <3> QED
      BY <3>5, <3>6 DEF len
  <2>4. Gaps(m) = {FrontGap(m)} \cup {GapBehind(a) : a \in MinorsOf(m)}
    BY <1>5 DEF Gaps
  <2> QED
    BY <2>2, <2>3, <2>4
<1> QED
  BY <1>4, <1>5

\* A major whose usage leaves too little has no room.
LEMMA FullByUsage ==
  ASSUME Headers, MajorsApart, MinorsApart, Sorted, Accounting, NEW m \in DOMAIN majors,
         op.req \in Nat, FreeIn(m) < Need
  PROVE  Full(m)
<1>1. FreeIn(m) \in Nat
  BY UsageBound
<1>2. \A gap \in Gaps(m) : gap \in Int /\ gap <= FreeIn(m)
  BY GapsBound
<1>3. Need \in Nat
  BY SizeFacts
<1> QED
  BY <1>1, <1>2, <1>3 DEF Full

\* What holds of the headers, the blocks and the sums, holds after a step that
\* leaves them alone.
LEMMA LayoutKept ==
  ASSUME IInv, UNCHANGED <<majors, minors, counters, brk_limit, live>>
  PROVE  Headers' /\ MajorsApart' /\ MinorsApart' /\ Sorted' /\ Held' /\ Accounting'
<1>1. /\ majors' = majors /\ minors' = minors /\ l_allocated' = l_allocated
      /\ l_inuse' = l_inuse /\ brk_limit' = brk_limit /\ live' = live
  BY DEF counters
<1>2. Headers /\ MajorsApart /\ MinorsApart /\ Sorted /\ Held /\ Accounting
  BY DEF IInv
<1>3. Headers'
  BY <1>1, <1>2 DEF Headers
<1>4. MajorsApart'
  BY <1>1, <1>2 DEF MajorsApart, EndOfMajor
<1>5. MinorsApart'
  BY <1>1, <1>2 DEF MinorsApart, EndOf
<1>6. Sorted'
  BY <1>1, <1>2 DEF Sorted
<1>7. Held'
  BY <1>1, <1>2 DEF Held
<1>8. Accounting'
  BY <1>1, <1>2 DEF Accounting, MinorsOf
<1> QED
  BY <1>3, <1>4, <1>5, <1>6, <1>7, <1>8

\* So does what a walk has seen.
LEMMA SeenKept ==
  ASSUME UNCHANGED <<majors, minors>>, op'.req = op.req
  PROVE  /\ Need' = Need
         /\ \A m : FreeIn(m)' = FreeIn(m) /\ FrontGap(m)' = FrontGap(m)
                   /\ MinorsOf(m)' = MinorsOf(m) /\ Gaps(m)' = Gaps(m)
                   /\ Full(m)' = Full(m)
         /\ \A a : GapBehind(a)' = GapBehind(a)
<1>1. majors' = majors /\ minors' = minors
  OBVIOUS
<1>2. Need' = Need
  BY DEF Need, Size
<1>3. \A a : GapBehind(a)' = GapBehind(a)
  BY <1>1 DEF GapBehind, EndOf
<1>4. ASSUME NEW m
      PROVE  FreeIn(m)' = FreeIn(m) /\ FrontGap(m)' = FrontGap(m)
             /\ MinorsOf(m)' = MinorsOf(m)
  BY <1>1 DEF FreeIn, FrontGap, MinorsOf
<1>5. ASSUME NEW m
      PROVE  Gaps(m)' = Gaps(m)
  BY <1>1, <1>3, <1>4 DEF Gaps
<1>6. ASSUME NEW m
      PROVE  Full(m)' = Full(m)
  BY <1>2, <1>5 DEF Full
<1> QED
  BY <1>2, <1>3, <1>4, <1>5, <1>6

\* The type of op when the blocks of L are held.
OpRec(L) == [phase : Phases, req : Nat, old : SUBSET L, maj : Nat, min : Nat,
             startedBet : BOOLEAN, bestSize : Int]

\* What is to be shown of a step that only changes op and the best bet.
LEMMA WalkStep ==
  ASSUME IInv, UNCHANGED <<majors, minors, l_memRoot, counters, brk_limit, live>>,
         op' \in OpRec(DOMAIN live),
         op'.phase # "idle", op'.req > 0,
         op'.phase \in InMajor => op'.maj \in DOMAIN majors,
         \A m \in DOMAIN majors :
            majors[m].first = NULL =>
               /\ FreeIn(m) >= Need'
               /\ \/ op'.phase = "bet" /\ DOMAIN majors = {m}
                  \/ op'.phase \in {"major", "empty"} /\ op'.maj = m,
         op'.phase = "empty" => majors[op'.maj].first = NULL,
         op'.phase = "minor" => op'.min \in MinorsIn(minors, op'.maj),
         l_bestBet' \in DOMAIN majors \cup {NULL},
         Walked'
  PROVE  IInv'
<1>1. Headers' /\ MajorsApart' /\ MinorsApart' /\ Sorted' /\ Held' /\ Accounting'
  BY LayoutKept
<1>2. majors' = majors /\ minors' = minors /\ live' = live
  OBVIOUS
<1>3. \A m : FreeIn(m)' = FreeIn(m)
  BY <1>2 DEF FreeIn
<1>4. op'.phase = "empty" => /\ op'.maj \in DOMAIN majors
                             /\ majors[op'.maj].size - majors[op'.maj].usage >= Need'
  BY DEF InMajor, FreeIn
<1>5. Calling'
  BY <1>2, <1>3, <1>4 DEF Calling, At, OpRec, MinorsOf, MinorsIn, FreeIn
<1> QED
  BY <1>1, <1>5 DEF IInv

\* A step into a phase in which no major is walked through.
LEMMA NotWalking ==
  ASSUME IInv, UNCHANGED <<majors, minors, l_memRoot>>, op'.phase \in {"root", "bet"},
         op'.phase = "bet" => l_memRoot # NULL
  PROVE  Walked'
<1>1. PICK order \in [1 .. Cardinality(DOMAIN majors) -> DOMAIN majors] : IsMajorList(order)
  BY DEF IInv, Walked
<1>2. IsMajorList(order)'
  BY <1>1, OrderKept
<1>3. order \in [1 .. Cardinality(DOMAIN majors') -> DOMAIN majors']
  BY <1>1
<1> QED
  BY <1>2, <1>3 DEF Walked, At, InMajor

\* The walk is at the k-th major of the list.
Position(order, k) ==
    /\ order \in [1 .. Cardinality(DOMAIN majors) -> DOMAIN majors]
    /\ IsMajorList(order)
    /\ k \in 1 .. Cardinality(DOMAIN majors)

LEMMA Walking ==
  ASSUME IInv, UNCHANGED <<majors, minors, l_memRoot>>,
         NEW order, NEW k, Position(order, k), order[k] = op'.maj,
         ~ op'.startedBet => \A j \in 1 .. k - 1 : Full(order[j])',
         op'.phase # "bet",
         op'.phase = "next" => Full(order[k])',
         op'.phase = "minor" => /\ FrontGap(order[k]) < Need'
                                /\ \A c \in MinorsOf(order[k]) :
                                      c < op'.min => GapBehind(c) < Need'
  PROVE  Walked'
<1>1. majors' = majors /\ minors' = minors
  OBVIOUS
<1>2. IsMajorList(order)'
  BY OrderKept DEF Position
<1>3. order \in [1 .. Cardinality(DOMAIN majors') -> DOMAIN majors']
  BY DEF Position
<1>4. \E i \in 1 .. Cardinality(DOMAIN majors') :
         /\ order[i] = op'.maj
         /\ ~ op'.startedBet => \A j \in 1 .. i - 1 : Full(order[j])'
  BY DEF Position
<1>5. op'.phase = "next" => Full(op.maj)'
  <2> DEFINE m == order[k]
  <2>1. m = op'.maj
    OBVIOUS
  <2>2. Full(m)' = \A gap \in Gaps(m)' : gap < Need'
    BY DEF Full
  <2>3. Full(op.maj)' = \A gap \in Gaps(op.maj)' : gap < Need'
    BY DEF Full
  <2>4. Gaps(m)' = Gaps(op.maj)'
    BY <2>1 DEF Gaps, FrontGap, MinorsOf
  <2> QED
    BY <2>2, <2>3, <2>4
<1>6. op'.phase = "minor" => /\ FrontGap(op.maj)' < Need'
                             /\ \A c \in MinorsOf(op.maj)' :
                                   c < op'.min => GapBehind(c)' < Need'
  <2> SUFFICES ASSUME op'.phase = "minor"
               PROVE  /\ FrontGap(op.maj)' < Need'
                      /\ \A c \in MinorsOf(op.maj)' : c < op'.min => GapBehind(c)' < Need'
    OBVIOUS
  <2>1. FrontGap(op.maj)' = FrontGap(order[k])
    BY <1>1 DEF FrontGap
  <2>2. MinorsOf(op.maj)' = MinorsOf(order[k])
    BY <1>1 DEF MinorsOf
  <2>3. \A c : GapBehind(c)' = GapBehind(c)
    BY <1>1 DEF GapBehind, EndOf
  <2> QED
    BY <2>1, <2>2, <2>3
<1> QED
  BY <1>2, <1>3, <1>4, <1>5, <1>6 DEF Walked, At

\* Where the walk is.
LEMMA WhereItIs ==
  ASSUME IInv, op.phase \in InMajor
  PROVE  \E order, k : /\ Position(order, k) /\ order[k] = op.maj
                       /\ ~ op.startedBet => \A j \in 1 .. k - 1 : Full(order[j])
BY DEF IInv, Walked, Position

\* The first major of a heap that is not empty.
LEMMA RootMajor ==
  ASSUME Headers, NEW order, IsMajorList(order),
         order \in [1 .. Cardinality(DOMAIN majors) -> DOMAIN majors],
         l_memRoot # NULL \/ DOMAIN majors # {}
  PROVE  /\ Position(order, 1) /\ order[1] = l_memRoot /\ l_memRoot \in DOMAIN majors
         /\ Cardinality(DOMAIN majors) \in Nat \ {0}
<1>1. Cardinality(DOMAIN majors) \in Nat
  BY FS_CardinalityType DEF Headers
<1>2. Cardinality(DOMAIN majors) # 0
  <2>1. CASE l_memRoot # NULL
    BY <2>1 DEF IsMajorList
  <2>2. CASE DOMAIN majors # {}
    BY <2>2, FS_EmptySet DEF Headers
  <2> QED
    BY <2>1, <2>2
<1>3. 1 \in 1 .. Cardinality(DOMAIN majors)
  BY <1>1, <1>2
<1>4. order[1] = l_memRoot
  BY <1>2 DEF IsMajorList
<1> QED
  BY <1>1, <1>2, <1>3, <1>4 DEF Position

LEMMA OpFacts ==
  ASSUME IInv
  PROVE  /\ op \in OpRec(DOMAIN live) /\ op.req \in Nat /\ op.maj \in Nat /\ op.min \in Nat
         /\ op.old \subseteq DOMAIN live /\ op.bestSize \in Int /\ op.startedBet \in BOOLEAN
         /\ op.phase \in Phases
BY DEF IInv, Calling, OpRec

\* op when a call begins.
Beginning(size, old) ==
    [phase |-> "root", req |-> size, old |-> old, maj |-> NULL, min |-> NULL,
     startedBet |-> FALSE, bestSize |-> 0]

LEMMA BeginStep ==
  ASSUME IInv, NEW size \in Requests, NEW old, old \subseteq DOMAIN live, At("idle"),
         op' = Beginning(size, old), UNCHANGED <<lists, counters, brk_limit, live>>
  PROVE  IInv'
<1>1. op' \in OpRec(DOMAIN live) /\ op'.req > 0 /\ op'.phase = "root"
  <2>1. size \in Nat /\ size > 0
    BY Numbers
  <2>2. op'.req = size /\ op'.phase = "root"
    BY DEF Beginning
  <2>3. op' \in OpRec(DOMAIN live)
    BY <2>1 DEF OpRec, Beginning, Phases, NULL
  <2> QED
    BY <2>1, <2>2, <2>3
<1>2. UNCHANGED <<majors, minors, l_memRoot, counters, brk_limit, live>> /\ l_bestBet' = l_bestBet
  BY DEF lists
<1>3. \A m \in DOMAIN majors : majors[m].first # NULL
  BY DEF IInv, Calling, At
<1>4. l_bestBet' \in DOMAIN majors \cup {NULL}
  BY <1>2 DEF IInv, Calling
<1>5. Walked'
  BY <1>1, <1>2, NotWalking
<1> QED
  BY <1>1, <1>2, <1>3, <1>4, <1>5, WalkStep DEF InMajor

LEMMA MallocBeginStep ==
  ASSUME IInv, NEW req \in Requests, MallocBegin(req)
  PROVE  IInv'
<1>1. op' = Beginning(req, {})
  BY DEF MallocBegin, Idle, Beginning
<1>2. At("idle") /\ UNCHANGED <<lists, counters, brk_limit, live>>
  BY DEF MallocBegin
<1> QED
  BY <1>1, <1>2, BeginStep

LEMMA ReallocBeginStep ==
  ASSUME IInv, NEW b \in DOMAIN live, NEW size \in Requests, ReallocBegin(b, size)
  PROVE  IInv'
<1>1. op' = Beginning(size, {b})
  BY DEF ReallocBegin, Idle, Beginning
<1>2. At("idle") /\ UNCHANGED <<lists, counters, brk_limit, live>>
  BY DEF ReallocBegin
<1> QED
  BY <1>1, <1>2, BeginStep

LEMMA MallocRootStep ==
  ASSUME IInv, MallocRoot
  PROVE  IInv'
<1>1. At("root") /\ l_memRoot # NULL /\ op' = [op EXCEPT !.phase = "bet"]
      /\ UNCHANGED <<majors, minors, l_memRoot, counters, brk_limit, live>>
      /\ l_bestBet' = l_bestBet
  BY DEF MallocRoot, lists
<1>2. op \in OpRec(DOMAIN live) /\ op.req > 0 /\ l_bestBet \in DOMAIN majors \cup {NULL}
  BY <1>1, OpFacts DEF IInv, Calling, At
<1>3. op' \in OpRec(DOMAIN live) /\ op'.req > 0 /\ op'.phase = "bet"
  BY <1>1, <1>2 DEF OpRec, Phases
<1>4. \A m \in DOMAIN majors : majors[m].first # NULL
  BY <1>1 DEF IInv, Calling, At
<1>5. Walked'
  BY <1>1, <1>3, NotWalking
<1> QED
  BY <1>1, <1>2, <1>3, <1>4, <1>5, WalkStep DEF InMajor

LEMMA MallocBetStep ==
  ASSUME IInv, MallocBet
  PROVE  IInv'
<1> DEFINE bet == l_bestBet # NULL
           best == IF bet THEN FreeIn(l_bestBet) ELSE 0
           start == bet /\ best > Need
<1>1. /\ At("bet")
      /\ op' = [op EXCEPT !.phase = "major", !.bestSize = best,
                          !.maj = IF start THEN l_bestBet ELSE l_memRoot,
                          !.startedBet = start]
      /\ UNCHANGED <<majors, minors, l_memRoot, counters, brk_limit, live>>
      /\ l_bestBet' = l_bestBet
  BY DEF MallocBet, lists
<1>2. /\ op \in OpRec(DOMAIN live) /\ op.req > 0 /\ l_bestBet \in DOMAIN majors \cup {NULL}
      /\ Headers /\ MajorsApart /\ MinorsApart /\ Accounting
  BY <1>1, OpFacts DEF IInv, Calling, At
<1>3. PICK order \in [1 .. Cardinality(DOMAIN majors) -> DOMAIN majors] : IsMajorList(order)
  BY DEF IInv, Walked
<1>4. Position(order, 1) /\ order[1] = l_memRoot /\ l_memRoot \in DOMAIN majors
  <2>1. l_memRoot # NULL
    BY <1>1 DEF IInv, Walked
  <2> QED
    BY <1>2, <1>3, <2>1, RootMajor
<1>5. best \in Int
  <2>1. CASE bet
    BY <1>2, <2>1, UsageBound
  <2>2. CASE ~ bet
    BY <2>2
  <2> QED
    BY <2>1, <2>2
<1>6. start \in BOOLEAN /\ (start => l_bestBet \in DOMAIN majors)
  BY <1>2
<1> HIDE DEF bet, best, start
<1>7. (IF start THEN l_bestBet ELSE l_memRoot) \in DOMAIN majors
  BY <1>4, <1>6
<1>8. /\ op' \in OpRec(DOMAIN live) /\ op'.req = op.req /\ op'.phase = "major"
      /\ op'.maj = IF start THEN l_bestBet ELSE l_memRoot
      /\ op'.startedBet = start
  <2>1. (IF start THEN l_bestBet ELSE l_memRoot) \in Nat
    BY <1>2, <1>7, HeaderFacts
  <2> QED
    BY <1>1, <1>2, <1>5, <1>6, <2>1 DEF OpRec, Phases
<1>9. Need' = Need
  BY <1>8 DEF Need, Size
<1>10. \A m \in DOMAIN majors : majors[m].first = NULL => FreeIn(m) >= Need /\ DOMAIN majors = {m}
  BY <1>1 DEF IInv, Calling, At
<1>11. \A m \in DOMAIN majors : majors[m].first = NULL =>
          FreeIn(m) >= Need' /\ op'.phase \in {"major", "empty"} /\ op'.maj = m
  BY <1>7, <1>8, <1>9, <1>10
<1>12. Walked'
  <2>1. PICK k \in 1 .. Cardinality(DOMAIN majors) :
           /\ order[k] = op'.maj
           /\ ~ start => k = 1
    <3>1. CASE start
      BY <1>3, <1>7, <1>8, <3>1 DEF IsMajorList
    <3>2. CASE ~ start
      BY <1>4, <1>8, <3>2 DEF Position
    <3> QED
      BY <3>1, <3>2
  <2>2. Position(order, k)
    BY <1>3, <2>1 DEF Position
  <2>3. ~ op'.startedBet => \A j \in 1 .. k - 1 : Full(order[j])'
    BY <1>8, <2>1
  <2> QED
    BY <1>1, <1>8, <2>1, <2>2, <2>3, Walking
<1> QED
  BY <1>1, <1>2, <1>7, <1>8, <1>11, <1>12, WalkStep

LEMMA LookAtMajorStep ==
  ASSUME IInv, LookAtMajor
  PROVE  IInv'
<1> DEFINE m == op.maj
           phase == IF FreeIn(op.maj) < Need THEN "next"
                    ELSE IF majors[op.maj].first = NULL THEN "empty" ELSE "front"
<1>1. /\ At("major")
      /\ l_bestBet' = IF BetterBet(m) THEN m ELSE l_bestBet
      /\ op' = [op EXCEPT !.phase = phase,
                          !.bestSize = IF BetterBet(m) THEN FreeIn(m) ELSE @]
      /\ UNCHANGED <<majors, minors, l_memRoot, counters, brk_limit, live>>
  BY DEF LookAtMajor
<1>2. /\ op \in OpRec(DOMAIN live) /\ op.req > 0 /\ l_bestBet \in DOMAIN majors \cup {NULL}
      /\ m \in DOMAIN majors /\ op.req \in Nat
      /\ Headers /\ MajorsApart /\ MinorsApart /\ Sorted /\ Accounting
  BY <1>1, OpFacts DEF IInv, Calling, At, InMajor
<1>3. FreeIn(m) \in Nat /\ Need \in Nat
  BY <1>2, UsageBound, SizeFacts
<1>4. phase \in {"next", "empty", "front"}
  OBVIOUS
<1>5. /\ op' \in OpRec(DOMAIN live) /\ op'.req = op.req /\ op'.phase = phase
      /\ op'.maj = m /\ op'.startedBet = op.startedBet
  <2>1. (IF BetterBet(m) THEN FreeIn(m) ELSE op.bestSize) \in Int
    BY <1>2, <1>3, OpFacts
  <2> HIDE DEF phase
  <2> QED
    BY <1>1, <1>2, <1>4, <2>1 DEF OpRec, Phases
<1>6. Need' = Need
  BY <1>5 DEF Need, Size
<1>7. ASSUME NEW k \in DOMAIN majors, majors[k].first = NULL
      PROVE  FreeIn(k) >= Need' /\ phase = "empty" /\ m = k
  <2>1. FreeIn(k) >= Need /\ m = k
    BY <1>1, <1>7 DEF IInv, Calling, At
  <2> QED
    BY <1>3, <1>6, <1>7, <2>1
<1>8. phase = "empty" => majors[m].first = NULL
  OBVIOUS
<1>9. l_bestBet' \in DOMAIN majors \cup {NULL}
  BY <1>1, <1>2
<1>10. Walked'
  <2>1. PICK order, k : /\ Position(order, k) /\ order[k] = m
                        /\ ~ op.startedBet => \A j \in 1 .. k - 1 : Full(order[j])
    BY <1>1, WhereItIs DEF At, InMajor
  <2>2. \A j : Full(j)' = Full(j)
    BY <1>1, <1>5, SeenKept
  <2>3. phase = "next" => Full(m)
    BY <1>2, FullByUsage
  <2> HIDE DEF phase, m
  <2>4. ~ op'.startedBet => \A j \in 1 .. k - 1 : Full(order[j])'
    BY <1>5, <2>1, <2>2
  <2>5. op'.phase = "next" => Full(order[k])'
    BY <1>5, <2>1, <2>2, <2>3
  <2>6. op'.phase # "bet" /\ op'.phase # "minor"
    BY <1>4, <1>5
  <2> QED
    BY <1>1, <1>5, <2>1, <2>4, <2>5, <2>6, Walking
<1> HIDE DEF phase, m
<1>11. /\ op'.phase # "idle" /\ op'.phase # "minor" /\ op'.req > 0
       /\ op'.phase \in InMajor => op'.maj \in DOMAIN majors
       /\ op'.phase = "empty" => majors[op'.maj].first = NULL
  BY <1>2, <1>4, <1>5, <1>8
<1> QED
  BY <1>1, <1>5, <1>7, <1>9, <1>10, <1>11, WalkStep

\* The walk goes on to the major m of the list.
LEMMA ToMajor ==
  ASSUME IInv, At("next"), NEW m \in DOMAIN majors, NEW bet \in BOOLEAN,
         op' = [op EXCEPT !.phase = "major", !.maj = m, !.startedBet = bet],
         UNCHANGED <<lists, counters, brk_limit, live>>,
         Walked'
  PROVE  IInv'
<1>1. UNCHANGED <<majors, minors, l_memRoot, counters, brk_limit, live>> /\ l_bestBet' = l_bestBet
  BY DEF lists
<1>2. op \in OpRec(DOMAIN live) /\ op.req > 0 /\ l_bestBet \in DOMAIN majors \cup {NULL}
  BY OpFacts DEF IInv, Calling, At
<1>3. m \in Nat
  BY HeaderFacts DEF IInv
<1>4. /\ op' \in OpRec(DOMAIN live) /\ op'.req = op.req /\ op'.phase = "major"
      /\ op'.maj = m
  BY <1>2, <1>3 DEF OpRec, Phases
<1>5. \A k \in DOMAIN majors : majors[k].first # NULL
  BY DEF IInv, Calling, At
<1> QED
  BY <1>1, <1>2, <1>4, <1>5, WalkStep

LEMMA NextMajorStep ==
  ASSUME IInv, NextMajor
  PROVE  IInv'
<1> DEFINE m == majors[op.maj].next
<1>1. /\ At("next") /\ m # NULL
      /\ op' = [op EXCEPT !.phase = "major", !.maj = m]
      /\ UNCHANGED <<lists, counters, brk_limit, live>>
      /\ UNCHANGED <<majors, minors, l_memRoot>>
  BY DEF NextMajor, lists
<1>2. op \in OpRec(DOMAIN live)
  BY OpFacts
<1>3. PICK order, k : /\ Position(order, k) /\ order[k] = op.maj
                      /\ ~ op.startedBet => \A j \in 1 .. k - 1 : Full(order[j])
  BY <1>1, WhereItIs DEF At, InMajor
<1> DEFINE n == Cardinality(DOMAIN majors)
<1>4. n \in Nat
  BY FS_CardinalityType DEF IInv, Headers
<1>5. /\ order \in [1 .. n -> DOMAIN majors] /\ k \in 1 .. n
      /\ majors[order[k]].next = IF k = n THEN NULL ELSE order[k + 1]
  BY <1>3 DEF Position, IsMajorList
<1> HIDE DEF n
<1>6. k + 1 \in 1 .. n /\ order[k + 1] = m /\ m \in DOMAIN majors
  BY <1>1, <1>3, <1>4, <1>5
<1>7. op'.startedBet = op.startedBet /\ op'.req = op.req /\ op'.maj = m /\ op'.phase = "major"
  BY <1>1, <1>2 DEF OpRec
<1>8. Walked'
  <2>1. \A j : Full(j)' = Full(j)
    BY <1>1, <1>7, SeenKept
  <2>2. Full(op.maj)
    BY <1>1 DEF IInv, Walked
  <2>3. ~ op'.startedBet => \A j \in 1 .. (k + 1) - 1 : Full(order[j])'
    <3> SUFFICES ASSUME ~ op'.startedBet, NEW j \in 1 .. (k + 1) - 1
                 PROVE  Full(order[j])
      BY <2>1
    <3>1. j = k \/ j \in 1 .. k - 1
      BY <1>4, <1>5
    <3> QED
      BY <1>3, <1>7, <2>2, <3>1
  <2>4. Position(order, k + 1)
    BY <1>3, <1>6 DEF Position, n
  <2> QED
    BY <1>1, <1>6, <1>7, <2>3, <2>4, Walking
<1>9. op' = [op EXCEPT !.phase = "major", !.maj = m, !.startedBet = op.startedBet]
  BY <1>1, <1>2 DEF OpRec
<1>10. op.startedBet \in BOOLEAN
  BY OpFacts
<1> QED
  BY <1>1, <1>6, <1>8, <1>9, <1>10, ToMajor

LEMMA RestartStep ==
  ASSUME IInv, Restart
  PROVE  IInv'
<1>1. /\ At("next")
      /\ op' = [op EXCEPT !.phase = "major", !.maj = l_memRoot, !.startedBet = FALSE]
      /\ UNCHANGED <<lists, counters, brk_limit, live>>
      /\ UNCHANGED <<majors, minors, l_memRoot>>
  BY DEF Restart, AtLast, lists
<1>2. op \in OpRec(DOMAIN live) /\ op.maj \in DOMAIN majors
  BY <1>1, OpFacts DEF IInv, Calling, At, InMajor
<1>3. PICK order \in [1 .. Cardinality(DOMAIN majors) -> DOMAIN majors] : IsMajorList(order)
  BY DEF IInv, Walked
<1>4. Position(order, 1) /\ order[1] = l_memRoot /\ l_memRoot \in DOMAIN majors
  BY <1>2, <1>3, RootMajor DEF IInv
<1>5. op'.phase = "major" /\ op'.maj = l_memRoot
  BY <1>1, <1>2 DEF OpRec
<1>6. \A j \in 1 .. 1 - 1 : Full(order[j])'
  OBVIOUS
<1>7. Walked'
  BY <1>1, <1>4, <1>5, <1>6, Walking
<1> QED
  BY <1>1, <1>4, <1>7, ToMajor

\* The walk among the minors of a major.
LEMMA InnerStep ==
  ASSUME IInv, op.phase \in {"front", "minor"}, NEW phase \in {"minor", "next"},
         NEW min \in MinorsOf(op.maj) \cup {NULL},
         Walk(phase, min),
         phase = "minor" => min \in MinorsOf(op.maj),
         phase = "next" => Full(op.maj),
         phase = "minor" => /\ FrontGap(op.maj) < Need
                            /\ \A c \in MinorsOf(op.maj) : c < min => GapBehind(c) < Need
  PROVE  IInv'
<1>1. /\ op' = [op EXCEPT !.phase = phase, !.min = min]
      /\ UNCHANGED <<majors, minors, l_memRoot, counters, brk_limit, live>>
      /\ l_bestBet' = l_bestBet
  BY DEF Walk, lists
<1>2. /\ op \in OpRec(DOMAIN live) /\ op.req > 0 /\ l_bestBet \in DOMAIN majors \cup {NULL}
      /\ op.maj \in DOMAIN majors
  BY OpFacts DEF IInv, Calling, At, InMajor
<1>3. min \in Nat
  BY HeaderFacts DEF IInv, NULL
<1>4. /\ op' \in OpRec(DOMAIN live) /\ op'.req = op.req /\ op'.phase = phase
      /\ op'.maj = op.maj /\ op'.min = min /\ op'.startedBet = op.startedBet
  BY <1>1, <1>2, <1>3 DEF OpRec, Phases
<1>5. \A k \in DOMAIN majors : majors[k].first # NULL
  BY DEF IInv, Calling, At
<1>6. PICK order, k : /\ Position(order, k) /\ order[k] = op.maj
                      /\ ~ op.startedBet => \A j \in 1 .. k - 1 : Full(order[j])
  BY WhereItIs DEF InMajor
<1>7. Need' = Need /\ \A j : Full(j)' = Full(j)
  BY <1>1, <1>4, SeenKept
<1>8. ~ op'.startedBet => \A j \in 1 .. k - 1 : Full(order[j])'
  BY <1>4, <1>6, <1>7
<1>9. op'.phase = "next" => Full(order[k])'
  BY <1>4, <1>6, <1>7
<1>10. Walked'
  BY <1>1, <1>4, <1>6, <1>7, <1>8, <1>9, Walking
<1>11. op'.phase = "minor" => op'.min \in MinorsIn(minors, op'.maj)
  BY <1>4 DEF MinorsOf, MinorsIn
<1>12. op'.phase # "idle" /\ op'.phase # "empty"
  BY <1>4
<1> QED
  BY <1>1, <1>2, <1>4, <1>5, <1>10, <1>11, <1>12, WalkStep

LEMMA EnterMinorsStep ==
  ASSUME IInv, EnterMinors
  PROVE  IInv'
<1>1. At("front") /\ FrontGap(op.maj) < Need /\ Walk("minor", majors[op.maj].first)
  BY DEF EnterMinors
<1>2. op.maj \in DOMAIN majors
  BY <1>1 DEF IInv, Calling, At, InMajor
<1>3. /\ majors[op.maj].first \in MinorsOf(op.maj)
      /\ majors[op.maj].first \in Nat
      /\ \A x \in MinorsOf(op.maj) : majors[op.maj].first <= x
  BY <1>1, <1>2, FirstMinor DEF At, IInv
<1>4. \A x \in MinorsOf(op.maj) : x \in Nat
  BY HeaderFacts DEF IInv
<1>5. \A c \in MinorsOf(op.maj) : ~ c < majors[op.maj].first
  BY <1>3, <1>4
<1> QED
  BY <1>1, <1>3, <1>5, InnerStep DEF At

\* The next pointer of a minor.
LEMMA NextFacts ==
  ASSUME Headers, MinorsApart, Sorted, NEW m, NEW a \in MinorsOf(m)
  PROVE  /\ a \in Nat
         /\ minors[a].next = NULL => \A x \in MinorsOf(m) : x \in Nat /\ x <= a
         /\ minors[a].next # NULL =>
               /\ minors[a].next \in MinorsOf(m) /\ a < minors[a].next
               /\ \A x \in MinorsOf(m) : x \in Nat /\ (x <= a \/ minors[a].next <= x)
<1> DEFINE next == minors[a].next
           S == MinorsOf(m)
<1>1. a \in DOMAIN minors /\ minors[a].block = m
  BY DEF MinorsOf
<1>2. IsNext(S, a, next)
  BY <1>1 DEF Sorted, MinorsOf, MinorsIn
<1>3. \A x \in S : x \in Nat /\ x > 0
  BY HeaderFacts
<1>4. a \in S
  OBVIOUS
<1> HIDE DEF next, S
<1>5. /\ a \in Nat
      /\ next = NULL => \A x \in S : x \in Nat /\ x <= a
      /\ next # NULL => /\ next \in S /\ a < next
                        /\ \A x \in S : x \in Nat /\ (x <= a \/ next <= x)
  BY <1>2, <1>3, <1>4 DEF IsNext, NULL
<1> QED
  BY <1>5 DEF next, S

LEMMA NextMinorStep ==
  ASSUME IInv, NextMinor
  PROVE  IInv'
<1> DEFINE c == op.min
           next == minors[op.min].next
<1>1. At("minor") /\ GapBehind(c) < Need /\ next # NULL /\ Walk("minor", next)
  BY DEF NextMinor
<1>2. c \in MinorsOf(op.maj)
  BY <1>1 DEF IInv, Calling, At
<1>3. /\ c \in Nat /\ next \in MinorsOf(op.maj)
      /\ \A x \in MinorsOf(op.maj) : x \in Nat /\ (x <= c \/ next <= x)
  BY <1>1, <1>2, NextFacts DEF IInv
<1>4. /\ FrontGap(op.maj) < Need
      /\ \A x \in MinorsOf(op.maj) : x < c => GapBehind(x) < Need
  BY <1>1 DEF IInv, Walked
<1>5. \A x \in MinorsOf(op.maj) : x < next => GapBehind(x) < Need
  <2> SUFFICES ASSUME NEW x \in MinorsOf(op.maj), x < next PROVE GapBehind(x) < Need
    OBVIOUS
  <2>1. x = c \/ x < c
    BY <1>3
  <2> QED
    BY <1>1, <1>4, <2>1
<1> QED
  BY <1>1, <1>3, <1>4, <1>5, InnerStep DEF At

LEMMA LeaveMajorStep ==
  ASSUME IInv, LeaveMajor
  PROVE  IInv'
<1> DEFINE c == op.min
           m == op.maj
<1>1. At("minor") /\ GapBehind(c) < Need /\ minors[c].next = NULL /\ Walk("next", NULL)
  BY DEF LeaveMajor
<1>2. c \in MinorsOf(m) /\ m \in DOMAIN majors
  BY <1>1 DEF IInv, Calling, At, InMajor
<1>3. c \in Nat /\ \A x \in MinorsOf(m) : x \in Nat /\ x <= c
  BY <1>1, <1>2, NextFacts DEF IInv
<1>4. /\ FrontGap(m) < Need
      /\ \A x \in MinorsOf(m) : x < c => GapBehind(x) < Need
  BY <1>1 DEF IInv, Walked
<1>5. \A x \in MinorsOf(m) : GapBehind(x) < Need
  <2> SUFFICES ASSUME NEW x \in MinorsOf(m) PROVE GapBehind(x) < Need
    OBVIOUS
  <2>1. x = c \/ x < c
    BY <1>3
  <2> QED
    BY <1>1, <1>4, <2>1
<1>6. majors[m].first # NULL
  BY <1>1, <1>2 DEF IInv, Calling, At
<1>7. Full(m)
  BY <1>4, <1>5, <1>6 DEF Full, Gaps
<1> QED
  BY <1>1, <1>7, InnerStep DEF At

-----------------------------------------------------------------------------
(* A new major.                                                            *)

\* The majors with one more behind prev.
Grown(a, prev) ==
    /\ a \notin DOMAIN majors
    /\ DOMAIN majors' = DOMAIN majors \cup {a}
    /\ majors' = [k \in DOMAIN majors' |-> majors'[k]]
    /\ majors'[a] = NewMajor(prev)
    /\ \A k \in DOMAIN majors :
          majors'[k] = IF k = prev THEN [majors[k] EXCEPT !.next = a] ELSE majors[k]

\* By its contract liballoc_alloc returns pages apart from those in use.
LEMMA PagesApart ==
  ASSUME Headers, MajorsApart, Hooks = "contract", op.req \in Nat,
         NEW a, a # NULL, PageAlloc(PagesFor(Size), a)
  PROVE  /\ a \in Nat /\ a > 0 /\ HeapStart <= a /\ brk_limit' = brk_limit
         /\ PagesFor(Size) \in Nat
         /\ PagesFor(Size) * l_pageSize \in Nat
         /\ Need + MajorSize <= PagesFor(Size) * l_pageSize
         /\ a + PagesFor(Size) * l_pageSize <= HeapLimit
         /\ \A m \in DOMAIN majors :
               \/ EndOfMajor(m) <= a
               \/ a + PagesFor(Size) * l_pageSize <= m
<1> DEFINE bytes == PagesFor(Size) * l_pageSize
<1>1. /\ PagesFor(Size) \in Nat /\ bytes \in Nat /\ Size + MajorSize + MinorSize <= bytes
      /\ Size \in Nat /\ Need = Size + MinorSize
  BY SizeFacts, PagesHold
<1>2. /\ \E k \in 0 .. HeapLimit \div l_pageSize : a = HeapStart + k * l_pageSize
      /\ a + bytes <= HeapLimit
      /\ \A m \in DOMAIN majors : Extent(m) \cap (a .. a + bytes - 1) = {}
      /\ brk_limit' = brk_limit
  BY DEF PageAlloc
<1>3. a \in Nat /\ a > 0 /\ HeapStart <= a
  <2>1. PICK k \in 0 .. HeapLimit \div l_pageSize : a = HeapStart + k * l_pageSize
    BY <1>2
  <2>2. k \in Nat
    BY <2>1
  <2>3. l_pageSize * k \in Nat /\ k * l_pageSize = l_pageSize * k
    BY <2>2, Numbers, Multiple
  <2> QED
    BY <2>1, <2>3, Numbers
<1>4. bytes > 0
  BY <1>1, Numbers
<1> HIDE DEF bytes
<1>5. ASSUME NEW m \in DOMAIN majors
      PROVE  EndOfMajor(m) <= a \/ a + bytes <= m
  <2>1. /\ m \in Nat /\ majors[m].size \in Nat /\ EndOfMajor(m) = m + majors[m].size
        /\ majors[m].size > 0
    BY HeaderFacts, Numbers DEF EndOfMajor, MajorsApart
  <2>2. Extent(m) = m .. EndOfMajor(m) - 1
    BY <2>1 DEF Extent
  <2>3. Extent(m) \cap (a .. a + bytes - 1) = {}
    BY <1>2
  <2>4. m <= a => EndOfMajor(m) <= a
    <3> SUFFICES ASSUME m <= a, a < EndOfMajor(m) PROVE FALSE
      BY <1>3, <2>1
    <3>1. a \in Extent(m) /\ a \in a .. a + bytes - 1
      BY <1>1, <1>3, <1>4, <2>1, <2>2
    <3> QED
      BY <2>3, <3>1
  <2>5. a < m => a + bytes <= m
    <3> SUFFICES ASSUME a < m, m < a + bytes PROVE FALSE
      BY <1>1, <1>3, <2>1
    <3>1. m \in Extent(m) /\ m \in a .. a + bytes - 1
      BY <1>1, <1>3, <2>1, <2>2
    <3> QED
      BY <2>3, <3>1
  <2> QED
    BY <1>3, <2>1, <2>4, <2>5
<1> QED
  BY <1>1, <1>2, <1>3, <1>5, Numbers DEF bytes

LEMMA GrownKeepsLayout ==
  ASSUME IInv, Hooks = "contract", NEW a, a # NULL, PageAlloc(PagesFor(Size), a),
         op.req \in Nat, NEW prev \in Nat, Grown(a, prev),
         l_allocated' = l_allocated + majors'[a].size,
         UNCHANGED <<minors, l_inuse, live>>
  PROVE  /\ Headers' /\ MajorsApart' /\ MinorsApart' /\ Sorted' /\ Held' /\ Accounting'
         /\ majors'[a].size - majors'[a].usage >= Need
         /\ majors'[a].first = NULL
<1>1. Headers /\ MajorsApart /\ MinorsApart /\ Sorted /\ Held /\ Accounting
  BY DEF IInv
<1> DEFINE bytes == PagesFor(Size) * l_pageSize
<1>2. /\ a \in Nat /\ a > 0 /\ HeapStart <= a /\ brk_limit' = brk_limit
      /\ PagesFor(Size) \in Nat /\ bytes \in Nat
      /\ Need + MajorSize <= bytes /\ a + bytes <= HeapLimit
      /\ \A m \in DOMAIN majors : EndOfMajor(m) <= a \/ a + bytes <= m
  BY <1>1, PagesApart
<1>3. majors'[a] = [prev |-> prev, next |-> NULL, pages |-> PagesFor(Size), size |-> bytes,
                    usage |-> MajorSize, first |-> NULL]
  BY DEF Grown, NewMajor
<1>4. /\ majors'[a].size = bytes /\ majors'[a].usage = MajorSize /\ majors'[a].first = NULL
      /\ majors'[a] \in [prev : Nat, next : Nat, pages : Nat, size : Nat, usage : Nat,
                         first : Nat]
  <2>1. NULL \in Nat
    BY DEF NULL
  <2> HIDE DEF bytes
  <2> QED
    BY <1>2, <1>3, <2>1, Numbers
<1> HIDE DEF bytes
<1>5. /\ a \notin DOMAIN majors
      /\ DOMAIN majors' = DOMAIN majors \cup {a}
      /\ \A k \in DOMAIN majors :
            /\ majors'[k].size = majors[k].size
            /\ majors'[k].usage = majors[k].usage /\ majors'[k].first = majors[k].first
            /\ majors'[k].prev = majors[k].prev
            /\ majors'[k].next = IF k = prev THEN a ELSE majors[k].next
  <2>1. ASSUME NEW k \in DOMAIN majors
        PROVE  /\ majors'[k].size = majors[k].size
               /\ majors'[k].usage = majors[k].usage /\ majors'[k].first = majors[k].first
               /\ majors'[k].prev = majors[k].prev
               /\ majors'[k].next = IF k = prev THEN a ELSE majors[k].next
    <3>1. majors'[k] = IF k = prev THEN [majors[k] EXCEPT !.next = a] ELSE majors[k]
      BY DEF Grown
    <3>2. majors[k] \in [prev : Nat, next : Nat, pages : Nat, size : Nat, usage : Nat,
                         first : Nat]
      BY <1>1 DEF Headers
    <3> QED
      BY <3>1, <3>2
  <2> QED
    BY <2>1 DEF Grown
<1>6. minors' = minors /\ live' = live /\ l_inuse' = l_inuse
  OBVIOUS
<1>7. Headers'
  <2> DEFINE MajorRec == [prev : Nat, next : Nat, pages : Nat, size : Nat, usage : Nat,
                          first : Nat]
  <2>1. ASSUME NEW k \in DOMAIN majors
        PROVE  majors'[k] \in MajorRec
    <3>1. majors[k] \in MajorRec /\ majors'[k] = [majors[k] EXCEPT !.next = majors'[k].next]
          /\ majors'[k].next \in Nat
      <4>1. majors[k] \in MajorRec
        BY <1>1 DEF Headers
      <4>2. majors'[k] = IF k = prev THEN [majors[k] EXCEPT !.next = a] ELSE majors[k]
        BY DEF Grown
      <4> QED
        BY <1>2, <4>1, <4>2
    <3> QED
      BY <3>1
  <2>2. \A k \in DOMAIN majors' : majors'[k] \in MajorRec
    BY <1>4, <1>5, <2>1
  <2>3. majors' = [k \in DOMAIN majors' |-> majors'[k]]
    BY DEF Grown
  <2> HIDE DEF MajorRec
  <2>4. majors' \in [DOMAIN majors' -> MajorRec]
    BY <2>2, <2>3
  <2>5. IsFiniteSet(DOMAIN majors')
    BY <1>1, <1>5, FS_AddElement DEF Headers
  <2>6. DOMAIN majors' \subseteq Nat \ {0}
    BY <1>1, <1>2, <1>5 DEF Headers
  <2> QED
    BY <1>1, <1>2, <1>6, <2>4, <2>5, <2>6 DEF Headers, MajorRec
<1>8. /\ \A k \in DOMAIN majors : EndOfMajor(k)' = EndOfMajor(k)
      /\ EndOfMajor(a)' = a + bytes
  BY <1>4, <1>5 DEF EndOfMajor
<1>9. MajorsApart'
  <2>1. ASSUME NEW m \in DOMAIN majors'
        PROVE  HeapStart <= m /\ EndOfMajor(m)' <= HeapLimit /\ MajorSize <= majors'[m].size
    <3>1. CASE m = a
      BY <1>2, <1>4, <1>8, <3>1, SizeFacts, Numbers
    <3>2. CASE m \in DOMAIN majors
      BY <1>1, <1>5, <1>8, <3>2 DEF MajorsApart
    <3> QED
      BY <1>5, <3>1, <3>2
  <2>2. ASSUME NEW m \in DOMAIN majors', NEW k \in DOMAIN majors', m < k
        PROVE  EndOfMajor(m)' <= k
    <3>1. CASE m = a
      <4>1. k \in DOMAIN majors /\ k \in Nat
        BY <1>1, <1>2, <1>5, <2>2, <3>1, HeaderFacts
      <4>2. EndOfMajor(k) \in Nat /\ k <= EndOfMajor(k)
        BY <1>1, <4>1, HeaderFacts DEF EndOfMajor
      <4> QED
        BY <1>2, <1>8, <2>2, <3>1, <4>1, <4>2
    <3>2. CASE k = a
      <4>1. m \in DOMAIN majors /\ m \in Nat
        BY <1>1, <1>2, <1>5, <2>2, <3>2, HeaderFacts
      <4> QED
        BY <1>2, <1>8, <2>2, <3>2, <4>1
    <3>3. CASE m \in DOMAIN majors /\ k \in DOMAIN majors
      BY <1>1, <1>8, <2>2, <3>3 DEF MajorsApart
    <3> QED
      BY <1>5, <3>1, <3>2, <3>3
  <2> QED
    BY <2>1, <2>2 DEF MajorsApart
<1>10. \A x \in DOMAIN minors :
          /\ minors[x].block \in DOMAIN majors
          /\ minors[x].block # a
          /\ EndOf(x)' = EndOf(x)
  BY <1>1, <1>5, <1>6 DEF MinorsApart, EndOf
<1>11. MinorsApart'
  BY <1>1, <1>5, <1>6, <1>10 DEF MinorsApart
<1>12. MinorsIn(minors, a) = {}
  BY <1>10 DEF MinorsIn
<1>13. Sorted'
  <2>1. ASSUME NEW m \in DOMAIN majors'
        PROVE  IsNext(MinorsIn(minors, m), 0, majors'[m].first)
    <3>1. CASE m = a
      BY <1>4, <1>12, <3>1 DEF IsNext
    <3>2. CASE m \in DOMAIN majors
      BY <1>1, <1>5, <3>2 DEF Sorted
    <3> QED
      BY <1>5, <3>1, <3>2
  <2> QED
    BY <1>1, <1>6, <2>1 DEF Sorted
<1>14. Held'
  BY <1>1, <1>6 DEF Held
<1>15. Accounting'
  <2> DEFINE size == [m \in DOMAIN majors |-> majors[m].size]
             used == [x \in DOMAIN minors |-> minors[x].size]
             whole == [x \in DOMAIN minors |-> minors[x].size + MinorSize]
  <2>1. used' = used /\ whole' = whole /\ DOMAIN minors' = DOMAIN minors
    BY <1>6
  <2>2. SumOver(size', DOMAIN majors') = bytes + SumOver(size, DOMAIN majors)
    <3>1. \A x \in DOMAIN majors : size'[x] = size[x] /\ size[x] \in Int
      BY <1>1, <1>5, HeaderFacts
    <3>2. size'[a] = bytes /\ bytes \in Int
      BY <1>2, <1>4, <1>5
    <3>3. IsFiniteSet(DOMAIN majors)
      BY <1>1 DEF Headers
    <3> HIDE DEF size
    <3>4. SumOver(size', DOMAIN majors \cup {a}) = size'[a] + SumOver(size', DOMAIN majors)
      BY <1>5, <3>1, <3>2, <3>3, SumAdd
    <3>5. SumOver(size', DOMAIN majors) = SumOver(size, DOMAIN majors)
      BY <3>1, <3>3, SumAgree
    <3> QED
      BY <1>5, <3>2, <3>4, <3>5
  <2>3. SumOver(size, DOMAIN majors) \in Int
    <3>1. \A x \in DOMAIN majors : size[x] \in Int
      BY <1>1, HeaderFacts
    <3> HIDE DEF size
    <3> QED
      BY <1>1, <3>1, SumType DEF Headers
  <2>4. /\ l_allocated = SumOver(size, DOMAIN majors) /\ l_inuse = SumOver(used, DOMAIN minors)
        /\ \A m \in DOMAIN majors :
              majors[m].usage = MajorSize + SumOver(whole, MinorsIn(minors, m))
    BY <1>1 DEF Accounting, MinorsOf, MinorsIn
  <2>5. l_allocated' = SumOver(size', DOMAIN majors')
    <3> HIDE DEF size
    <3> QED
      BY <1>2, <1>4, <2>2, <2>3, <2>4
  <2>6. ASSUME NEW m \in DOMAIN majors'
        PROVE  majors'[m].usage = MajorSize + SumOver(whole, MinorsIn(minors, m))
    <3>1. CASE m = a
      <4> HIDE DEF whole
      <4>1. SumOver(whole, {}) = 0
        BY SumEmpty
      <4> QED
        BY <1>4, <1>12, <3>1, <4>1, Numbers
    <3>2. CASE m \in DOMAIN majors
      BY <1>5, <2>4, <3>2
    <3> QED
      BY <1>5, <3>1, <3>2
  <2>7. \A m \in DOMAIN majors' : majors'[m].usage = MajorSize + SumOver(whole', MinorsOf(m)')
    BY <1>6, <2>1, <2>6 DEF MinorsOf, MinorsIn
  <2>8. l_inuse' = SumOver(used', DOMAIN minors')
    BY <1>6, <2>1, <2>4
  <2> QED
    BY <2>5, <2>7, <2>8 DEF Accounting
<1>16. majors'[a].size - majors'[a].usage >= Need
  BY <1>2, <1>4, SizeFacts, Numbers
<1> QED
  BY <1>4, <1>7, <1>9, <1>11, <1>13, <1>14, <1>15, <1>16

\* The list with the new major at its end.
LEMMA OrderGrown ==
  ASSUME Headers, NEW a \in Nat, a > 0, NEW prev, Grown(a, prev),
         NEW order \in [1 .. Cardinality(DOMAIN majors) -> DOMAIN majors],
         IsMajorList(order),
         DOMAIN majors = {} => prev = NULL /\ l_memRoot' = a,
         DOMAIN majors # {} => /\ prev \in DOMAIN majors /\ majors[prev].next = NULL
                               /\ l_memRoot' = l_memRoot
  PROVE  \E longer :
            /\ longer \in [1 .. Cardinality(DOMAIN majors') -> DOMAIN majors']
            /\ IsMajorList(longer)'
            /\ Cardinality(DOMAIN majors') = Cardinality(DOMAIN majors) + 1
            /\ Cardinality(DOMAIN majors) \in Nat
            /\ longer[Cardinality(DOMAIN majors) + 1] = a
            /\ \A i \in 1 .. Cardinality(DOMAIN majors) : longer[i] = order[i]
            /\ prev # NULL => order[Cardinality(DOMAIN majors)] = prev
<1> DEFINE D == DOMAIN majors
           n == Cardinality(D)
<1>1. /\ n \in Nat /\ (n = 0 <=> D = {})
  BY FS_CardinalityType, FS_EmptySet DEF Headers
<1>2. /\ a \notin D /\ DOMAIN majors' = D \cup {a} /\ majors'[a].prev = prev
      /\ majors'[a].next = NULL
  BY DEF Grown, NewMajor
<1>3. Cardinality(DOMAIN majors') = n + 1
  <2>1. IsFiniteSet(D)
    BY DEF Headers
  <2> HIDE DEF D
  <2>2. Cardinality(D \cup {a}) = n + 1
    BY <1>2, <2>1, FS_AddElement
  <2> QED
    BY <1>2, <2>2
<1>4. /\ \A m \in D : \E i \in 1 .. n : order[i] = m
      /\ l_memRoot = IF n = 0 THEN NULL ELSE order[1]
      /\ \A i \in 1 .. n :
            /\ majors[order[i]].prev = IF i = 1 THEN NULL ELSE order[i - 1]
            /\ majors[order[i]].next = IF i = n THEN NULL ELSE order[i + 1]
  BY DEF IsMajorList
<1>5. \A i \in 1 .. n : order[i] \in D /\ order[i] # NULL
  BY HeaderFacts DEF NULL
<1>6. ASSUME NEW i \in 1 .. n
      PROVE  /\ majors'[order[i]].prev = majors[order[i]].prev
             /\ majors'[order[i]].next = IF order[i] = prev THEN a ELSE majors[order[i]].next
  <2>1. majors'[order[i]] = IF order[i] = prev THEN [majors[order[i]] EXCEPT !.next = a]
                            ELSE majors[order[i]]
    BY <1>5 DEF Grown
  <2>2. majors[order[i]] \in [prev : Nat, next : Nat, pages : Nat, size : Nat, usage : Nat,
                             first : Nat]
    BY <1>5 DEF Headers
  <2> QED
    BY <2>1, <2>2
<1> HIDE DEF D, n
<1>7. D # {} => order[n] = prev /\ \A i \in 1 .. n : order[i] = prev => i = n
  <2> SUFFICES ASSUME D # {} PROVE order[n] = prev /\ \A i \in 1 .. n : order[i] = prev => i = n
    OBVIOUS
  <2>1. prev \in D /\ majors[prev].next = NULL
    BY DEF D
  <2>2. PICK k \in 1 .. n : order[k] = prev
    BY <1>4, <2>1
  <2>3. ASSUME NEW i \in 1 .. n, order[i] = prev
        PROVE  i = n
    <3> SUFFICES ASSUME i # n PROVE FALSE
      OBVIOUS
    <3>1. majors[order[i]].next = order[i + 1] /\ i + 1 \in 1 .. n
      BY <1>1, <1>4
    <3> QED
      BY <1>5, <2>1, <2>3, <3>1
  <2> QED
    BY <2>2, <2>3
<1>8. PICK longer : /\ \A i \in 1 .. n : longer[i] = order[i]
                    /\ longer[n + 1] = a
                    /\ longer \in [1 .. n + 1 -> D \cup {a}]
  <2> DEFINE l == [i \in 1 .. n + 1 |-> IF i <= n THEN order[i] ELSE a]
  <2>1. /\ \A i \in 1 .. n : l[i] = order[i]
        /\ l[n + 1] = a
        /\ l \in [1 .. n + 1 -> D \cup {a}]
    BY <1>1, <1>5
  <2> HIDE DEF l
  <2> QED
    BY <2>1
<1>9. IsMajorList(longer)'
  <2>1. \A m \in D \cup {a} : \E i \in 1 .. n + 1 : longer[i] = m
    <3>1. n + 1 \in 1 .. n + 1 /\ \A i \in 1 .. n : i \in 1 .. n + 1
      BY <1>1
    <3> QED
      BY <1>4, <1>8, <3>1
  <2>2. l_memRoot' = longer[1]
    <3>1. CASE D = {}
      BY <1>1, <1>8, <3>1 DEF D
    <3>2. CASE D # {}
      <4>1. n # 0 /\ 1 \in 1 .. n /\ l_memRoot' = l_memRoot
        BY <1>1, <3>2 DEF D
      <4> QED
        BY <1>4, <1>8, <4>1
    <3> QED
      BY <3>1, <3>2
  <2>3. ASSUME NEW i \in 1 .. n + 1
        PROVE  /\ majors'[longer[i]].prev = IF i = 1 THEN NULL ELSE longer[i - 1]
               /\ majors'[longer[i]].next = IF i = n + 1 THEN NULL ELSE longer[i + 1]
    <3>1. CASE i = n + 1
      <4>1. longer[i] = a
        BY <1>8, <3>1
      <4>2. CASE D = {}
        <5>1. prev = NULL /\ i = 1
          BY <1>1, <3>1, <4>2 DEF D
        <5> QED
          BY <1>2, <3>1, <4>1, <5>1
      <4>3. CASE D # {}
        <5>1. n # 0 /\ i # 1 /\ i - 1 = n /\ n \in 1 .. n
          BY <1>1, <3>1, <4>3
        <5>2. longer[n] = prev
          BY <1>7, <1>8, <4>3, <5>1
        <5> QED
          BY <1>2, <3>1, <4>1, <5>1, <5>2
      <4> QED
        BY <4>2, <4>3
    <3>2. CASE i # n + 1
      <4>1. i \in 1 .. n /\ longer[i] = order[i]
        BY <1>1, <1>8, <3>2
      <4>2. majors'[longer[i]].prev = IF i = 1 THEN NULL ELSE longer[i - 1]
        <5>1. i # 1 => i - 1 \in 1 .. n
          BY <1>1, <4>1
        <5> QED
          BY <1>4, <1>6, <1>8, <4>1, <5>1
      <4>3. majors'[longer[i]].next = longer[i + 1]
        <5>1. D # {}
          BY <1>1, <4>1
        <5>2. CASE i = n
          <6>1. order[i] = prev
            BY <1>7, <5>1, <5>2
          <6>2. i + 1 = n + 1
            BY <5>2
          <6> QED
            BY <1>6, <1>8, <4>1, <6>1, <6>2
        <5>3. CASE i # n
          <6>1. i + 1 \in 1 .. n /\ order[i] # prev
            BY <1>1, <1>7, <4>1, <5>1, <5>3
          <6>2. majors[order[i]].next = order[i + 1]
            BY <1>4, <4>1, <5>3
          <6> QED
            BY <1>6, <1>8, <4>1, <6>1, <6>2
        <5> QED
          BY <5>2, <5>3
      <4> QED
        BY <3>2, <4>2, <4>3
    <3> QED
      BY <3>1, <3>2
  <2>4. n + 1 # 0
    BY <1>1
  <2> QED
    <3> DEFINE N == Cardinality(DOMAIN majors')
    <3>1. /\ \A m \in DOMAIN majors' : \E i \in 1 .. N : longer[i] = m
          /\ l_memRoot' = IF N = 0 THEN NULL ELSE longer[1]
          /\ \A i \in 1 .. N :
                /\ majors'[longer[i]].prev = IF i = 1 THEN NULL ELSE longer[i - 1]
                /\ majors'[longer[i]].next = IF i = N THEN NULL ELSE longer[i + 1]
      <4>1. N = n + 1
        BY <1>3
      <4> HIDE DEF N
      <4> QED
        BY <1>2, <2>1, <2>2, <2>3, <2>4, <4>1
    <3> QED
      BY <3>1 DEF IsMajorList
<1>10. prev # NULL => order[n] = prev
  <2>1. D = {} => prev = NULL
    BY DEF D
  <2> QED
    BY <1>7, <2>1
<1> QED
  <2>1. longer \in [1 .. Cardinality(DOMAIN majors') -> DOMAIN majors']
    BY <1>2, <1>3, <1>8
  <2>2. /\ Cardinality(DOMAIN majors') = Cardinality(DOMAIN majors) + 1
        /\ Cardinality(DOMAIN majors) \in Nat
        /\ longer[Cardinality(DOMAIN majors) + 1] = a
        /\ \A i \in 1 .. Cardinality(DOMAIN majors) : longer[i] = order[i]
        /\ prev # NULL => order[Cardinality(DOMAIN majors)] = prev
    BY <1>1, <1>3, <1>8, <1>10 DEF n, D
  <2> QED
    BY <1>9, <2>1, <2>2

\* liballoc_alloc returned nothing.
LEMMA NoPagesStep ==
  ASSUME IInv, op.phase \in {"root", "next"}, Return,
         UNCHANGED <<majors, minors, l_memRoot, l_bestBet, counters, brk_limit, live>>
  PROVE  IInv'
<1>1. Headers' /\ MajorsApart' /\ MinorsApart' /\ Sorted' /\ Held' /\ Accounting'
  BY LayoutKept
<1>2. \A k \in DOMAIN majors : majors[k].first # NULL
  BY DEF IInv, Calling, At
<1>3. Calling /\ Walked /\ ~ At("idle")
  BY DEF IInv, At
<1>4. Calling' /\ Walked'
  BY <1>2, <1>3, AfterReturn
<1> QED
  BY <1>1, <1>4 DEF IInv

LEMMA MallocFirstMajorStep ==
  ASSUME IInv, Hooks = "contract", MallocFirstMajor
  PROVE  IInv'
<1>1. PICK a : /\ PageAlloc(PagesFor(Size), a)
               /\ l_memRoot' = a
               /\ \/ a = NULL /\ Return /\ UNCHANGED <<majors, l_allocated>>
                  \/ /\ a # NULL
                     /\ majors' = Put(majors, a, NewMajor(NULL))
                     /\ l_allocated' = l_allocated + majors'[a].size
                     /\ op' = [op EXCEPT !.phase = "bet"]
  BY DEF MallocFirstMajor
<1>2. At("root") /\ l_memRoot = NULL /\ UNCHANGED <<minors, l_bestBet, l_inuse, live>>
  BY DEF MallocFirstMajor
<1>3. CASE a = NULL
  <2>1. UNCHANGED <<majors, minors, l_memRoot, l_bestBet, counters, brk_limit, live>> /\ Return
    BY <1>1, <1>2, <1>3 DEF PageAlloc, counters
  <2> QED
    BY <1>2, <2>1, NoPagesStep DEF At
<1>4. CASE a # NULL
  <2>1. /\ majors' = Put(majors, a, NewMajor(NULL))
        /\ l_allocated' = l_allocated + majors'[a].size
        /\ op' = [op EXCEPT !.phase = "bet"]
    BY <1>1, <1>4
  <2>2. PICK order \in [1 .. Cardinality(DOMAIN majors) -> DOMAIN majors] : IsMajorList(order)
    BY DEF IInv, Walked
  <2>3. DOMAIN majors = {}
    <3>1. DOMAIN majors # {} => l_memRoot \in DOMAIN majors
      BY <2>2, RootMajor DEF IInv
    <3> QED
      BY <1>2, <3>1, HeaderFacts DEF IInv, NULL
  <2>4. /\ DOMAIN majors' = {a} /\ majors'[a] = NewMajor(NULL)
        /\ majors' = [x \in DOMAIN majors' |-> majors'[x]]
    BY <2>1, <2>3 DEF Put
  <2>5. Grown(a, NULL)
    BY <2>3, <2>4 DEF Grown
  <2>6. op \in OpRec(DOMAIN live) /\ op.req \in Nat /\ op.req > 0
    BY <1>2, OpFacts DEF IInv, Calling, At
  <2>7. /\ Headers' /\ MajorsApart' /\ MinorsApart' /\ Sorted' /\ Held' /\ Accounting'
        /\ majors'[a].size - majors'[a].usage >= Need
        /\ majors'[a].first = NULL
    <3>1. NULL \in Nat
      BY DEF NULL
    <3> QED
      BY <1>1, <1>2, <1>4, <2>1, <2>5, <2>6, <3>1, GrownKeepsLayout
  <2>8. a \in Nat /\ a > 0
    BY <1>1, <1>4, <2>6, PagesApart DEF IInv
  <2>9. /\ op' \in OpRec(DOMAIN live) /\ op'.req = op.req /\ op'.phase = "bet"
    BY <2>1, <2>6 DEF OpRec, Phases
  <2>10. Need' = Need /\ FreeIn(a)' = majors'[a].size - majors'[a].usage
    BY <2>9 DEF Need, Size, FreeIn
  <2>11. Calling'
    <3>1. l_bestBet' \in DOMAIN majors' \cup {NULL}
      BY <1>2, <2>3 DEF IInv, Calling
    <3> QED
      BY <1>2, <2>4, <2>6, <2>7, <2>9, <2>10, <3>1 DEF Calling, At, InMajor, OpRec, FreeIn
  <2>12. Walked'
    <3>1. PICK longer \in [1 .. Cardinality(DOMAIN majors') -> DOMAIN majors'] :
             IsMajorList(longer)'
      BY <1>1, <2>2, <2>3, <2>5, <2>8, OrderGrown DEF IInv
    <3>2. l_memRoot' # NULL
      BY <1>1, <1>4
    <3> QED
      BY <2>9, <3>1, <3>2 DEF Walked, At, InMajor
  <2> QED
    BY <2>7, <2>11, <2>12 DEF IInv
<1> QED
  BY <1>3, <1>4

\* The gaps of the majors there were are what they were.
LEMMA GrownKeepsFull ==
  ASSUME Headers, MinorsApart, NEW a, NEW prev, Grown(a, prev), minors' = minors,
         op'.req = op.req, NEW m \in DOMAIN majors, Full(m)
  PROVE  Full(m)'
<1>1. /\ DOMAIN majors' = DOMAIN majors \cup {a}
      /\ \A k \in DOMAIN majors :
            majors'[k].size = majors[k].size /\ majors'[k].first = majors[k].first
  <2>1. ASSUME NEW k \in DOMAIN majors
        PROVE  majors'[k].size = majors[k].size /\ majors'[k].first = majors[k].first
    <3>1. majors'[k] = IF k = prev THEN [majors[k] EXCEPT !.next = a] ELSE majors[k]
      BY DEF Grown
    <3>2. majors[k] \in [prev : Nat, next : Nat, pages : Nat, size : Nat, usage : Nat,
                         first : Nat]
      BY DEF Headers
    <3> QED
      BY <3>1, <3>2
  <2> QED
    BY <2>1 DEF Grown
<1>2. Need' = Need
  BY DEF Need, Size
<1>3. MinorsOf(m)' = MinorsOf(m) /\ FrontGap(m)' = FrontGap(m)
  BY <1>1 DEF MinorsOf, FrontGap
<1>4. \A c \in MinorsOf(m) : GapBehind(c)' = GapBehind(c)
  <2> SUFFICES ASSUME NEW c \in MinorsOf(m) PROVE GapBehind(c)' = GapBehind(c)
    OBVIOUS
  <2>1. minors[c].block = m
    BY DEF MinorsOf
  <2> QED
    BY <1>1, <2>1 DEF GapBehind, EndOf
<1>5. Gaps(m)' = Gaps(m)
  <2>1. {GapBehind(c)' : c \in MinorsOf(m)'} = {GapBehind(c) : c \in MinorsOf(m)}
    BY <1>3, <1>4
  <2> QED
    BY <1>1, <1>3, <2>1 DEF Gaps
<1> QED
  BY <1>2, <1>5 DEF Full

\* What a walk that has tried every major knows.
LEMMA AllFull ==
  ASSUME IInv, AtLast, Exhausted
  PROVE  \A m \in DOMAIN majors : Full(m)
<1>1. PICK order, k : /\ Position(order, k) /\ order[k] = op.maj
                      /\ ~ op.startedBet => \A j \in 1 .. k - 1 : Full(order[j])
  BY WhereItIs DEF AtLast, At, InMajor
<1> DEFINE n == Cardinality(DOMAIN majors)
<1>2. /\ n \in Nat /\ k \in 1 .. n
      /\ \A i \in 1 .. n : order[i] \in DOMAIN majors /\ order[i] # NULL
      /\ \A m \in DOMAIN majors : \E i \in 1 .. n : order[i] = m
      /\ majors[order[k]].next = IF k = n THEN NULL ELSE order[k + 1]
  BY <1>1, FS_CardinalityType, HeaderFacts DEF IInv, Headers, Position, IsMajorList, NULL
<1> HIDE DEF n
<1>3. k = n
  <2> SUFFICES ASSUME k # n PROVE FALSE
    OBVIOUS
  <2>1. k + 1 \in 1 .. n
    BY <1>2
  <2> QED
    BY <1>1, <1>2, <2>1 DEF AtLast
<1>4. Full(op.maj)
  BY DEF IInv, Walked, AtLast
<1>5. \A i \in 1 .. n : Full(order[i])
  <2> SUFFICES ASSUME NEW i \in 1 .. n PROVE Full(order[i])
    OBVIOUS
  <2>1. i = k \/ i \in 1 .. k - 1
    BY <1>2, <1>3
  <2> QED
    BY <1>1, <1>4, <2>1 DEF Exhausted
<1> QED
  BY <1>2, <1>5

LEMMA MallocNewMajorStep ==
  ASSUME IInv, Hooks = "contract", MallocNewMajor
  PROVE  IInv'
<1>1. PICK a : /\ PageAlloc(PagesFor(Size), a)
               /\ \/ a = NULL /\ Return /\ UNCHANGED <<majors, l_allocated>>
                  \/ /\ a # NULL
                     /\ majors' = [Put(majors, a, NewMajor(op.maj))
                                     EXCEPT ![op.maj].next = a]
                     /\ l_allocated' = l_allocated + majors'[a].size
                     /\ op' = [op EXCEPT !.phase = IF FreeIn(op.maj) < Need
                                                   THEN "empty" ELSE "major",
                                         !.maj = a]
  BY DEF MallocNewMajor
<1>2. /\ AtLast /\ Exhausted /\ At("next")
      /\ UNCHANGED <<minors, l_memRoot, l_bestBet, l_inuse, live>>
  BY DEF MallocNewMajor, AtLast
<1>3. CASE a = NULL
  <2>1. UNCHANGED <<majors, minors, l_memRoot, l_bestBet, counters, brk_limit, live>> /\ Return
    BY <1>1, <1>2, <1>3 DEF PageAlloc, counters
  <2> QED
    BY <1>2, <2>1, NoPagesStep DEF At
<1>4. CASE a # NULL
  <2> DEFINE m == op.maj
             phase == IF FreeIn(op.maj) < Need THEN "empty" ELSE "major"
  <2>1. /\ majors' = [Put(majors, a, NewMajor(m)) EXCEPT ![m].next = a]
        /\ l_allocated' = l_allocated + majors'[a].size
        /\ op' = [op EXCEPT !.phase = phase, !.maj = a]
    BY <1>1, <1>4
  <2>2. PICK order \in [1 .. Cardinality(DOMAIN majors) -> DOMAIN majors] : IsMajorList(order)
    BY DEF IInv, Walked
  <2>3. /\ op \in OpRec(DOMAIN live) /\ op.req \in Nat /\ op.req > 0
        /\ m \in DOMAIN majors /\ m \in Nat /\ majors[m].next = NULL
        /\ ~ op.startedBet
        /\ l_bestBet \in DOMAIN majors \cup {NULL}
    BY <1>2, OpFacts DEF IInv, Calling, At, InMajor, AtLast, Exhausted
  <2>4. /\ a \in Nat /\ a > 0
        /\ \A k \in DOMAIN majors : EndOfMajor(k) <= a
                                    \/ a + PagesFor(Size) * l_pageSize <= k
        /\ PagesFor(Size) * l_pageSize \in Nat
        /\ Need + MajorSize <= PagesFor(Size) * l_pageSize
    BY <1>1, <1>4, <2>3, PagesApart DEF IInv
  <2>5. a \notin DOMAIN majors
    <3> SUFFICES ASSUME a \in DOMAIN majors PROVE FALSE
      OBVIOUS
    <3> DEFINE bytes == PagesFor(Size) * l_pageSize
    <3>1. EndOfMajor(a) <= a \/ a + bytes <= a
      BY <2>4
    <3>2. EndOfMajor(a) = a + majors[a].size /\ majors[a].size \in Nat /\ majors[a].size > 0
      BY HeaderFacts, Numbers DEF IInv, MajorsApart, EndOfMajor
    <3>3. bytes \in Nat /\ bytes > 0
      <4>1. bytes \in Nat /\ Need + MajorSize <= bytes /\ Need \in Nat
        BY <2>3, <2>4, SizeFacts
      <4> HIDE DEF bytes
      <4> QED
        BY <4>1, Numbers
    <3> HIDE DEF bytes
    <3> QED
      BY <2>4, <3>1, <3>2, <3>3
  <2>6. Grown(a, m)
    <3> DEFINE put == Put(majors, a, NewMajor(m))
    <3>1. put = [x \in DOMAIN majors \cup {a} |-> IF x = a THEN NewMajor(m) ELSE majors[x]]
      BY DEF Put
    <3>2. a # m
      BY <2>3, <2>5
    <3>3. DOMAIN put = DOMAIN majors \cup {a} /\ put[a] = NewMajor(m)
          /\ \A k \in DOMAIN majors : put[k] = majors[k]
      BY <2>5, <3>1
    <3>4. majors' = [put EXCEPT ![m] = [put[m] EXCEPT !.next = a]]
      BY <2>1
    <3> HIDE DEF put
    <3>5. /\ DOMAIN majors' = DOMAIN majors \cup {a} /\ majors'[a] = NewMajor(m)
          /\ majors' = [k \in DOMAIN majors' |-> majors'[k]]
      BY <3>2, <3>3, <3>4
    <3>6. \A k \in DOMAIN majors :
             majors'[k] = IF k = m THEN [majors[k] EXCEPT !.next = a] ELSE majors[k]
      BY <2>3, <3>3, <3>4
    <3> QED
      BY <2>5, <3>5, <3>6 DEF Grown
  <2>7. /\ Headers' /\ MajorsApart' /\ MinorsApart' /\ Sorted' /\ Held' /\ Accounting'
        /\ majors'[a].size - majors'[a].usage >= Need
        /\ majors'[a].first = NULL
    BY <1>1, <1>2, <1>4, <2>1, <2>3, <2>6, GrownKeepsLayout
  <2>8. phase \in {"empty", "major"}
    OBVIOUS
  <2> HIDE DEF phase
  <2>9. /\ op' \in OpRec(DOMAIN live) /\ op'.req = op.req /\ op'.phase = phase
        /\ op'.maj = a /\ op'.startedBet = op.startedBet
    BY <2>1, <2>3, <2>4, <2>8 DEF OpRec, Phases
  <2>10. Need' = Need
    BY <2>9 DEF Need, Size
  <2>11. DOMAIN majors' = DOMAIN majors \cup {a}
         /\ \A k \in DOMAIN majors : majors'[k].first # NULL
    <3>1. ASSUME NEW k \in DOMAIN majors PROVE majors'[k].first # NULL
      <4>1. majors'[k] = IF k = m THEN [majors[k] EXCEPT !.next = a] ELSE majors[k]
        BY <2>6 DEF Grown
      <4>2. majors[k] \in [prev : Nat, next : Nat, pages : Nat, size : Nat, usage : Nat,
                           first : Nat]
        BY DEF IInv, Headers
      <4>3. majors[k].first # NULL
        BY <1>2 DEF IInv, Calling, At
      <4> QED
        BY <4>1, <4>2, <4>3
    <3> QED
      BY <2>6, <3>1 DEF Grown
  <2>12. Calling'
    <3>1. l_bestBet' \in DOMAIN majors' \cup {NULL}
      BY <1>2, <2>3, <2>11
    <3>2. op'.maj \in DOMAIN majors'
      BY <2>9, <2>11
    <3>3. live' = live
      BY <1>2
    <3>4. \A k \in DOMAIN majors' : majors'[k].first = NULL => k = a
      BY <2>11
    <3>5. \A k \in DOMAIN majors' :
             majors'[k].first = NULL =>
                 /\ majors'[k].size - majors'[k].usage >= Need'
                 /\ op'.phase \in {"major", "empty"} /\ op'.maj = k
      BY <2>7, <2>8, <2>9, <2>10, <3>4
    <3> QED
      BY <2>3, <2>7, <2>8, <2>9, <2>10, <3>1, <3>2, <3>3, <3>5
         DEF Calling, At, InMajor, OpRec, FreeIn
  <2>13. Walked'
    <3> DEFINE n == Cardinality(DOMAIN majors)
    <3>1. PICK longer :
            /\ longer \in [1 .. Cardinality(DOMAIN majors') -> DOMAIN majors']
            /\ IsMajorList(longer)'
            /\ Cardinality(DOMAIN majors') = n + 1
            /\ n \in Nat
            /\ longer[n + 1] = a
            /\ \A i \in 1 .. n : longer[i] = order[i]
      <4>1. DOMAIN majors # {} /\ l_memRoot' = l_memRoot
        BY <1>2, <2>3
      <4>2. Headers
        BY DEF IInv
      <4>3. m \in DOMAIN majors /\ majors[m].next = NULL
        BY <2>3
      <4> HIDE DEF m
      <4>4. \E longer :
               /\ longer \in [1 .. Cardinality(DOMAIN majors') -> DOMAIN majors']
               /\ IsMajorList(longer)'
               /\ Cardinality(DOMAIN majors') = Cardinality(DOMAIN majors) + 1
               /\ Cardinality(DOMAIN majors) \in Nat
               /\ longer[Cardinality(DOMAIN majors) + 1] = a
               /\ \A i \in 1 .. Cardinality(DOMAIN majors) : longer[i] = order[i]
               /\ m # NULL => order[Cardinality(DOMAIN majors)] = m
        BY <2>2, <2>4, <2>6, <4>1, <4>2, <4>3, OrderGrown
      <4> QED
        BY <4>4
    <3>2. \A k \in DOMAIN majors : Full(k)
      BY <1>2, AllFull
    <3>3. \A k \in DOMAIN majors : Full(k)'
      BY <1>2, <2>6, <2>9, <3>2, GrownKeepsFull DEF IInv
    <3>4. \A j \in 1 .. (n + 1) - 1 : Full(longer[j])'
      <4> SUFFICES ASSUME NEW j \in 1 .. (n + 1) - 1 PROVE Full(longer[j])'
        OBVIOUS
      <4>1. j \in 1 .. n /\ order[j] \in DOMAIN majors
        BY <2>2, <3>1
      <4> QED
        BY <3>1, <3>3, <4>1
    <3>5. n + 1 \in 1 .. Cardinality(DOMAIN majors')
      BY <3>1
    <3> HIDE DEF n
    <3>6. op'.phase \in {"empty", "major"}
      BY <2>8, <2>9
    <3>7. \E k \in 1 .. Cardinality(DOMAIN majors') :
             /\ longer[k] = op'.maj
             /\ ~ op'.startedBet => \A j \in 1 .. k - 1 : Full(longer[j])'
      BY <2>9, <3>1, <3>4, <3>5
    <3> QED
      BY <3>1, <3>6, <3>7 DEF Walked, At
  <2> QED
    BY <2>7, <2>12, <2>13 DEF IInv
<1> QED
  BY <1>3, <1>4

-----------------------------------------------------------------------------
(* A block is freed.                                                       *)

\* The header behind a block that is held.
LEMMA HeldFacts ==
  ASSUME Headers, Held, NEW b \in DOMAIN live
  PROVE  /\ MinorOf(b) \in DOMAIN minors
         /\ b = BlockAt(minors, MinorOf(b))
         /\ \A c \in DOMAIN live : MinorOf(c) = MinorOf(b) => c = b
<1>1. ASSUME NEW c \in DOMAIN live
      PROVE  MinorOf(c) \in DOMAIN minors /\ c = BlockAt(minors, MinorOf(c))
  <2>1. PICK a \in DOMAIN minors : c = BlockAt(minors, a)
    BY DEF Held
  <2>2. MinorOf(c) = a
    BY <2>1, HeaderFacts, BlockFacts
  <2> QED
    BY <2>1, <2>2
<1> QED
  BY <1>1

\* The minors without a.
LEMMA UnlinkedFacts ==
  ASSUME Headers, NEW a \in DOMAIN minors, minors' = Unlinked(a),
         minors[a].prev \in Nat, minors[a].next \in Nat
  PROVE  /\ DOMAIN minors' = DOMAIN minors \ {a}
         /\ \A x \in DOMAIN minors \ {a} :
               /\ minors'[x].block = minors[x].block
               /\ minors'[x].size = minors[x].size
               /\ minors'[x].req_size = minors[x].req_size
               /\ minors'[x].prev = IF x = minors[a].next THEN minors[a].prev
                                    ELSE minors[x].prev
               /\ minors'[x].next = IF x = minors[a].prev THEN minors[a].next
                                    ELSE minors[x].next
         /\ \A k : MinorsIn(minors', k) = MinorsIn(minors, k) \ {a}
         /\ minors' \in [DOMAIN minors' -> [prev : Nat, next : Nat, block : Nat, size : Nat,
                                            req_size : Nat]]
         /\ IsFiniteSet(DOMAIN minors') /\ DOMAIN minors' \subseteq Nat \ {0}
<1> DEFINE MinorRec == [prev : Nat, next : Nat, block : Nat, size : Nat, req_size : Nat]
<1>1. minors' = [x \in DOMAIN minors \ {a} |->
                   [minors[x] EXCEPT !.prev = IF x = minors[a].next THEN minors[a].prev ELSE @,
                                     !.next = IF x = minors[a].prev THEN minors[a].next ELSE @]]
  BY DEF Unlinked
<1>2. DOMAIN minors' = DOMAIN minors \ {a}
  BY <1>1
<1>3. ASSUME NEW x \in DOMAIN minors \ {a}
      PROVE  /\ minors'[x].block = minors[x].block
             /\ minors'[x].size = minors[x].size
             /\ minors'[x].req_size = minors[x].req_size
             /\ minors'[x].prev = IF x = minors[a].next THEN minors[a].prev
                                  ELSE minors[x].prev
             /\ minors'[x].next = IF x = minors[a].prev THEN minors[a].next
                                  ELSE minors[x].next
             /\ minors'[x] \in MinorRec
  <2>1. minors'[x] = [minors[x] EXCEPT
                        !.prev = IF x = minors[a].next THEN minors[a].prev ELSE @,
                        !.next = IF x = minors[a].prev THEN minors[a].next ELSE @]
    BY <1>1
  <2>2. minors[x] \in MinorRec
    BY DEF Headers
  <2> QED
    BY <2>1, <2>2
<1>4. \A k : MinorsIn(minors', k) = MinorsIn(minors, k) \ {a}
  BY <1>2, <1>3 DEF MinorsIn
<1>5. minors' \in [DOMAIN minors' -> MinorRec]
  <2>1. minors' = [x \in DOMAIN minors' |-> minors'[x]]
    BY <1>1
  <2> HIDE DEF MinorRec
  <2> QED
    BY <1>2, <1>3, <2>1
<1>6. IsFiniteSet(DOMAIN minors') /\ DOMAIN minors' \subseteq Nat \ {0}
  BY <1>2, FS_Subset DEF Headers
<1> QED
  BY <1>2, <1>3, <1>4, <1>5, <1>6

\* What is free of the majors: all but the major m of the minor that leaves keep
\* their size, use and first minor.
OthersKept(m) ==
    /\ DOMAIN majors' \subseteq DOMAIN majors
    /\ majors' = [k \in DOMAIN majors' |-> majors'[k]]
    /\ \A k \in DOMAIN majors' :
          /\ majors'[k].prev \in Nat /\ majors'[k].next \in Nat
          /\ majors'[k].size = majors[k].size
          /\ majors'[k] \in [prev : Nat, next : Nat, pages : Nat, size : Nat, usage : Nat,
                             first : Nat]
    /\ \A k \in DOMAIN majors' \ {m} :
          majors'[k].usage = majors[k].usage /\ majors'[k].first = majors[k].first
    /\ \A k \in DOMAIN majors \ {m} : k \in DOMAIN majors'

\* The layout after the minor a of m has left.
LEMMA FreeKeepsLayout ==
  ASSUME IInv, NEW a \in DOMAIN minors, NEW m, m = minors[a].block,
         minors' = Unlinked(a), OthersKept(m), brk_limit' = brk_limit,
         m \in DOMAIN majors' =>
            majors'[m].first = IF minors[a].prev = NULL THEN minors[a].next
                               ELSE majors[m].first,
         m \notin DOMAIN majors' => MinorsIn(minors, m) = {a}
  PROVE  Headers' /\ MajorsApart' /\ MinorsApart' /\ Sorted'
<1>1. Headers /\ MajorsApart /\ MinorsApart /\ Sorted
  BY DEF IInv
<1>2. /\ minors[a].prev \in Nat /\ minors[a].next \in Nat /\ m \in DOMAIN majors
  BY <1>1, HeaderFacts DEF MinorsApart
<1>3. /\ DOMAIN minors' = DOMAIN minors \ {a}
      /\ \A x \in DOMAIN minors \ {a} :
            /\ minors'[x].block = minors[x].block
            /\ minors'[x].size = minors[x].size
            /\ minors'[x].prev = IF x = minors[a].next THEN minors[a].prev
                                 ELSE minors[x].prev
            /\ minors'[x].next = IF x = minors[a].prev THEN minors[a].next
                                 ELSE minors[x].next
      /\ \A k : MinorsIn(minors', k) = MinorsIn(minors, k) \ {a}
      /\ minors' \in [DOMAIN minors' -> [prev : Nat, next : Nat, block : Nat, size : Nat,
                                         req_size : Nat]]
      /\ IsFiniteSet(DOMAIN minors') /\ DOMAIN minors' \subseteq Nat \ {0}
  BY <1>1, <1>2, UnlinkedFacts
<1>4. /\ DOMAIN majors' \subseteq DOMAIN majors
      /\ \A k \in DOMAIN majors' : majors'[k].size = majors[k].size
      /\ \A k \in DOMAIN majors' \ {m} : majors'[k].first = majors[k].first
      /\ \A k \in DOMAIN majors \ {m} : k \in DOMAIN majors'
  BY DEF OthersKept
<1>5. Headers'
  <2> DEFINE MajorRec == [prev : Nat, next : Nat, pages : Nat, size : Nat, usage : Nat,
                          first : Nat]
  <2>1. \A k \in DOMAIN majors' : majors'[k] \in MajorRec
    BY DEF OthersKept
  <2>2. majors' = [k \in DOMAIN majors' |-> majors'[k]]
    BY DEF OthersKept
  <2> HIDE DEF MajorRec
  <2>3. majors' \in [DOMAIN majors' -> MajorRec]
    BY <2>1, <2>2
  <2>4. IsFiniteSet(DOMAIN majors') /\ DOMAIN majors' \subseteq Nat \ {0}
    BY <1>1, <1>4, FS_Subset DEF Headers
  <2>5. brk_limit' \in Nat
    BY <1>1 DEF Headers
  <2> QED
    BY <1>3, <2>3, <2>4, <2>5 DEF Headers, MajorRec
<1>6. MajorsApart'
  BY <1>1, <1>4 DEF MajorsApart, EndOfMajor
<1>7. \A x \in DOMAIN minors' : /\ x \in DOMAIN minors
                                /\ minors'[x].block = minors[x].block
                                /\ minors'[x].block \in DOMAIN majors'
                                /\ EndOf(x)' = EndOf(x)
  <2> SUFFICES ASSUME NEW x \in DOMAIN minors'
               PROVE  /\ x \in DOMAIN minors
                      /\ minors'[x].block = minors[x].block
                      /\ minors'[x].block \in DOMAIN majors'
                      /\ EndOf(x)' = EndOf(x)
    OBVIOUS
  <2>1. x \in DOMAIN minors /\ x # a /\ minors[x].block \in DOMAIN majors
    BY <1>1, <1>3 DEF MinorsApart
  <2>2. minors[x].block = m => m \in DOMAIN majors'
    <3> SUFFICES ASSUME minors[x].block = m, m \notin DOMAIN majors' PROVE FALSE
      OBVIOUS
    <3>1. x \in MinorsIn(minors, m)
      BY <2>1 DEF MinorsIn
    <3> QED
      BY <2>1, <3>1
  <2> QED
    BY <1>3, <1>4, <2>1, <2>2 DEF EndOf
<1>8. MinorsApart'
  BY <1>1, <1>4, <1>7 DEF MinorsApart
<1> DEFINE S == MinorsIn(minors, m)
           p == minors[a].prev
           n == minors[a].next
<1>9. /\ a \in S /\ IsPrev(S, a, p) /\ IsNext(S, a, n)
      /\ \A x \in S : x \in Nat /\ x > 0
  <2>1. \A x \in DOMAIN minors : x \in Nat /\ x > 0
    BY <1>1, HeaderFacts
  <2> QED
    BY <1>1, <2>1 DEF Sorted, MinorsIn
<1>10. \A x \in DOMAIN minors : x \in S <=> minors[x].block = m
  BY DEF MinorsIn
<1> HIDE DEF S, p, n
<1>11. /\ p \in (S \ {a}) \cup {NULL} /\ n \in (S \ {a}) \cup {NULL}
       /\ \A f : IsNext(S, 0, f) => IsNext(S \ {a}, 0, IF p = NULL THEN n ELSE f)
       /\ \A x \in S \ {a} : \A q :
             IsPrev(S, x, q) => IsPrev(S \ {a}, x, IF x = n THEN p ELSE q)
       /\ \A x \in S \ {a} : \A q :
             IsNext(S, x, q) => IsNext(S \ {a}, x, IF x = p THEN n ELSE q)
  BY <1>9, Removed
<1>12. ASSUME NEW k \in DOMAIN majors'
       PROVE  IsNext(MinorsIn(minors', k), 0, majors'[k].first)
  <2>1. IsNext(MinorsIn(minors, k), 0, majors[k].first)
    BY <1>1, <1>4 DEF Sorted
  <2>2. CASE k = m
    <3>1. /\ MinorsIn(minors', k) = S \ {a} /\ MinorsIn(minors, k) = S
          /\ majors'[k].first = IF p = NULL THEN n ELSE majors[k].first
      BY <1>3, <2>2 DEF S, p, n
    <3> QED
      BY <1>11, <2>1, <3>1
  <2>3. CASE k # m
    <3>1. a \notin MinorsIn(minors, k)
      BY <2>3 DEF MinorsIn
    <3>2. MinorsIn(minors, k) \ {a} = MinorsIn(minors, k)
      BY <3>1
    <3>3. MinorsIn(minors', k) = MinorsIn(minors, k)
      BY <1>3, <3>2
    <3>4. majors'[k].first = majors[k].first
      BY <1>4, <2>3
    <3> QED
      BY <2>1, <3>3, <3>4
  <2> QED
    BY <2>2, <2>3
<1>13. ASSUME NEW x \in DOMAIN minors'
       PROVE  /\ IsPrev(MinorsIn(minors', minors'[x].block), x, minors'[x].prev)
              /\ IsNext(MinorsIn(minors', minors'[x].block), x, minors'[x].next)
  <2> DEFINE k == minors[x].block
  <2>1. /\ x \in DOMAIN minors \ {a} /\ minors'[x].block = k /\ x # NULL
        /\ minors'[x].prev = IF x = n THEN p ELSE minors[x].prev
        /\ minors'[x].next = IF x = p THEN n ELSE minors[x].next
    BY <1>1, <1>3, HeaderFacts DEF n, p, NULL
  <2>2. IsPrev(MinorsIn(minors, k), x, minors[x].prev) /\ IsNext(MinorsIn(minors, k), x, minors[x].next)
    BY <1>1, <2>1 DEF Sorted
  <2>3. CASE k = m
    <3>1. MinorsIn(minors', k) = S \ {a} /\ MinorsIn(minors, k) = S /\ x \in S \ {a}
      BY <1>3, <1>10, <2>1, <2>3 DEF S
    <3> QED
      BY <1>11, <2>1, <2>2, <3>1
  <2>4. CASE k # m
    <3>1. a \notin MinorsIn(minors, k)
      BY <2>4 DEF MinorsIn
    <3>2. MinorsIn(minors', k) = MinorsIn(minors, k)
      <4>1. MinorsIn(minors, k) \ {a} = MinorsIn(minors, k)
        BY <3>1
      <4> QED
        BY <1>3, <4>1
    <3>3. x \notin S
      BY <1>10, <2>1, <2>4
    <3>4. x # n /\ x # p
      BY <1>11, <2>1, <3>3
    <3> QED
      BY <2>1, <2>2, <3>2, <3>4
  <2> QED
    BY <2>3, <2>4
<1>14. Sorted'
  BY <1>12, <1>13 DEF Sorted
<1> QED
  BY <1>5, <1>6, <1>8, <1>14

LEMMA FreeKeepsHeld ==
  ASSUME Headers, Held, NEW b \in DOMAIN live, minors' = Unlinked(MinorOf(b)),
         live' = live (-) SetToBag({b})
  PROVE  Held' /\ DOMAIN live' = DOMAIN live \ {b}
<1> DEFINE a == MinorOf(b)
<1>1. /\ a \in DOMAIN minors /\ b = BlockAt(minors, a)
      /\ \A c \in DOMAIN live : MinorOf(c) = a => c = b
  BY HeldFacts
<1>2. minors[a].prev \in Nat /\ minors[a].next \in Nat
  BY <1>1, HeaderFacts
<1> HIDE DEF a
<1>3. /\ DOMAIN minors' = DOMAIN minors \ {a}
      /\ \A x \in DOMAIN minors \ {a} :
            minors'[x].size = minors[x].size /\ minors'[x].req_size = minors[x].req_size
  BY <1>1, <1>2, UnlinkedFacts DEF a
<1>4. DOMAIN live' = DOMAIN live \ {b} /\ \A c \in DOMAIN live' : live'[c] = 1
  <2>1. \A c \in DOMAIN live : live[c] = 1
    BY DEF Held
  <2>2. /\ DOMAIN (live (-) SetToBag({b})) = DOMAIN live \ {b}
        /\ \A c \in DOMAIN (live (-) SetToBag({b})) : (live (-) SetToBag({b}))[c] = 1
    BY <2>1, BagRemove
  <2> QED
    BY <2>2
<1>5. \A x \in DOMAIN minors' : BlockAt(minors', x) = BlockAt(minors, x)
  BY <1>3 DEF BlockAt
<1>6. DOMAIN live' = {BlockAt(minors', x) : x \in DOMAIN minors'}
  <2>1. \A c : c \in DOMAIN live <=> \E x \in DOMAIN minors : c = BlockAt(minors, x)
    BY DEF Held
  <2>2. \A x \in DOMAIN minors : MinorOf(BlockAt(minors, x)) = x
    BY HeaderFacts, BlockFacts
  <2>3. ASSUME NEW c \in DOMAIN live'
        PROVE  \E x \in DOMAIN minors' : c = BlockAt(minors', x)
    <3>1. c \in DOMAIN live /\ c # b
      BY <1>4
    <3>2. PICK x \in DOMAIN minors : c = BlockAt(minors, x)
      BY <2>1, <3>1
    <3>3. x # a
      BY <1>1, <3>1, <3>2
    <3> QED
      BY <1>3, <1>5, <3>2, <3>3
  <2>4. ASSUME NEW x \in DOMAIN minors'
        PROVE  BlockAt(minors', x) \in DOMAIN live'
    <3>1. x \in DOMAIN minors /\ x # a
      BY <1>3
    <3>2. BlockAt(minors, x) \in DOMAIN live /\ BlockAt(minors, x) # b
      BY <1>1, <2>1, <2>2, <3>1
    <3> QED
      BY <1>4, <1>5, <3>2
  <2> QED
    BY <2>3, <2>4
<1>7. \A x \in DOMAIN minors' : minors'[x].req_size + ALIGNMENT + ALIGN_INFO <= minors'[x].size
  BY <1>3 DEF Held
<1> QED
  BY <1>4, <1>6, <1>7 DEF Held

\* The usage without a is that of the minors that stay.
LEMMA UsageLeft ==
  ASSUME Headers, MinorsApart, Accounting, NEW a \in DOMAIN minors
  PROVE  /\ UsageWithout(a) \in Nat
         /\ UsageWithout(a) =
               MajorSize + SumOver(WholeOf, MinorsIn(minors, minors[a].block) \ {a})
<1> DEFINE m == minors[a].block
           S == MinorsOf(minors[a].block)
<1>1. m \in DOMAIN majors
  BY DEF MinorsApart
<1>2. UsageWithout(a) = majors[m].usage - WholeOf[a]
  BY DEF UsageWithout, WholeOf
<1>3. majors[m].usage = MajorSize + SumOver(WholeOf, S)
  BY <1>1, AccountingIs
<1>4. a \in S /\ S = MinorsIn(minors, m)
  BY DEF MinorsOf, MinorsIn
<1>5. IsFiniteSet(S)
  BY HeaderFacts
<1>6. IsFiniteSet(S \ {a})
  BY <1>5, FS_Subset
<1>7. \A x \in S : WholeOf[x] \in Nat /\ WholeOf[x] \in Int
  BY <1>1, WholeFacts
<1> HIDE DEF m, S
<1>8. SumOver(WholeOf, S) = WholeOf[a] + SumOver(WholeOf, S \ {a})
  BY <1>4, <1>5, <1>7, SumStep
<1>9. SumOver(WholeOf, S \ {a}) \in Nat /\ WholeOf[a] \in Nat
  BY <1>4, <1>6, <1>7, SumNat
<1> QED
  BY <1>2, <1>3, <1>4, <1>8, <1>9, Numbers DEF m

\* The sum of what is used, and of what the minors of the majors take.
LEMMA FreeKeepsUse ==
  ASSUME Headers, MinorsApart, Accounting, NEW a \in DOMAIN minors, NEW m,
         m = minors[a].block, minors' = Unlinked(a), OthersKept(m),
         l_inuse' = l_inuse - minors[a].size,
         m \in DOMAIN majors' => majors'[m].usage = UsageWithout(a)
  PROVE  /\ l_inuse' = SumOver([x \in DOMAIN minors' |-> minors'[x].size], DOMAIN minors')
         /\ \A k \in DOMAIN majors' :
               majors'[k].usage =
                  MajorSize + SumOver([x \in DOMAIN minors' |-> minors'[x].size + MinorSize],
                                      MinorsOf(k)')
<1> DEFINE used == [x \in DOMAIN minors |-> minors[x].size]
           whole == [x \in DOMAIN minors |-> minors[x].size + MinorSize]
<1>1. /\ minors[a].prev \in Nat /\ minors[a].next \in Nat /\ m \in DOMAIN majors
  BY HeaderFacts DEF MinorsApart
<1>2. /\ DOMAIN minors' = DOMAIN minors \ {a}
      /\ \A x \in DOMAIN minors \ {a} : minors'[x].size = minors[x].size
      /\ \A k : MinorsIn(minors', k) = MinorsIn(minors, k) \ {a}
  BY <1>1, UnlinkedFacts
<1>3. /\ \A x \in DOMAIN minors : used[x] = minors[x].size /\ used[x] \in Int
      /\ \A x \in DOMAIN minors : whole[x] = minors[x].size + MinorSize /\ whole[x] \in Nat
                                  /\ whole[x] \in Int
  BY HeaderFacts, Numbers
<1>4. /\ \A x \in DOMAIN minors \ {a} : used'[x] = used[x]
      /\ \A x \in DOMAIN minors \ {a} : whole'[x] = whole[x]
  BY <1>2
<1>5. /\ l_inuse = SumOver(used, DOMAIN minors)
      /\ \A k \in DOMAIN majors :
            majors[k].usage = MajorSize + SumOver(whole, MinorsIn(minors, k))
  BY DEF Accounting, MinorsOf, MinorsIn
<1>6. IsFiniteSet(DOMAIN minors) /\ IsFiniteSet(DOMAIN minors \ {a})
  BY FS_Subset DEF Headers
<1>7. l_inuse' = SumOver(used', DOMAIN minors')
  <2> HIDE DEF used
  <2>1. SumOver(used, DOMAIN minors) = used[a] + SumOver(used, DOMAIN minors \ {a})
    BY <1>3, <1>6, SumStep
  <2>2. SumOver(used', DOMAIN minors \ {a}) = SumOver(used, DOMAIN minors \ {a})
    BY <1>3, <1>4, <1>6, SumAgree
  <2>3. SumOver(used, DOMAIN minors \ {a}) \in Int
    BY <1>3, <1>6, SumType
  <2> QED
    BY <1>2, <1>3, <1>5, <2>1, <2>2, <2>3
<1>8. UsageWithout(a) = MajorSize + SumOver(whole, MinorsIn(minors, m) \ {a})
  BY UsageLeft DEF WholeOf
<1>9. ASSUME NEW k \in DOMAIN majors'
      PROVE  majors'[k].usage = MajorSize + SumOver(whole', MinorsOf(k)')
  <2> DEFINE S == MinorsIn(minors, k)
  <2>1. MinorsOf(k)' = S \ {a} /\ S \subseteq DOMAIN minors
    BY <1>2 DEF MinorsOf, MinorsIn
  <2>2. IsFiniteSet(S \ {a}) /\ \A x \in S \ {a} : x \in DOMAIN minors \ {a}
    BY <1>6, <2>1, FS_Subset
  <2> HIDE DEF whole, S
  <2>3. SumOver(whole', S \ {a}) = SumOver(whole, S \ {a})
    BY <1>3, <1>4, <2>2, SumAgree
  <2>4. CASE k = m
    <3>1. majors'[k].usage = UsageWithout(a)
      BY <2>4
    <3> QED
      BY <1>8, <2>1, <2>3, <2>4, <3>1 DEF S
  <2>5. CASE k # m
    <3>1. majors'[k].usage = majors[k].usage /\ k \in DOMAIN majors
      BY <2>5 DEF OthersKept
    <3>2. a \notin MinorsIn(minors, k)
      BY <2>5 DEF MinorsIn
    <3>3. S \ {a} = S
      BY <3>2 DEF S
    <3> QED
      BY <1>5, <2>1, <2>3, <3>1, <3>3 DEF S
  <2> QED
    BY <2>4, <2>5
<1> QED
  BY <1>7, <1>8, <1>9

\* No call is in progress.
Ended == op' \in OpRec({}) /\ op'.phase = "idle" /\ op'.old = {}

\* The call is over, the block it moved freed, or there was none.
LEMMA AfterFree ==
  ASSUME IInv, Ended, l_bestBet' \in DOMAIN majors' \cup {NULL},
         \A k \in DOMAIN majors' : majors'[k].first # NULL,
         NEW order, order \in [1 .. Cardinality(DOMAIN majors') -> DOMAIN majors'],
         IsMajorList(order)'
  PROVE  Calling' /\ Walked'
<1>1. op' \in OpRec(DOMAIN live')
  BY DEF Ended, OpRec
<1>2. op'.phase = "idle" /\ op'.old = {}
  BY DEF Ended
<1>3. Calling'
  BY <1>1, <1>2 DEF Calling, At, InMajor, OpRec
<1>4. Walked'
  BY <1>2 DEF Walked, At, InMajor
<1> QED
  BY <1>3, <1>4

LEMMA FreeInMajorStep ==
  ASSUME IInv, NEW b \in DOMAIN live, Ended,
         live' = live (-) SetToBag({b}), minors' = Unlinked(MinorOf(b)),
         l_inuse' = l_inuse - minors[MinorOf(b)].size, FreeInMajor(MinorOf(b)),
         \A k \in DOMAIN majors : majors[k].first # NULL
  PROVE  IInv'
<1> DEFINE a == MinorOf(b)
           m == minors[a].block
           first == IF minors[a].prev = NULL THEN minors[a].next ELSE majors[m].first
<1>1. Headers /\ MajorsApart /\ MinorsApart /\ Sorted /\ Held /\ Accounting
  BY DEF IInv
<1>2. a \in DOMAIN minors /\ m \in DOMAIN majors
  BY <1>1, HeldFacts DEF MinorsApart
<1>3. /\ first # NULL
      /\ majors' = [majors EXCEPT ![m].usage = UsageWithout(a), ![m].first = first]
      /\ l_bestBet' = m \/ l_bestBet' = l_bestBet
      /\ UNCHANGED <<l_memRoot, l_allocated, brk_limit>>
  BY DEF FreeInMajor
<1> DEFINE MajorRec == [prev : Nat, next : Nat, pages : Nat, size : Nat, usage : Nat,
                        first : Nat]
<1>4. UsageWithout(a) \in Nat
  BY <1>1, <1>2, UsageLeft
<1>5. first \in Nat
  BY <1>1, <1>2, HeaderFacts
<1> HIDE DEF first
<1>6. /\ DOMAIN majors' = DOMAIN majors
      /\ \A k \in DOMAIN majors :
            /\ majors'[k].prev = majors[k].prev /\ majors'[k].next = majors[k].next
            /\ majors'[k].size = majors[k].size
            /\ majors'[k].usage = IF k = m THEN UsageWithout(a) ELSE majors[k].usage
            /\ majors'[k].first = IF k = m THEN first ELSE majors[k].first
            /\ majors'[k] \in MajorRec
  <2>1. DOMAIN majors' = DOMAIN majors
    BY <1>3
  <2>2. ASSUME NEW k \in DOMAIN majors
        PROVE  /\ majors'[k].prev = majors[k].prev /\ majors'[k].next = majors[k].next
               /\ majors'[k].size = majors[k].size
               /\ majors'[k].usage = IF k = m THEN UsageWithout(a) ELSE majors[k].usage
               /\ majors'[k].first = IF k = m THEN first ELSE majors[k].first
               /\ majors'[k] \in MajorRec
    <3>1. majors[k] \in MajorRec
      BY <1>1 DEF Headers
    <3>2. CASE k = m
      <4>1. majors'[k] = [majors[k] EXCEPT !.usage = UsageWithout(a), !.first = first]
        BY <1>3, <3>2
      <4> QED
        BY <1>4, <1>5, <3>1, <3>2, <4>1
    <3>3. CASE k # m
      <4>1. majors'[k] = majors[k]
        BY <1>3, <3>3
      <4> QED
        BY <3>1, <3>3, <4>1
    <3> QED
      BY <3>2, <3>3
  <2> QED
    BY <2>1, <2>2
<1>7. OthersKept(m)
  <2>1. majors' = [k \in DOMAIN majors' |-> majors'[k]]
    BY <1>3
  <2>2. \A k \in DOMAIN majors : majors[k].prev \in Nat /\ majors[k].next \in Nat
    BY <1>1, HeaderFacts
  <2> HIDE DEF m
  <2> QED
    BY <1>6, <2>1, <2>2 DEF OthersKept
<1>8. Headers' /\ MajorsApart' /\ MinorsApart' /\ Sorted'
  <2>1. majors'[m].first = IF minors[a].prev = NULL THEN minors[a].next ELSE majors[m].first
    BY <1>2, <1>6 DEF first
  <2>2. m \in DOMAIN majors' /\ brk_limit' = brk_limit
    BY <1>2, <1>3, <1>6
  <2> QED
    BY <1>2, <1>7, <2>1, <2>2, FreeKeepsLayout
<1>9. Held' /\ DOMAIN live' = DOMAIN live \ {b}
  BY <1>1, FreeKeepsHeld
<1>10. Accounting'
  <2>1. majors'[m].usage = UsageWithout(a)
    BY <1>2, <1>6
  <2>2. /\ l_inuse' = SumOver([x \in DOMAIN minors' |-> minors'[x].size], DOMAIN minors')
        /\ \A k \in DOMAIN majors' :
              majors'[k].usage =
                 MajorSize + SumOver([x \in DOMAIN minors' |-> minors'[x].size + MinorSize],
                                     MinorsOf(k)')
    BY <1>1, <1>2, <1>7, <2>1, FreeKeepsUse
  <2>3. [k \in DOMAIN majors' |-> majors'[k].size] = [k \in DOMAIN majors |-> majors[k].size]
    BY <1>6
  <2>4. l_allocated' = SumOver([k \in DOMAIN majors' |-> majors'[k].size], DOMAIN majors')
    BY <1>1, <1>3, <1>6, <2>3 DEF Accounting
  <2> QED
    BY <2>2, <2>4 DEF Accounting
<1>11. \A k \in DOMAIN majors' : majors'[k].first # NULL
  BY <1>3, <1>6
<1>12. l_bestBet' \in DOMAIN majors' \cup {NULL}
  BY <1>2, <1>3, <1>6 DEF IInv, Calling
<1>13. PICK order \in [1 .. Cardinality(DOMAIN majors) -> DOMAIN majors] : IsMajorList(order)
  BY DEF IInv, Walked
<1>14. IsMajorList(order)'
  BY <1>3, <1>6, <1>13, OrderKept
<1>15. Calling' /\ Walked'
  BY <1>6, <1>11, <1>12, <1>13, <1>14, AfterFree
<1> QED
  BY <1>8, <1>9, <1>10, <1>15 DEF IInv

\* The list names every major once.
LEMMA OrderOnce ==
  ASSUME Headers, NEW order \in [1 .. Cardinality(DOMAIN majors) -> DOMAIN majors],
         IsMajorList(order)
  PROVE  /\ Cardinality(DOMAIN majors) \in Nat
         /\ \A i, j \in 1 .. Cardinality(DOMAIN majors) : order[i] = order[j] => i = j
<1> DEFINE D == DOMAIN majors
           n == Cardinality(D)
<1>1. n \in Nat
  BY FS_CardinalityType DEF Headers
<1>2. \A m \in D : \E i \in 1 .. n : order[i] = m
  BY DEF IsMajorList
<1>3. order \in [1 .. n -> D]
  OBVIOUS
<1> HIDE DEF n, D
<1>4. order \in Surjection(1 .. n, D)
  BY <1>2, <1>3 DEF Surjection
<1>5. IsFiniteSet(1 .. n) /\ Cardinality(1 .. n) = n
  BY <1>1, FS_Interval
<1>6. Cardinality(D) = n
  BY DEF n
<1>7. order \in Injection(1 .. n, D)
  BY <1>4, <1>5, <1>6, FS_Surjection
<1>8. \A i, j \in 1 .. n : order[i] = order[j] => i = j
  BY <1>7 DEF Injection, IsInjective
<1> QED
  BY <1>1, <1>8 DEF n, D

\* The list without a major.
LEMMA OrderShrunk ==
  ASSUME Headers, NEW m \in DOMAIN majors,
         majors' = MajorsWithout(m), l_memRoot' = RootWithout(m),
         NEW order \in [1 .. Cardinality(DOMAIN majors) -> DOMAIN majors],
         IsMajorList(order)
  PROVE  \E shorter \in [1 .. Cardinality(DOMAIN majors') -> DOMAIN majors'] :
            IsMajorList(shorter)'
<1> DEFINE D == DOMAIN majors
           n == Cardinality(D)
<1>1. /\ n \in Nat
      /\ \A i, j \in 1 .. n : order[i] = order[j] => i = j
  BY OrderOnce
<1>2. DOMAIN majors' = D \ {m} /\ Cardinality(DOMAIN majors') = n - 1
  <2>1. DOMAIN majors' = D \ {m}
    BY DEF MajorsWithout
  <2>2. IsFiniteSet(D) /\ m \in D
    BY DEF Headers
  <2> HIDE DEF D
  <2>3. Cardinality(D \ {m}) = n - 1
    BY <2>2, FS_RemoveElement
  <2> QED
    BY <2>1, <2>3
<1>3. /\ \A k \in D : \E i \in 1 .. n : order[i] = k
      /\ l_memRoot = IF n = 0 THEN NULL ELSE order[1]
      /\ \A i \in 1 .. n :
            /\ majors[order[i]].prev = IF i = 1 THEN NULL ELSE order[i - 1]
            /\ majors[order[i]].next = IF i = n THEN NULL ELSE order[i + 1]
  BY DEF IsMajorList
<1>4. \A i \in 1 .. n : order[i] \in D /\ order[i] # NULL
  BY HeaderFacts DEF NULL
<1>5. PICK p \in 1 .. n : order[p] = m
  BY <1>3
<1> DEFINE before == majors[m].prev
           after == majors[m].next
<1>6. /\ before = IF p = 1 THEN NULL ELSE order[p - 1]
      /\ after = IF p = n THEN NULL ELSE order[p + 1]
  BY <1>3, <1>5
<1>7. ASSUME NEW i \in 1 .. n, i # p
      PROVE  /\ order[i] \in D \ {m}
             /\ majors'[order[i]].prev = IF order[i] = after THEN before
                                         ELSE majors[order[i]].prev
             /\ majors'[order[i]].next = IF order[i] = before THEN after
                                         ELSE majors[order[i]].next
  <2>1. order[i] \in D \ {m}
    BY <1>1, <1>4, <1>5, <1>7
  <2>2. majors'[order[i]] =
           [majors[order[i]] EXCEPT
              !.prev = IF order[i] = majors[m].next THEN majors[m].prev ELSE @,
              !.next = IF order[i] = majors[m].prev THEN majors[m].next ELSE @]
    BY <2>1 DEF MajorsWithout
  <2>3. majors[order[i]] \in [prev : Nat, next : Nat, pages : Nat, size : Nat, usage : Nat,
                             first : Nat]
    BY <2>1 DEF Headers
  <2> QED
    BY <2>1, <2>2, <2>3
<1>8. l_memRoot' = IF l_memRoot = m THEN after ELSE l_memRoot
  BY DEF RootWithout
<1> HIDE DEF D, n, before, after
<1>9. PICK shorter : /\ \A i \in 1 .. n - 1 :
                           shorter[i] = IF i < p THEN order[i] ELSE order[i + 1]
                     /\ shorter \in [1 .. n - 1 -> D \ {m}]
  <2> DEFINE s == [i \in 1 .. n - 1 |-> IF i < p THEN order[i] ELSE order[i + 1]]
  <2>1. \A i \in 1 .. n - 1 : s[i] = IF i < p THEN order[i] ELSE order[i + 1]
    OBVIOUS
  <2>2. ASSUME NEW i \in 1 .. n - 1
        PROVE  s[i] \in D \ {m}
    <3>1. CASE i < p
      <4>1. i \in 1 .. n /\ i # p
        BY <1>1, <3>1
      <4> QED
        BY <1>7, <3>1, <4>1
    <3>2. CASE ~ i < p
      <4>1. i + 1 \in 1 .. n /\ i + 1 # p
        BY <1>1, <3>2
      <4> QED
        BY <1>7, <3>2, <4>1
    <3> QED
      BY <3>1, <3>2
  <2>3. s \in [1 .. n - 1 -> D \ {m}]
    BY <2>2
  <2> HIDE DEF s
  <2> QED
    BY <2>1, <2>3
<1>10. \A k \in D \ {m} : \E i \in 1 .. n - 1 : shorter[i] = k
  <2> SUFFICES ASSUME NEW k \in D \ {m} PROVE \E i \in 1 .. n - 1 : shorter[i] = k
    OBVIOUS
  <2>1. PICK i \in 1 .. n : order[i] = k
    BY <1>3
  <2>2. i # p
    BY <1>5, <2>1
  <2>3. CASE i < p
    <3>1. i \in 1 .. n - 1
      BY <1>1, <2>3
    <3> QED
      BY <1>9, <2>1, <2>3, <3>1
  <2>4. CASE i > p
    <3>1. i - 1 \in 1 .. n - 1 /\ ~ i - 1 < p /\ (i - 1) + 1 = i
      BY <1>1, <2>4
    <3> QED
      BY <1>9, <2>1, <3>1
  <2> QED
    BY <2>2, <2>3, <2>4
<1>11. l_memRoot' = IF n - 1 = 0 THEN NULL ELSE shorter[1]
  <2>1. l_memRoot = order[1]
    BY <1>1, <1>3
  <2>2. CASE p = 1
    <3>1. l_memRoot' = after
      BY <1>5, <1>8, <2>1, <2>2
    <3>2. n - 1 # 0 => 1 \in 1 .. n - 1 /\ shorter[1] = order[2]
      BY <1>1, <1>9, <2>2
    <3> QED
      BY <1>1, <1>6, <2>2, <3>1, <3>2
  <2>3. CASE p # 1
    <3>1. 1 \in 1 .. n /\ 1 \in 1 .. n - 1 /\ 1 < p /\ n - 1 # 0
      BY <1>1, <2>3
    <3>2. order[1] # m
      BY <1>1, <1>5, <2>3, <3>1
    <3> QED
      BY <1>8, <1>9, <2>1, <3>1, <3>2
  <2> QED
    BY <2>2, <2>3
<1>12. ASSUME NEW i \in 1 .. n - 1
       PROVE  majors'[shorter[i]].prev = IF i = 1 THEN NULL ELSE shorter[i - 1]
  <2>1. CASE i < p
    <3>1. i \in 1 .. n /\ shorter[i] = order[i] /\ i # p
      BY <1>1, <1>9, <2>1
    <3>2. order[i] # after
      <4>1. CASE p = n
        BY <1>4, <1>6, <3>1, <4>1
      <4>2. CASE p # n
        <5>1. p + 1 \in 1 .. n /\ p + 1 # i
          BY <1>1, <2>1, <4>2
        <5> QED
          BY <1>1, <1>6, <3>1, <4>2, <5>1
      <4> QED
        BY <4>1, <4>2
    <3>3. majors'[shorter[i]].prev = IF i = 1 THEN NULL ELSE order[i - 1]
      BY <1>3, <1>7, <3>1, <3>2
    <3>4. i # 1 => shorter[i - 1] = order[i - 1]
      <4> SUFFICES ASSUME i # 1 PROVE shorter[i - 1] = order[i - 1]
        OBVIOUS
      <4>1. i - 1 \in 1 .. n - 1 /\ i - 1 < p
        BY <1>1, <2>1
      <4> QED
        BY <1>9, <4>1
    <3> QED
      BY <3>3, <3>4
  <2>2. CASE i = p
    <3>1. /\ i + 1 \in 1 .. n /\ shorter[i] = order[i + 1] /\ i + 1 # p /\ p # n
      BY <1>1, <1>9, <2>2
    <3>2. order[i + 1] = after
      BY <1>6, <2>2, <3>1
    <3>3. majors'[shorter[i]].prev = before
      BY <1>7, <3>1, <3>2
    <3>4. i # 1 => shorter[i - 1] = order[i - 1]
      <4> SUFFICES ASSUME i # 1 PROVE shorter[i - 1] = order[i - 1]
        OBVIOUS
      <4>1. i - 1 \in 1 .. n - 1 /\ i - 1 < p
        BY <1>1, <2>2
      <4> QED
        BY <1>9, <4>1
    <3> QED
      BY <1>6, <2>2, <3>3, <3>4
  <2>3. CASE i > p
    <3>1. /\ i + 1 \in 1 .. n /\ shorter[i] = order[i + 1] /\ i + 1 # p /\ i # 1
          /\ (i + 1) - 1 = i /\ i + 1 # 1
      BY <1>1, <1>9, <2>3
    <3>2. order[i + 1] # after
      <4>1. CASE p = n
        BY <1>1, <2>3, <4>1
      <4>2. CASE p # n
        <5>1. p + 1 \in 1 .. n /\ p + 1 # i + 1
          BY <1>1, <2>3, <4>2
        <5> QED
          BY <1>1, <1>6, <3>1, <4>2, <5>1
      <4> QED
        BY <4>1, <4>2
    <3>3. majors'[shorter[i]].prev = order[i]
      BY <1>3, <1>7, <3>1, <3>2
    <3>4. i - 1 \in 1 .. n - 1 /\ ~ i - 1 < p /\ (i - 1) + 1 = i
      BY <1>1, <2>3
    <3> QED
      BY <1>9, <3>1, <3>3, <3>4
  <2> QED
    BY <1>1, <2>1, <2>2, <2>3
<1>13. ASSUME NEW i \in 1 .. n - 1
       PROVE  majors'[shorter[i]].next = IF i = n - 1 THEN NULL ELSE shorter[i + 1]
  <2>1. CASE i = p - 1
    <3>1. i \in 1 .. n /\ shorter[i] = order[i] /\ i # p /\ p # 1 /\ i < p
      BY <1>1, <1>9, <2>1
    <3>2. order[i] = before
      BY <1>6, <2>1, <3>1
    <3>3. majors'[shorter[i]].next = after
      BY <1>7, <3>1, <3>2
    <3>4. (i = n - 1 <=> p = n) /\ i + 1 = p
      BY <1>1, <2>1
    <3>5. p # n => shorter[p] = order[p + 1]
      <4> SUFFICES ASSUME p # n PROVE shorter[p] = order[p + 1]
        OBVIOUS
      <4>1. p \in 1 .. n - 1 /\ ~ p < p
        BY <1>1
      <4> QED
        BY <1>9, <4>1
    <3> QED
      BY <1>6, <3>3, <3>4, <3>5
  <2>2. CASE i < p - 1
    <3>1. /\ i \in 1 .. n /\ shorter[i] = order[i] /\ i # p /\ i # n - 1 /\ i # n
          /\ i + 1 \in 1 .. n - 1 /\ i + 1 < p
      BY <1>1, <1>9, <2>2
    <3>2. order[i] # before
      <4>1. p - 1 \in 1 .. n /\ p - 1 # i /\ p # 1
        BY <1>1, <2>2
      <4> QED
        BY <1>1, <1>6, <3>1, <4>1
    <3>3. majors'[shorter[i]].next = order[i + 1]
      BY <1>3, <1>7, <3>1, <3>2
    <3> QED
      BY <1>9, <3>1, <3>3
  <2>3. CASE i >= p
    <3>1. /\ i + 1 \in 1 .. n /\ shorter[i] = order[i + 1] /\ i + 1 # p
          /\ (i + 1 = n <=> i = n - 1)
      BY <1>1, <1>9, <2>3
    <3>2. order[i + 1] # before
      <4>1. CASE p = 1
        BY <1>4, <1>6, <3>1, <4>1
      <4>2. CASE p # 1
        <5>1. p - 1 \in 1 .. n /\ p - 1 # i + 1
          BY <1>1, <2>3, <4>2
        <5> QED
          BY <1>1, <1>6, <3>1, <4>2, <5>1
      <4> QED
        BY <4>1, <4>2
    <3>3. majors'[shorter[i]].next = IF i + 1 = n THEN NULL ELSE order[(i + 1) + 1]
      BY <1>3, <1>7, <3>1, <3>2
    <3>4. i # n - 1 => shorter[i + 1] = order[(i + 1) + 1]
      <4> SUFFICES ASSUME i # n - 1 PROVE shorter[i + 1] = order[(i + 1) + 1]
        OBVIOUS
      <4>1. i + 1 \in 1 .. n - 1 /\ ~ i + 1 < p
        BY <1>1, <2>3
      <4> QED
        BY <1>9, <4>1
    <3> QED
      BY <3>1, <3>3, <3>4
  <2> QED
    BY <1>1, <2>1, <2>2, <2>3
<1>14. IsMajorList(shorter)'
  <2> DEFINE N == Cardinality(DOMAIN majors')
  <2>1. /\ \A k \in DOMAIN majors' : \E i \in 1 .. N : shorter[i] = k
        /\ l_memRoot' = IF N = 0 THEN NULL ELSE shorter[1]
        /\ \A i \in 1 .. N :
              /\ majors'[shorter[i]].prev = IF i = 1 THEN NULL ELSE shorter[i - 1]
              /\ majors'[shorter[i]].next = IF i = N THEN NULL ELSE shorter[i + 1]
    <3>1. N = n - 1
      BY <1>2
    <3> HIDE DEF N
    <3> QED
      BY <1>2, <1>10, <1>11, <1>12, <1>13, <3>1
  <2> QED
    BY <2>1 DEF IsMajorList
<1>15. shorter \in [1 .. Cardinality(DOMAIN majors') -> DOMAIN majors']
  BY <1>2, <1>9
<1> QED
  BY <1>14, <1>15

LEMMA FreeMajorStep ==
  ASSUME IInv, Hooks = "contract", NEW b \in DOMAIN live, Ended,
         live' = live (-) SetToBag({b}), minors' = Unlinked(MinorOf(b)),
         l_inuse' = l_inuse - minors[MinorOf(b)].size, FreeMajor(MinorOf(b)),
         \A k \in DOMAIN majors : majors[k].first # NULL
  PROVE  IInv'
<1> DEFINE a == MinorOf(b)
           m == minors[a].block
           MajorRec == [prev : Nat, next : Nat, pages : Nat, size : Nat, usage : Nat,
                        first : Nat]
<1>1. Headers /\ MajorsApart /\ MinorsApart /\ Sorted /\ Held /\ Accounting
  BY DEF IInv
<1>2. a \in DOMAIN minors /\ m \in DOMAIN majors
  BY <1>1, HeldFacts DEF MinorsApart
<1>3. /\ minors[a].prev = NULL /\ minors[a].next = NULL
      /\ l_memRoot' = RootWithout(m)
      /\ l_bestBet' = BetWithout(m)
      /\ majors' = MajorsWithout(m)
      /\ l_allocated' = l_allocated - majors[m].size
      /\ PageFree(majors[m].pages)
  BY DEF FreeMajor
<1>4. MinorsIn(minors, m) = {a}
  <2> DEFINE S == MinorsIn(minors, m)
  <2>1. a \in S /\ IsPrev(S, a, NULL) /\ IsNext(S, a, NULL)
    BY <1>1, <1>2, <1>3 DEF Sorted, MinorsIn
  <2>2. \A x \in S : x \in Nat /\ x > 0
    BY <1>1, HeaderFacts DEF MinorsIn
  <2> HIDE DEF S, a
  <2>3. \A x \in S : x = a
    BY <2>1, <2>2 DEF IsPrev, IsNext, NULL
  <2> QED
    BY <2>1, <2>3 DEF S
<1>5. /\ DOMAIN majors' = DOMAIN majors \ {m}
      /\ majors' = [k \in DOMAIN majors' |-> majors'[k]]
      /\ \A k \in DOMAIN majors \ {m} :
            /\ majors'[k].size = majors[k].size /\ majors'[k].usage = majors[k].usage
            /\ majors'[k].first = majors[k].first /\ majors'[k] \in MajorRec
            /\ majors'[k].prev \in Nat /\ majors'[k].next \in Nat
  <2>1. majors' = [k \in DOMAIN majors \ {m} |->
                     [majors[k] EXCEPT
                        !.prev = IF k = majors[m].next THEN majors[m].prev ELSE @,
                        !.next = IF k = majors[m].prev THEN majors[m].next ELSE @]]
    BY <1>3 DEF MajorsWithout
  <2>2. majors[m].prev \in Nat /\ majors[m].next \in Nat
    BY <1>1, <1>2, HeaderFacts
  <2>3. ASSUME NEW k \in DOMAIN majors \ {m}
        PROVE  /\ majors'[k].size = majors[k].size /\ majors'[k].usage = majors[k].usage
               /\ majors'[k].first = majors[k].first /\ majors'[k] \in MajorRec
               /\ majors'[k].prev \in Nat /\ majors'[k].next \in Nat
    <3>1. majors'[k] = [majors[k] EXCEPT
                          !.prev = IF k = majors[m].next THEN majors[m].prev ELSE @,
                          !.next = IF k = majors[m].prev THEN majors[m].next ELSE @]
      BY <2>1
    <3>2. majors[k] \in MajorRec
      BY <1>1 DEF Headers
    <3> QED
      BY <2>2, <3>1, <3>2
  <2>4. DOMAIN majors' = DOMAIN majors \ {m} /\ majors' = [k \in DOMAIN majors' |-> majors'[k]]
    BY <2>1
  <2> QED
    BY <2>3, <2>4
<1>6. OthersKept(m)
  BY <1>5 DEF OthersKept
<1>7. m \notin DOMAIN majors' /\ brk_limit' = brk_limit
  BY <1>3, <1>5 DEF PageFree
<1>8. Headers' /\ MajorsApart' /\ MinorsApart' /\ Sorted'
  BY <1>2, <1>4, <1>6, <1>7, FreeKeepsLayout
<1>9. Held' /\ DOMAIN live' = DOMAIN live \ {b}
  BY <1>1, FreeKeepsHeld
<1>10. Accounting'
  <2>1. /\ l_inuse' = SumOver([x \in DOMAIN minors' |-> minors'[x].size], DOMAIN minors')
        /\ \A k \in DOMAIN majors' :
              majors'[k].usage =
                 MajorSize + SumOver([x \in DOMAIN minors' |-> minors'[x].size + MinorSize],
                                     MinorsOf(k)')
    BY <1>1, <1>2, <1>6, <1>7, FreeKeepsUse
  <2> DEFINE size == [k \in DOMAIN majors |-> majors[k].size]
             D == DOMAIN majors
  <2>2. l_allocated = SumOver(size, D)
    BY <1>1 DEF Accounting
  <2>3. IsFiniteSet(D) /\ m \in D /\ \A k \in D : size[k] = majors[k].size /\ size[k] \in Int
    BY <1>1, <1>2, HeaderFacts DEF Headers
  <2>4. \A k \in D \ {m} : size'[k] = size[k]
    BY <1>5
  <2>5. DOMAIN majors' = D \ {m}
    BY <1>5
  <2> HIDE DEF size, D, m
  <2>6. SumOver(size, D) = size[m] + SumOver(size, D \ {m})
    BY <2>3, SumStep
  <2>7. IsFiniteSet(D \ {m})
    BY <2>3, FS_Subset
  <2>8. SumOver(size', D \ {m}) = SumOver(size, D \ {m}) /\ SumOver(size, D \ {m}) \in Int
    BY <2>3, <2>4, <2>7, SumAgree, SumType
  <2>9. l_allocated' = SumOver(size', DOMAIN majors')
    BY <1>3, <2>2, <2>3, <2>5, <2>6, <2>8
  <2> QED
    BY <2>1, <2>9 DEF Accounting, size
<1>11. \A k \in DOMAIN majors' : majors'[k].first # NULL
  BY <1>5
<1>12. l_bestBet' \in DOMAIN majors' \cup {NULL}
  BY <1>3, <1>5 DEF IInv, Calling, BetWithout
<1>13. PICK order \in [1 .. Cardinality(DOMAIN majors) -> DOMAIN majors] : IsMajorList(order)
  BY DEF IInv, Walked
<1>14. PICK shorter \in [1 .. Cardinality(DOMAIN majors') -> DOMAIN majors'] :
          IsMajorList(shorter)'
  BY <1>1, <1>2, <1>3, <1>13, OrderShrunk
<1>15. Calling' /\ Walked'
  BY <1>11, <1>12, <1>14, AfterFree
<1> QED
  BY <1>8, <1>9, <1>10, <1>15 DEF IInv

\* A block that is held has a header: kfree never leaves one alone.
LEMMA FreeBlockStep ==
  ASSUME IInv, Hooks = "contract", NEW b \in DOMAIN live, FreeBlock(b), Ended,
         op.phase \in {"idle", "release"}
  PROVE  IInv'
<1>1. MinorOf(b) \in DOMAIN minors
  BY HeldFacts DEF IInv
<1>2. /\ live' = live (-) SetToBag({b})
      /\ minors' = Unlinked(MinorOf(b))
      /\ l_inuse' = l_inuse - minors[MinorOf(b)].size
      /\ FreeInMajor(MinorOf(b)) \/ FreeMajor(MinorOf(b))
  BY <1>1 DEF FreeBlock
<1>3. \A k \in DOMAIN majors : majors[k].first # NULL
  BY DEF IInv, Calling, At
<1> QED
  BY <1>2, <1>3, FreeInMajorStep, FreeMajorStep

LEMMA FreeStep ==
  ASSUME IInv, Hooks = "contract", NEW b \in DOMAIN live, Free(b)
  PROVE  IInv'
<1>1. At("idle") /\ op' = op /\ FreeBlock(b)
  BY DEF Free
<1>2. op \in OpRec(DOMAIN live) /\ op.old = {} /\ op.phase = "idle"
  BY <1>1, OpFacts DEF IInv, Calling, At
<1>3. Ended
  BY <1>1, <1>2 DEF Ended, OpRec
<1> QED
  BY <1>1, <1>2, <1>3, FreeBlockStep

LEMMA ReallocReleaseStep ==
  ASSUME IInv, Hooks = "contract", ReallocRelease
  PROVE  IInv'
<1>1. At("release") /\ op' = Idle
  BY DEF ReallocRelease
<1>2. PICK b \in op.old : FreeBlock(b)
  BY DEF ReallocRelease
<1>3. b \in DOMAIN live
  BY OpFacts
<1>4. Ended
  BY <1>1 DEF Ended, Idle, OpRec, Phases, NULL
<1> QED
  BY <1>1, <1>2, <1>3, <1>4, FreeBlockStep DEF At

\* A block shrinks where it is.
LEMMA ReallocInPlaceStep ==
  ASSUME IInv, NEW b \in DOMAIN live, NEW size \in Requests, ReallocInPlace(b, size)
  PROVE  /\ IInv'
         /\ size <= b.req
         /\ MinorOf(b) \in DOMAIN minors
<1> DEFINE a == MinorOf(b)
           new == [b EXCEPT !.req = size]
           MinorRec == [prev : Nat, next : Nat, block : Nat, size : Nat, req_size : Nat]
<1>1. Headers /\ MajorsApart /\ MinorsApart /\ Sorted /\ Held /\ Accounting
  BY DEF IInv
<1>2. /\ At("idle") /\ a \in DOMAIN minors /\ minors[a].req_size >= size
      /\ minors' = [minors EXCEPT ![a].req_size = size]
      /\ live' = (live (-) SetToBag({b})) (+) SetToBag({new})
      /\ UNCHANGED <<majors, l_memRoot, l_bestBet, counters, brk_limit, op>>
  BY DEF ReallocInPlace
<1>3. size \in Nat /\ size > 0
  BY Numbers
<1>4. /\ b = BlockAt(minors, a)
      /\ \A c \in DOMAIN live : MinorOf(c) = a => c = b
  BY <1>1, HeldFacts
<1>5. /\ DOMAIN minors' = DOMAIN minors
      /\ minors' \in [DOMAIN minors' -> MinorRec]
      /\ \A x \in DOMAIN minors :
            /\ minors'[x].prev = minors[x].prev /\ minors'[x].next = minors[x].next
            /\ minors'[x].block = minors[x].block /\ minors'[x].size = minors[x].size
            /\ minors'[x].req_size = IF x = a THEN size ELSE minors[x].req_size
  <2> HIDE DEF a
  <2>1. minors \in [DOMAIN minors -> MinorRec]
    BY <1>1 DEF Headers
  <2>2. \A x \in DOMAIN minors :
           minors'[x] = IF x = a THEN [minors[x] EXCEPT !.req_size = size] ELSE minors[x]
    BY <1>2
  <2>3. DOMAIN minors' = DOMAIN minors /\ minors' = [x \in DOMAIN minors' |-> minors'[x]]
    BY <1>2
  <2>4. ASSUME NEW x \in DOMAIN minors
        PROVE  /\ minors'[x].prev = minors[x].prev /\ minors'[x].next = minors[x].next
               /\ minors'[x].block = minors[x].block /\ minors'[x].size = minors[x].size
               /\ minors'[x].req_size = IF x = a THEN size ELSE minors[x].req_size
               /\ minors'[x] \in MinorRec
    <3>1. minors[x] \in MinorRec
      BY <2>1
    <3> QED
      BY <1>3, <2>2, <3>1
  <2>5. minors' \in [DOMAIN minors' -> MinorRec]
    <3> HIDE DEF MinorRec
    <3> QED
      BY <2>3, <2>4
  <2> QED
    BY <2>3, <2>4, <2>5
<1>6. /\ \A k : MinorsIn(minors', k) = MinorsIn(minors, k)
      /\ \A x \in DOMAIN minors : EndOf(x)' = EndOf(x)
  BY <1>5 DEF MinorsIn, EndOf
<1>7. majors' = majors /\ op' = op
  BY <1>2
<1>8. Headers'
  BY <1>1, <1>2, <1>5 DEF Headers
<1>9. MajorsApart'
  BY <1>1, <1>7 DEF MajorsApart, EndOfMajor
<1>10. MinorsApart'
  BY <1>1, <1>5, <1>6, <1>7 DEF MinorsApart
<1>11. Sorted'
  BY <1>1, <1>5, <1>6, <1>7 DEF Sorted
<1>12. Accounting'
  <2>1. /\ [x \in DOMAIN minors' |-> minors'[x].size] = [x \in DOMAIN minors |-> minors[x].size]
        /\ [x \in DOMAIN minors' |-> minors'[x].size + MinorSize]
              = [x \in DOMAIN minors |-> minors[x].size + MinorSize]
    BY <1>5
  <2>2. \A k : MinorsOf(k)' = MinorsOf(k)
    BY <1>6 DEF MinorsOf, MinorsIn
  <2>3. l_allocated' = l_allocated /\ l_inuse' = l_inuse
    BY <1>2 DEF counters
  <2> QED
    BY <1>1, <1>5, <1>7, <2>1, <2>2, <2>3 DEF Accounting
<1>13. new = BlockAt(minors', a)
  BY <1>2, <1>4, <1>5 DEF BlockAt
<1>14. \A x \in DOMAIN minors \ {a} : BlockAt(minors', x) = BlockAt(minors, x)
  BY <1>5 DEF BlockAt
<1> HIDE DEF new, a
<1>15. /\ DOMAIN (live (-) SetToBag({b})) = DOMAIN live \ {b}
       /\ \A c \in DOMAIN (live (-) SetToBag({b})) : (live (-) SetToBag({b}))[c] = 1
  <2>1. \A c \in DOMAIN live : live[c] = 1
    BY <1>1 DEF Held
  <2> QED
    BY <2>1, BagRemove
<1>16. new \notin DOMAIN live \ {b}
  <2>1. MinorOf(new) = a
    <3>1. a \in Nat /\ minors'[a].req_size \in Nat
      BY <1>1, <1>2, <1>3, <1>5, HeaderFacts
    <3> QED
      BY <1>13, <3>1, BlockFacts
  <2> QED
    BY <1>4, <2>1
<1>17. DOMAIN live' = (DOMAIN live \ {b}) \cup {new} /\ \A c \in DOMAIN live' : live'[c] = 1
  <2> DEFINE B == live (-) SetToBag({b})
  <2>1. \A c \in DOMAIN B : B[c] = 1
    BY <1>15
  <2>2. new \notin DOMAIN B /\ DOMAIN B = DOMAIN live \ {b}
    BY <1>15, <1>16
  <2>3. live' = B (+) SetToBag({new})
    BY <1>2
  <2> HIDE DEF B
  <2>4. /\ DOMAIN (B (+) SetToBag({new})) = DOMAIN B \cup {new}
        /\ \A c \in DOMAIN (B (+) SetToBag({new})) : (B (+) SetToBag({new}))[c] = 1
    BY <2>1, <2>2, BagAdd
  <2> QED
    BY <2>2, <2>3, <2>4
<1>18. DOMAIN live' = {BlockAt(minors', x) : x \in DOMAIN minors'}
  <2>1. \A c : c \in DOMAIN live <=> \E x \in DOMAIN minors : c = BlockAt(minors, x)
    BY <1>1 DEF Held
  <2>2. \A x \in DOMAIN minors : MinorOf(BlockAt(minors, x)) = x
    BY <1>1, HeaderFacts, BlockFacts
  <2>3. ASSUME NEW c \in DOMAIN live'
        PROVE  \E x \in DOMAIN minors' : c = BlockAt(minors', x)
    <3>1. CASE c = new
      BY <1>2, <1>5, <1>13, <3>1
    <3>2. CASE c \in DOMAIN live \ {b}
      <4>1. PICK x \in DOMAIN minors : c = BlockAt(minors, x)
        BY <2>1, <3>2
      <4>2. x # a
        BY <1>4, <3>2, <4>1
      <4> QED
        BY <1>5, <1>14, <4>1, <4>2
    <3> QED
      BY <1>17, <3>1, <3>2
  <2>4. ASSUME NEW x \in DOMAIN minors'
        PROVE  BlockAt(minors', x) \in DOMAIN live'
    <3>1. CASE x = a
      BY <1>13, <1>17, <3>1
    <3>2. CASE x # a
      <4>1. x \in DOMAIN minors \ {a}
        BY <1>5, <3>2
      <4>2. BlockAt(minors, x) \in DOMAIN live
        BY <2>1, <4>1
      <4>3. BlockAt(minors, x) # b
        BY <2>2, <3>2, <4>1 DEF a
      <4> QED
        BY <1>14, <1>17, <4>1, <4>2, <4>3
    <3> QED
      BY <3>1, <3>2
  <2> QED
    BY <2>3, <2>4
<1>19. Held'
  <2>1. \A x \in DOMAIN minors' :
           minors'[x].req_size + ALIGNMENT + ALIGN_INFO <= minors'[x].size
    <3> SUFFICES ASSUME NEW x \in DOMAIN minors
                 PROVE  minors'[x].req_size + ALIGNMENT + ALIGN_INFO <= minors'[x].size
      BY <1>5
    <3>1. minors[x].req_size + ALIGNMENT + ALIGN_INFO <= minors[x].size
      BY <1>1 DEF Held
    <3>2. minors[x].req_size \in Nat /\ minors[x].size \in Nat
      BY <1>1, HeaderFacts
    <3>3. minors'[x].req_size \in Nat /\ minors'[x].req_size <= minors[x].req_size
          /\ minors'[x].size = minors[x].size
      BY <1>2, <1>3, <1>5, <3>2
    <3> QED
      BY <3>1, <3>2, <3>3, Numbers
  <2> QED
    BY <1>17, <1>18, <2>1 DEF Held
<1>20. \A k \in DOMAIN majors : majors[k].first # NULL
  BY <1>2 DEF IInv, Calling, At
<1>21. Calling'
  <2>1. op' \in OpRec(DOMAIN live')
    <3>1. op \in OpRec(DOMAIN live) /\ op.old = {}
      BY <1>2, OpFacts DEF IInv, Calling
    <3> QED
      BY <1>7, <3>1 DEF OpRec
  <2>2. op'.phase = "idle" /\ op'.old = {}
    BY <1>2, <1>7 DEF IInv, Calling, At
  <2>3. l_bestBet' \in DOMAIN majors \cup {NULL}
    BY <1>2 DEF IInv, Calling
  <2> QED
    BY <1>7, <1>20, <2>1, <2>2, <2>3 DEF Calling, At, InMajor, OpRec
<1>22. Walked'
  <2>1. PICK order \in [1 .. Cardinality(DOMAIN majors) -> DOMAIN majors] : IsMajorList(order)
    BY DEF IInv, Walked
  <2>2. IsMajorList(order)'
    BY <1>2, <1>7, <2>1, OrderKept
  <2>3. order \in [1 .. Cardinality(DOMAIN majors') -> DOMAIN majors']
    BY <1>7, <2>1
  <2>4. op'.phase = "idle"
    BY <1>2, <1>7 DEF At
  <2> QED
    BY <2>2, <2>3, <2>4 DEF Walked, At, InMajor
<1>23. b.req = minors[a].req_size
  BY <1>1, <1>2, <1>4, HeaderFacts, BlockFacts
<1> QED
  BY <1>2, <1>8, <1>9, <1>10, <1>11, <1>12, <1>19, <1>21, <1>22, <1>23 DEF IInv, a

-----------------------------------------------------------------------------
(* The invariant.                                                          *)

LEMMA InitIInv ==
  ASSUME Init
  PROVE  IInv
<1>1. /\ DOMAIN majors = {} /\ DOMAIN minors = {} /\ DOMAIN live = {}
      /\ l_memRoot = NULL /\ l_bestBet = NULL /\ l_allocated = 0 /\ l_inuse = 0
      /\ brk_limit = HeapStart /\ op = Idle
      /\ majors = [x \in {} |-> {}] /\ minors = [x \in {} |-> {}]
  <2>1. majors = << >> /\ minors = << >> /\ live = EmptyBag
    BY DEF Init
  <2>2. DOMAIN << >> = {}
    OBVIOUS
  <2>3. DOMAIN EmptyBag = {}
    BY DEF EmptyBag, SetToBag
  <2>4. << >> = [x \in {} |-> {}]
    OBVIOUS
  <2> QED
    BY <2>1, <2>2, <2>3, <2>4 DEF Init
<1>2. Headers
  BY <1>1, FS_EmptySet, Numbers DEF Headers
<1>3. MajorsApart
  BY <1>1 DEF MajorsApart
<1>4. MinorsApart
  BY <1>1 DEF MinorsApart
<1>5. Sorted
  BY <1>1 DEF Sorted
<1>6. Held
  BY <1>1 DEF Held
<1>7. Accounting
  BY <1>1, SumEmpty DEF Accounting
<1>8. Calling
  BY <1>1 DEF Calling, Idle, Phases, InMajor, At, NULL
<1>9. Walked
  <2>1. Cardinality(DOMAIN majors) = 0
    BY <1>1, FS_EmptySet
  <2>2. 1 .. 0 = {}
    OBVIOUS
  <2>3. PICK order : order = [x \in {} |-> {}]
    OBVIOUS
  <2>4. order \in [1 .. Cardinality(DOMAIN majors) -> DOMAIN majors]
    BY <1>1, <2>1, <2>2, <2>3
  <2>5. IsMajorList(order)
    BY <1>1, <2>1, <2>2 DEF IsMajorList
  <2> QED
    BY <1>1, <2>4, <2>5 DEF Walked, Idle, At, InMajor
<1> QED
  BY <1>2, <1>3, <1>4, <1>5, <1>6, <1>7, <1>8, <1>9 DEF IInv

LEMMA StutterStep ==
  ASSUME IInv, UNCHANGED vars
  PROVE  IInv'
<1>1. /\ UNCHANGED <<majors, minors, l_memRoot, l_bestBet, counters, brk_limit, live>>
      /\ op' = op
  BY DEF vars, lists, counters
<1>2. /\ majors' = majors /\ minors' = minors /\ l_memRoot' = l_memRoot
      /\ l_bestBet' = l_bestBet /\ live' = live
  BY <1>1
<1>3. Headers' /\ MajorsApart' /\ MinorsApart' /\ Sorted' /\ Held' /\ Accounting'
  BY <1>1, LayoutKept
<1>4. /\ Need' = Need
      /\ \A m : FreeIn(m)' = FreeIn(m) /\ FrontGap(m)' = FrontGap(m)
                /\ MinorsOf(m)' = MinorsOf(m) /\ Full(m)' = Full(m)
      /\ \A a : GapBehind(a)' = GapBehind(a)
  BY <1>1, SeenKept
<1>5. Calling'
  BY <1>1, <1>2, <1>4 DEF IInv, Calling, At
<1>6. Walked'
  <2>1. \A order : IsMajorList(order)' = IsMajorList(order)
    BY <1>2 DEF IsMajorList
  <2> QED
    BY <1>1, <1>2, <1>4, <2>1 DEF IInv, Walked, At
<1> QED
  BY <1>3, <1>5, <1>6 DEF IInv

\* The clients hold the keys of the bag.
LEMMA HeldBlocks ==
  \A B : BagToSet(B) = DOMAIN B
BY DEF BagToSet

LEMMA NextIInv ==
  ASSUME IInv, Hooks = "contract", [Next]_vars
  PROVE  IInv'
<1>1. ASSUME NEW req \in Requests, MallocBegin(req) PROVE IInv'
  BY <1>1, MallocBeginStep
<1>2. ASSUME NEW b \in DOMAIN live, Free(b) PROVE IInv'
  BY <1>2, FreeStep
<1>3. ASSUME NEW b \in DOMAIN live, NEW size \in Requests, ReallocInPlace(b, size)
      PROVE  IInv'
  BY <1>3, ReallocInPlaceStep
<1>4. ASSUME NEW b \in DOMAIN live, NEW size \in Requests, ReallocBegin(b, size)
      PROVE  IInv'
  BY <1>4, ReallocBeginStep
<1>5. CASE MallocRoot
  BY <1>5, MallocRootStep
<1>6. CASE MallocFirstMajor
  BY <1>6, MallocFirstMajorStep
<1>7. CASE MallocBet
  BY <1>7, MallocBetStep
<1>8. CASE LookAtMajor
  BY <1>8, LookAtMajorStep
<1>9. CASE NextMajor
  BY <1>9, NextMajorStep
<1>10. CASE Restart
  BY <1>10, RestartStep
<1>11. CASE MallocNewMajor
  BY <1>11, MallocNewMajorStep
<1>12. CASE PlaceInEmpty
  BY <1>12, PlaceInEmptyPlaces, PlacingStep
<1>13. CASE PlaceInFront
  BY <1>13, PlaceInFrontPlaces, PlacingStep
<1>14. CASE EnterMinors
  BY <1>14, EnterMinorsStep
<1>15. CASE PlaceBehind
  BY <1>15, PlaceBehindPlaces, PlacingStep
<1>16. CASE NextMinor
  BY <1>16, NextMinorStep
<1>17. CASE LeaveMajor
  BY <1>17, LeaveMajorStep
<1>18. CASE ReallocRelease
  BY <1>18, ReallocReleaseStep
<1>19. CASE UNCHANGED vars
  BY <1>19, StutterStep
<1> QED
  BY <1>1, <1>2, <1>3, <1>4, <1>5, <1>6, <1>7, <1>8, <1>9, <1>10, <1>11, <1>12, <1>13,
     <1>14, <1>15, <1>16, <1>17, <1>18, <1>19, HeldBlocks DEF Next, Call, Work

\* After every step of every call, as long as the hooks keep their contract, the
\* invariant holds.
THEOREM Invariant ==
  ASSUME Hooks = "contract"
  PROVE  Spec => []IInv
<1>1. Init => IInv
  BY InitIInv
<1>2. IInv /\ [Next]_vars => IInv'
  BY NextIInv
<1> QED
  BY <1>1, <1>2, PTL DEF Spec

-----------------------------------------------------------------------------
(* What it means for the lists.                                            *)

LEMMA TypesFollow ==
  ASSUME IInv
  PROVE  TypeOK
<1>1. Headers /\ MajorsApart /\ MinorsApart /\ Sorted /\ Accounting /\ Calling /\ Walked
  BY DEF IInv
<1>2. PICK order \in [1 .. Cardinality(DOMAIN majors) -> DOMAIN majors] : IsMajorList(order)
  BY <1>1 DEF Walked
<1> DEFINE n == Cardinality(DOMAIN majors)
<1>3. n \in Nat
  BY <1>1, FS_CardinalityType DEF Headers
<1>4. /\ \A m \in DOMAIN majors : \E i \in 1 .. n : order[i] = m
      /\ l_memRoot = IF n = 0 THEN NULL ELSE order[1]
      /\ \A i \in 1 .. n :
            /\ majors[order[i]].prev = IF i = 1 THEN NULL ELSE order[i - 1]
            /\ majors[order[i]].next = IF i = n THEN NULL ELSE order[i + 1]
      /\ \A i \in 1 .. n : order[i] \in DOMAIN majors
  BY <1>2 DEF IsMajorList
<1> HIDE DEF n
<1>5. ASSUME NEW m \in DOMAIN majors
      PROVE  /\ majors[m].prev \in DOMAIN majors \cup {NULL}
             /\ majors[m].next \in DOMAIN majors \cup {NULL}
             /\ majors[m].first \in DOMAIN minors \cup {NULL}
             /\ majors[m].usage \in MajorSize .. majors[m].size
  <2>1. PICK i \in 1 .. n : order[i] = m
    BY <1>4
  <2>2. majors[m].prev \in DOMAIN majors \cup {NULL}
    <3>1. i # 1 => i - 1 \in 1 .. n
      BY <1>3
    <3> QED
      BY <1>4, <2>1, <3>1
  <2>3. majors[m].next \in DOMAIN majors \cup {NULL}
    <3>1. i # n => i + 1 \in 1 .. n
      BY <1>3
    <3> QED
      BY <1>4, <2>1, <3>1
  <2>4. majors[m].first \in DOMAIN minors \cup {NULL}
    BY <1>1 DEF Sorted, IsNext, MinorsIn
  <2> QED
    BY <1>1, <2>2, <2>3, <2>4, UsageBound
<1>6. ASSUME NEW a \in DOMAIN minors
      PROVE  /\ minors[a].prev \in DOMAIN minors \cup {NULL}
             /\ minors[a].next \in DOMAIN minors \cup {NULL}
             /\ minors[a].block \in DOMAIN majors
  BY <1>1 DEF Sorted, IsNext, IsPrev, MinorsIn, MinorsApart
<1>7. l_memRoot \in DOMAIN majors \cup {NULL}
  <2>1. n # 0 => 1 \in 1 .. n
    BY <1>3
  <2> QED
    BY <1>4, <2>1
<1>8. l_bestBet \in DOMAIN majors \cup {NULL} /\ op.old \subseteq DOMAIN live
  BY OpFacts, <1>1 DEF Calling
<1>9. l_allocated \in Nat /\ l_inuse \in Nat
  <2> DEFINE size == [m \in DOMAIN majors |-> majors[m].size]
             used == [a \in DOMAIN minors |-> minors[a].size]
  <2>1. l_allocated = SumOver(size, DOMAIN majors) /\ l_inuse = SumOver(used, DOMAIN minors)
    BY <1>1 DEF Accounting
  <2>2. /\ \A m \in DOMAIN majors : size[m] \in Nat
        /\ \A a \in DOMAIN minors : used[a] \in Nat
    BY <1>1, HeaderFacts
  <2>3. IsFiniteSet(DOMAIN majors) /\ IsFiniteSet(DOMAIN minors)
    BY <1>1 DEF Headers
  <2> HIDE DEF size, used
  <2> QED
    BY <2>1, <2>2, <2>3, SumNat
<1> QED
  BY <1>5, <1>6, <1>7, <1>8, <1>9, HeldBlocks DEF TypeOK

LEMMA ListsFollow ==
  ASSUME IInv
  PROVE  ListsSound
<1>1. Headers /\ Sorted /\ Calling /\ Walked
  BY DEF IInv
<1>2. \E order \in [1 .. Cardinality(DOMAIN majors) -> DOMAIN majors] : IsMajorList(order)
  BY <1>1 DEF Walked
<1>3. \A m \in DOMAIN majors : At("idle") => majors[m].first # NULL
  BY <1>1 DEF Calling, At
<1>4. ASSUME NEW m \in DOMAIN majors, NEW a \in MinorsOf(m)
      PROVE  /\ minors[a].prev = NULL <=> a = majors[m].first
             /\ minors[a].next # NULL =>
                   /\ minors[a].next \in MinorsOf(m)
                   /\ minors[a].next > a
                   /\ minors[minors[a].next].prev = a
             /\ minors[a].next = NULL => \A c \in MinorsOf(m) : c <= a
  <2> DEFINE S == MinorsOf(m)
             first == majors[m].first
             next == minors[a].next
  <2>1. \A x \in S : x \in DOMAIN minors /\ x \in Nat /\ x > 0
    BY <1>1, HeaderFacts DEF MinorsOf
  <2>2. \A x \in S : /\ IsPrev(S, x, minors[x].prev)
                     /\ IsNext(S, x, minors[x].next)
    BY <1>1 DEF Sorted, MinorsOf, MinorsIn
  <2>3. IsNext(S, 0, first)
    BY <1>1 DEF Sorted, MinorsOf, MinorsIn
  <2>4. IsPrev(S, a, minors[a].prev) /\ IsNext(S, a, next) /\ a \in S
    BY <2>2
  <2> HIDE DEF S, first, next
  <2>5. minors[a].prev = NULL <=> a = first
    BY <2>1, <2>3, <2>4 DEF IsPrev, IsNext, NULL
  <2>6. next = NULL => \A c \in S : c <= a
    BY <2>1, <2>4 DEF IsNext, NULL
  <2>7. ASSUME next # NULL
        PROVE  next \in S /\ next > a /\ minors[next].prev = a
    <3>1. next \in S /\ a < next /\ \A x \in S : x <= a \/ next <= x
      BY <2>4, <2>7 DEF IsNext
    <3>2. IsPrev(S, next, minors[next].prev)
      BY <2>2, <3>1
    <3> QED
      BY <2>1, <2>4, <3>1, <3>2 DEF IsPrev, NULL
  <2> QED
    BY <2>5, <2>6, <2>7 DEF S, first, next
<1> QED
  BY <1>2, <1>3, <1>4 DEF ListsSound

\* HeapSound: whatever the order of kmalloc, krealloc and kfree, the two global
\* pointers are never stale, the lists reach every header, and usage, l_inuse and
\* l_allocated are the sums they stand for.
THEOREM SoundHeap ==
  ASSUME Hooks = "contract"
  PROVE  Spec => []HeapSound
<1>1. IInv => HeapSound
  BY TypesFollow, ListsFollow DEF HeapSound, IInv
<1> QED
  BY <1>1, Invariant, PTL

-----------------------------------------------------------------------------
(* What it means for the blocks.                                           *)

\* A header and what is behind it lie in their major.
LEMMA MinorsDisjoint ==
  ASSUME Headers, MajorsApart, MinorsApart,
         NEW a \in DOMAIN minors, NEW c \in DOMAIN minors, a # c
  PROVE  EndOf(a) <= c \/ EndOf(c) <= a
<1> DEFINE m == minors[a].block
           k == minors[c].block
<1>1. /\ a \in Nat /\ c \in Nat /\ EndOf(a) \in Nat /\ EndOf(c) \in Nat
      /\ m \in DOMAIN majors /\ k \in DOMAIN majors
      /\ m + MajorSize <= a /\ EndOf(a) <= EndOfMajor(m)
      /\ k + MajorSize <= c /\ EndOf(c) <= EndOfMajor(k)
  BY HeaderFacts DEF MinorsApart, EndOfMajor
<1>2. /\ m \in Nat /\ k \in Nat /\ EndOfMajor(m) \in Nat /\ EndOfMajor(k) \in Nat
      /\ m < k => EndOfMajor(m) <= k
      /\ k < m => EndOfMajor(k) <= m
  BY <1>1, HeaderFacts DEF MajorsApart
<1>3. CASE m = k
  <2>1. /\ a < c => EndOf(a) <= c
        /\ c < a => EndOf(c) <= a
    BY <1>3 DEF MinorsApart
  <2> QED
    BY <1>1, <2>1
<1>4. CASE m # k
  <2> HIDE DEF m, k
  <2> QED
    BY <1>1, <1>2, <1>4, Numbers
<1> QED
  BY <1>3, <1>4

\* A block lies behind its header.
LEMMA BlockInside ==
  ASSUME Headers, Held, NEW b \in DOMAIN live
  PROVE  /\ MinorOf(b) \in DOMAIN minors
         /\ b.ptr \in Nat /\ b.req \in Nat
         /\ MinorOf(b) + MinorSize <= b.ptr
         /\ b.ptr + b.req <= EndOf(MinorOf(b))
         /\ b.ptr % ALIGNMENT = 0
         /\ b.req = minors[MinorOf(b)].req_size
<1> DEFINE a == MinorOf(b)
<1>1. a \in DOMAIN minors /\ b = BlockAt(minors, a)
  BY HeldFacts
<1>2. /\ a \in Nat /\ minors[a].req_size \in Nat /\ minors[a].size \in Nat
      /\ minors[a].req_size + ALIGNMENT + ALIGN_INFO <= minors[a].size
      /\ EndOf(a) = a + MinorSize + minors[a].size
  BY <1>1, HeaderFacts DEF Held, EndOf
<1> HIDE DEF a
<1>3. /\ BlockAt(minors, a).ptr \in Nat /\ BlockAt(minors, a).req \in Nat
      /\ BlockAt(minors, a).ptr = a + MinorSize + BlockAt(minors, a).diff
      /\ BlockAt(minors, a).req = minors[a].req_size
      /\ BlockAt(minors, a).diff \in Nat
      /\ BlockAt(minors, a).diff < ALIGNMENT + ALIGN_INFO
      /\ BlockAt(minors, a).ptr % ALIGNMENT = 0
  BY <1>2, BlockFacts
<1>4. /\ b.ptr \in Nat /\ b.req \in Nat /\ b.ptr = a + MinorSize + b.diff
      /\ b.req = minors[a].req_size /\ b.diff \in Nat /\ b.diff < ALIGNMENT + ALIGN_INFO
      /\ b.ptr % ALIGNMENT = 0
  BY <1>1, <1>3
<1>5. a + MinorSize <= b.ptr
  BY <1>2, <1>4, Numbers
<1>6. b.ptr + b.req <= EndOf(a)
  BY <1>2, <1>4, Numbers
<1> QED
  BY <1>1, <1>4, <1>5, <1>6 DEF a

LEMMA BlocksFollow ==
  ASSUME IInv
  PROVE  BlocksApart
<1>1. Headers /\ MajorsApart /\ MinorsApart /\ Held
  BY DEF IInv
<1>2. \A x, y \in DOMAIN majors :
         x # y => x + majors[x].size <= y \/ y + majors[y].size <= x
  <2> SUFFICES ASSUME NEW x \in DOMAIN majors, NEW y \in DOMAIN majors, x # y
               PROVE  x + majors[x].size <= y \/ y + majors[y].size <= x
    OBVIOUS
  <2>1. x \in Nat /\ y \in Nat
    BY <1>1, HeaderFacts
  <2>2. x < y \/ y < x
    BY <2>1
  <2> QED
    BY <1>1, <2>2 DEF MajorsApart, EndOfMajor
<1>3. \A m \in DOMAIN majors : HeapStart <= m /\ m + majors[m].size <= HeapLimit
  BY <1>1 DEF MajorsApart, EndOfMajor
<1>4. \A x, y \in DOMAIN minors : x # y => EndOf(x) <= y \/ EndOf(y) <= x
  BY <1>1, MinorsDisjoint
<1>5. \A a \in DOMAIN minors :
         /\ minors[a].block + MajorSize <= a
         /\ EndOf(a) <= minors[a].block + majors[minors[a].block].size
  BY <1>1 DEF MinorsApart
<1>6. {MinorOf(b) : b \in DOMAIN live} = DOMAIN minors
  <2>1. \A b \in DOMAIN live : MinorOf(b) \in DOMAIN minors
    BY <1>1, HeldFacts
  <2>2. ASSUME NEW a \in DOMAIN minors
        PROVE  \E b \in DOMAIN live : MinorOf(b) = a
    <3>1. BlockAt(minors, a) \in DOMAIN live
      BY <1>1 DEF Held
    <3>2. MinorOf(BlockAt(minors, a)) = a
      BY <1>1, HeaderFacts, BlockFacts
    <3> QED
      BY <3>1, <3>2
  <2> QED
    BY <2>1, <2>2
<1>7. \A b, c \in DOMAIN live : MinorOf(b) = MinorOf(c) => b = c
  BY <1>1, HeldFacts
<1>8. \A b \in DOMAIN live :
         /\ live[b] = 1
         /\ b.ptr % ALIGNMENT = 0
         /\ MinorOf(b) + MinorSize <= b.ptr
         /\ b.ptr + b.req <= EndOf(MinorOf(b))
         /\ b.req = minors[MinorOf(b)].req_size
  <2> SUFFICES ASSUME NEW b \in DOMAIN live
               PROVE  /\ live[b] = 1
                      /\ b.ptr % ALIGNMENT = 0
                      /\ MinorOf(b) + MinorSize <= b.ptr
                      /\ b.ptr + b.req <= EndOf(MinorOf(b))
                      /\ b.req = minors[MinorOf(b)].req_size
    OBVIOUS
  <2>1. live[b] = 1
    BY <1>1 DEF Held
  <2> QED
    BY <1>1, <2>1, BlockInside
<1> QED
  BY <1>2, <1>3, <1>4, <1>5, <1>6, <1>7, <1>8, HeldBlocks DEF BlocksApart, Disjoint

\* BlocksApart: no two majors, headers or blocks overlap, and every block that a
\* client holds is aligned, as large as it asked for and behind a header of its own.
THEOREM ApartBlocks ==
  ASSUME Hooks = "contract"
  PROVE  Spec => []BlocksApart
BY BlocksFollow, Invariant, PTL

-----------------------------------------------------------------------------
(* When the system is asked for pages.                                     *)

\* A heap without a first major has none.
LEMMA NoRoot ==
  ASSUME IInv, l_memRoot = NULL
  PROVE  DOMAIN majors = {}
<1>1. PICK order \in [1 .. Cardinality(DOMAIN majors) -> DOMAIN majors] : IsMajorList(order)
  BY DEF IInv, Walked
<1> DEFINE n == Cardinality(DOMAIN majors)
<1>2. /\ n \in Nat
      /\ \A m \in DOMAIN majors : \E i \in 1 .. n : order[i] = m
      /\ l_memRoot = IF n = 0 THEN NULL ELSE order[1]
      /\ \A i \in 1 .. n : order[i] \in DOMAIN majors
  BY <1>1, FS_CardinalityType DEF IsMajorList, IInv, Headers
<1>3. NULL \notin DOMAIN majors
  BY HeaderFacts DEF IInv, NULL
<1> HIDE DEF n
<1>4. n = 0
  <2> SUFFICES ASSUME n # 0 PROVE FALSE
    OBVIOUS
  <2>1. 1 \in 1 .. n
    BY <1>2
  <2> QED
    BY <1>2, <1>3, <2>1
<1> QED
  BY <1>2, <1>4

\* Nothing else adds a major.
LEMMA NoOtherMajor ==
  ASSUME Next, ~ MallocFirstMajor, ~ MallocNewMajor
  PROVE  DOMAIN majors' \subseteq DOMAIN majors
<1>1. ASSUME NEW a, NEW before, NEW after, Place(a, before, after)
      PROVE  DOMAIN majors' = DOMAIN majors
  <2>1. majors' = [majors EXCEPT ![op.maj].usage = @ + Need,
                                 ![op.maj].first = IF before = NULL THEN a ELSE @]
    BY <1>1 DEF Place
  <2> QED
    BY <2>1
<1>2. ASSUME NEW b, FreeBlock(b)
      PROVE  DOMAIN majors' \subseteq DOMAIN majors
  <2> DEFINE a == MinorOf(b)
  <2>1. UNCHANGED lists \/ FreeInMajor(a) \/ FreeMajor(a)
    BY <1>2 DEF FreeBlock
  <2>2. CASE UNCHANGED lists
    BY <2>2 DEF lists
  <2>3. CASE FreeInMajor(a)
    <3>1. PICK m, first :
             majors' = [majors EXCEPT ![m].usage = UsageWithout(a), ![m].first = first]
      BY <2>3 DEF FreeInMajor
    <3> QED
      BY <3>1
  <2>4. CASE FreeMajor(a)
    BY <2>4 DEF FreeMajor, MajorsWithout
  <2> QED
    BY <2>1, <2>2, <2>3, <2>4
<1>3. CASE PlaceInEmpty \/ PlaceInFront \/ PlaceBehind
  BY <1>1, <1>3 DEF PlaceInEmpty, PlaceInFront, PlaceBehind
<1>4. CASE (\E b \in BagToSet(live) : Free(b)) \/ ReallocRelease
  BY <1>2, <1>4 DEF Free, ReallocRelease
<1>5. ASSUME UNCHANGED majors
      PROVE  DOMAIN majors' \subseteq DOMAIN majors
  BY <1>5
<1>6. CASE \/ \E req \in Requests : MallocBegin(req)
           \/ \E b \in BagToSet(live), size \in Requests :
                 ReallocInPlace(b, size) \/ ReallocBegin(b, size)
  BY <1>5, <1>6 DEF MallocBegin, ReallocInPlace, ReallocBegin, lists
<1>7. CASE \/ MallocRoot \/ MallocBet \/ LookAtMajor \/ NextMajor \/ Restart
           \/ EnterMinors \/ NextMinor \/ LeaveMajor
  BY <1>5, <1>7 DEF MallocRoot, MallocBet, LookAtMajor, NextMajor, Restart, EnterMinors,
                    NextMinor, LeaveMajor, Walk, lists
<1> QED
  BY <1>3, <1>4, <1>6, <1>7 DEF Next, Call, Work

\* NewMajorOnlyWhenFull: the heap grows only when no major, whether the walk
\* began at the best bet or at the root, has a gap the block fits in.
THEOREM GrowsOnlyWhenFull ==
  ASSUME Hooks = "contract"
  PROVE  Spec => NewMajorOnlyWhenFull
<1>1. ASSUME IInv, [Next]_vars, DOMAIN majors' \ DOMAIN majors # {}
      PROVE  \A m \in DOMAIN majors : \A gap \in Gaps(m) : gap < Need
  <2>1. Next
    BY <1>1 DEF vars, lists
  <2>2. CASE MallocFirstMajor
    BY <1>1, <2>2, NoRoot DEF MallocFirstMajor
  <2>3. CASE MallocNewMajor
    <3>1. \A m \in DOMAIN majors : Full(m)
      BY <1>1, <2>3, AllFull DEF MallocNewMajor
    <3> QED
      BY <3>1 DEF Full
  <2> QED
    BY <1>1, <2>1, <2>2, <2>3, NoOtherMajor
<1> QED
  BY <1>1, Invariant, PTL DEF Spec, NewMajorOnlyWhenFull

-----------------------------------------------------------------------------
(* The heap is an allocator.                                               *)

\* The bags of the allocator are those of the heap.
LEMMA SameBags ==
  /\ A!EmptyBag = EmptyBag
  /\ \A B : A!BagToSet(B) = DOMAIN B
  /\ \A S : A!SetToBag(S) = SetToBag(S)
<1>1. \A S : A!SetToBag(S) = SetToBag(S)
  BY DEF A!SetToBag, SetToBag
<1>2. \A B : A!BagToSet(B) = DOMAIN B
  BY DEF A!BagToSet
<1>3. A!EmptyBag = EmptyBag
  BY <1>1 DEF A!EmptyBag, EmptyBag
<1> QED
  BY <1>1, <1>2, <1>3

LEMMA SameSums ==
  ASSUME NEW B, NEW C
  PROVE  A!(+)(B, C) = B (+) C /\ A!(-)(B, C) = B (-) C
<1>1. A!(+)(B, C) = B (+) C
  BY DEF A!(+), (+)
<1>2. A!(-)(B, C) = B (-) C
  BY DEF A!(-), (-)
<1> QED
  BY <1>1, <1>2

\* Two blocks have nothing in common.
LEMMA AreasDisjoint ==
  ASSUME Headers, MajorsApart, MinorsApart, Held,
         NEW b \in DOMAIN live, NEW c \in DOMAIN live, b # c
  PROVE  A!Area(b) \cap A!Area(c) = {}
<1> DEFINE x == MinorOf(b)
           y == MinorOf(c)
<1>1. x \in DOMAIN minors /\ y \in DOMAIN minors /\ x # y
  BY HeldFacts
<1>2. EndOf(x) <= y \/ EndOf(y) <= x
  BY <1>1, MinorsDisjoint
<1>3. /\ b.ptr \in Nat /\ b.req \in Nat /\ x + MinorSize <= b.ptr
      /\ b.ptr + b.req <= EndOf(x)
      /\ c.ptr \in Nat /\ c.req \in Nat /\ y + MinorSize <= c.ptr
      /\ c.ptr + c.req <= EndOf(y)
  BY BlockInside
<1>4. x \in Nat /\ y \in Nat /\ EndOf(x) \in Nat /\ EndOf(y) \in Nat
  BY <1>1, HeaderFacts
<1> HIDE DEF x, y
<1>5. b.ptr + b.req <= c.ptr \/ c.ptr + c.req <= b.ptr
  BY <1>2, <1>3, <1>4, Numbers
<1> QED
  BY <1>3, <1>5 DEF A!Area

LEMMA AllAreas ==
  (Headers /\ MajorsApart /\ MinorsApart /\ Held)
     => \A b, c \in DOMAIN live : b # c => (A!Area(b) \cap A!Area(c) = {})
BY AreasDisjoint

LEMMA AllAreasNext ==
  (Headers' /\ MajorsApart' /\ MinorsApart' /\ Held')
     => \A b, c \in DOMAIN live' : b # c => (A!Area(b) \cap A!Area(c) = {})
<1>1. ((Headers /\ MajorsApart /\ MinorsApart /\ Held)
          => \A b, c \in DOMAIN live : b # c => (A!Area(b) \cap A!Area(c) = {}))'
  BY AllAreas, PTL
<1> QED
  BY <1>1

\* A header that is placed takes a block.
LEMMA PlacingTakes ==
  ASSUME IInv, Placing
  PROVE  A!Take
<1>1. PICK a, before, after : Room(a, before, after) /\ Place(a, before, after)
  BY DEF Placing
<1>2. Headers /\ MajorsApart /\ MinorsApart /\ Held /\ op.req \in Nat
  BY OpFacts DEF IInv
<1>3. PICK b : /\ b \notin DOMAIN live
               /\ DOMAIN live' = DOMAIN live \cup {b}
               /\ live' = live (+) SetToBag({b})
  BY <1>1, <1>2, PlaceKeepsHeld
<1>4. Headers' /\ MajorsApart' /\ MinorsApart' /\ Held'
  BY PlacingStep DEF IInv
<1>5. ASSUME NEW c \in DOMAIN live
      PROVE  A!Area(b) \cap A!Area(c) = {}
  <2>1. b \in DOMAIN live' /\ c \in DOMAIN live' /\ b # c
    BY <1>3
  <2> QED
    BY <1>4, <2>1, AllAreasNext
<1>6. live' = A!(+)(live, A!SetToBag({b}))
  BY <1>3, SameBags, SameSums
<1> QED
  BY <1>3, <1>5, <1>6, SameBags DEF A!Take

LEMMA FreeGives ==
  ASSUME NEW b \in DOMAIN live, FreeBlock(b)
  PROVE  A!Give
<1>1. live' = A!(-)(live, A!SetToBag({b}))
  BY SameBags, SameSums DEF FreeBlock
<1> QED
  BY <1>1, SameBags DEF A!Give

LEMMA InPlaceShrinks ==
  ASSUME IInv, NEW b \in DOMAIN live, NEW size \in Requests, ReallocInPlace(b, size)
  PROVE  A!Shrink
<1>1. size <= b.req /\ b.req \in Nat /\ size \in Nat
  BY ReallocInPlaceStep, BlockInside, Numbers DEF IInv
<1>2. live' = A!(+)(A!(-)(live, A!SetToBag({b})), A!SetToBag({[b EXCEPT !.req = size]}))
  BY SameBags, SameSums DEF ReallocInPlace
<1>3. size \in 0 .. b.req /\ b \in A!BagToSet(live)
  BY <1>1, SameBags
<1> QED
  BY <1>2, <1>3, Zenon DEF A!Shrink

LEMMA StepAllocates ==
  ASSUME IInv, [Next]_vars
  PROVE  [A!Next]_live
<1>1. CASE PlaceInEmpty \/ PlaceInFront \/ PlaceBehind
  BY <1>1, PlaceInEmptyPlaces, PlaceInFrontPlaces, PlaceBehindPlaces, PlacingTakes
  DEF A!Next
<1>2. ASSUME NEW b \in DOMAIN live, Free(b)
      PROVE  A!Next
  BY <1>2, FreeGives DEF Free, A!Next
<1>3. ASSUME NEW b \in DOMAIN live, NEW size \in Requests, ReallocInPlace(b, size)
      PROVE  A!Next
  BY <1>3, InPlaceShrinks DEF A!Next
<1>4. CASE ReallocRelease
  <2>1. PICK b \in op.old : FreeBlock(b)
    BY <1>4 DEF ReallocRelease
  <2> QED
    BY <2>1, OpFacts, FreeGives DEF A!Next
<1>5. CASE \/ \E req \in Requests : MallocBegin(req)
           \/ \E b \in BagToSet(live), size \in Requests : ReallocBegin(b, size)
  BY <1>5 DEF MallocBegin, ReallocBegin
<1>6. CASE \/ MallocRoot \/ MallocFirstMajor \/ MallocBet \/ LookAtMajor \/ NextMajor
           \/ Restart \/ MallocNewMajor \/ EnterMinors \/ NextMinor \/ LeaveMajor
  BY <1>6 DEF MallocRoot, MallocFirstMajor, MallocBet, LookAtMajor, NextMajor, Restart,
              MallocNewMajor, EnterMinors, NextMinor, LeaveMajor, Walk
<1>7. CASE UNCHANGED vars
  BY <1>7 DEF vars
<1> QED
  BY <1>1, <1>2, <1>3, <1>4, <1>5, <1>6, <1>7, HeldBlocks DEF Next, Call, Work

\* ImplementsAllocator: whatever kmalloc, krealloc and kfree do with the lists, a
\* client sees blocks taken where no other block lies, given back and made
\* smaller, and nothing else.
THEOREM HeapAllocates ==
  ASSUME Hooks = "contract"
  PROVE  Spec => ImplementsAllocator
<1>1. Init => A!Init
  BY SameBags DEF Init, A!Init
<1>2. IInv /\ [Next]_vars => [A!Next]_live
  BY StepAllocates
<1> QED
  BY <1>1, <1>2, Invariant, PTL DEF Spec, ImplementsAllocator, A!Spec
=============================================================================
