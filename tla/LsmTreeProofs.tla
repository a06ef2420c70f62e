---------------------------- MODULE LsmTreeProofs ----------------------------
(***************************************************************************)
(* What flushes, moves and compactions leave of the updates, for any       *)
(* number of keys, levels, updates and snapshots and any way of opening    *)
(* the database: every update has one home, the inputs of a compaction     *)
(* stay in the version while it runs, and what it drops no snapshot sees.  *)
(*                                                                         *)
(* The updates are taken here as one set, wherever they are, so that the   *)
(* drop rules can be told apart from the order in which Get reads.         *)
(***************************************************************************)
EXTENDS LsmTree, FiniteSetTheorems, SequenceTheorems, WellFoundedInduction, TLAPS

Update == [k : Keys, s : Nat \ {0}, d : BOOLEAN]
Distinct(S) == \A e, f \in S : e.s = f.s => e = f

\* Files as BuildTable and a compaction make them.
FileOk(f) ==
  /\ f = File(f.num, f.ents)
  /\ f.ents \in SUBSET Update /\ f.ents # {} /\ IsFiniteSet(f.ents)

\* Every update of the database, those that readers see, and the levels that
\* IsBaseLevelForKey looks at.
InLevels == UNION {Entries(FilesOf(l)) : l \in Levels}
Store == mem \cup imm \cup InLevels
Live == {seq} \cup {snapshots[i] : i \in DOMAIN snapshots}
Deeper(l) == (l + 2)..(NumLevels - 1)

(***************************************************************************)
(* The invariant.  A file stays where it is until it is compacted, and a   *)
(* memtable flushed in the middle of a compaction is newer than all of its *)
(* inputs: so what IsBaseLevelForKey says of the old version can be used.  *)
(***************************************************************************)
\* Each update number is that of one update, in one file of one level.
OneHome ==
  \A l, m \in Levels : \A f \in FilesOf(l), g \in FilesOf(m) :
    \A e \in f.ents, h \in g.ents : e.s = h.s => e = h /\ l = m /\ f = g
NewestInMemory ==
  /\ \A e \in mem, f \in imm \cup InLevels : f.s < e.s
  /\ \A e \in imm, f \in InLevels : f.s < e.s
UpdatesApart == OneHome /\ NewestInMemory /\ Distinct(mem) /\ Distinct(imm)

Typed ==
  /\ options \in Settings /\ seq \in Nat
  /\ mem \in SUBSET Update /\ IsFiniteSet(mem)
  /\ imm \in SUBSET Update /\ IsFiniteSet(imm)
  /\ \A e \in Store : e.s <= seq

SnapshotsInv ==
  /\ snapshots \in Seq(Nat)
  /\ \A i \in DOMAIN snapshots : snapshots[i] <= seq
  /\ \A i, j \in DOMAIN snapshots : i < j => snapshots[i] <= snapshots[j]

\* The files F in the order of their smallest keys, each once.
Arranges(files, F) ==
  /\ files \in Seq(F) /\ ToSet(files) = F
  /\ \A i, j \in DOMAIN files : i < j => Before(files[i].smallest, files[j].smallest)

VersionInv ==
  /\ DOMAIN levels = Levels
  /\ \A l \in Levels :
       /\ Arranges(levels[l], FilesOf(l)) /\ IsFiniteSet(FilesOf(l))
       /\ \A f \in FilesOf(l) : FileOk(f)

InputsStay ==
  comp # NoCompaction =>
    /\ comp.c.in0 \subseteq FilesOf(comp.c.level)
    /\ comp.c.in1 \subseteq FilesOf(comp.c.level + 1)

\* The version that a compaction looks at is out of date, but not by much.
BaseInv ==
  comp # NoCompaction =>
    /\ comp.c.level \in 0..(NumLevels - 2)
    /\ \A s \in Live : comp.snapshot <= s
    /\ comp.snapshot \in Nat
    /\ \A l \in Deeper(comp.c.level) : \A f \in FilesOf(l) :
         \/ f \in {comp.base[l][i] : i \in DOMAIN comp.base[l]}
         \/ \A e \in f.ents, g \in Input(comp) : g.s < e.s

IInv == Typed /\ SnapshotsInv /\ VersionInv /\ UpdatesApart /\ InputsStay /\ BaseInv

(***************************************************************************)
(* Numbers.                                                                *)
(***************************************************************************)
LEMMA LeastNumber ==
  ASSUME NEW T \in SUBSET Nat, T # {}
  PROVE  \E m \in T : \A k \in T : m <= k
<1> DEFINE R == {p \in Nat \X Nat : p[1] < p[2]}
<1>1. IsWellFoundedOn(R, Nat)
  BY NatLessThanWellFounded DEF OpToRel
<1>2. \A i, j \in Nat : i < j => <<i, j>> \in R
  OBVIOUS
<1> HIDE DEF R
<1>3. PICK m \in T : \A k \in T : ~(<<k, m>> \in R)
  BY <1>1, WFMin
<1>4. \A k \in T : m <= k
  <2> SUFFICES ASSUME NEW k \in T PROVE ~(k < m)
    OBVIOUS
  <2>1. k \in Nat /\ m \in Nat /\ ~(<<k, m>> \in R)
    BY <1>3
  <2>2. QED  BY <1>2, <2>1
<1>5. QED  BY <1>4

LEMMA Upwards ==
  ASSUME NEW T, 0 \in T, \A n \in Nat : n \in T => n + 1 \in T
  PROVE  \A n \in Nat : n \in T
<1> SUFFICES ASSUME NEW x \in Nat, x \notin T PROVE FALSE
  OBVIOUS
<1> DEFINE S == {n \in Nat : n \notin T}
<1>1. S \in SUBSET Nat /\ S # {}
  OBVIOUS
<1>2. PICK m \in S : \A k \in S : m <= k
  BY <1>1, LeastNumber
<1>3. m \in Nat /\ m # 0
  BY <1>2
<1>4. m - 1 \in Nat /\ m - 1 \notin S /\ (m - 1) + 1 = m
  BY <1>2, <1>3
<1>5. QED  BY <1>2, <1>4

(***************************************************************************)
(* A finite set under a strict total order, given as the set of its pairs: *)
(* how many elements come before an element is its place.                  *)
(***************************************************************************)
Orders(R, S) ==
  /\ \A x \in S : <<x, x>> \notin R
  /\ \A x, y \in S : x = y \/ <<x, y>> \in R \/ <<y, x>> \in R
  /\ \A x, y, z \in S : <<x, y>> \in R /\ <<y, z>> \in R => <<x, z>> \in R
Earlier(R, S, x) == {y \in S : <<y, x>> \in R}
Place(R, S, x) == Cardinality(Earlier(R, S, x))

LEMMA PlacesGrow ==
  ASSUME NEW S, IsFiniteSet(S), NEW R, Orders(R, S), NEW x \in S, NEW y \in S, <<x, y>> \in R
  PROVE  Place(R, S, x) < Place(R, S, y)
<1>1. Earlier(R, S, x) \in SUBSET Earlier(R, S, y)
  BY DEF Orders, Earlier
<1>2. x \in Earlier(R, S, y) /\ x \notin Earlier(R, S, x)
  BY DEF Orders, Earlier
<1>3. Earlier(R, S, y) \in SUBSET S
  BY DEF Earlier
<1>4. IsFiniteSet(Earlier(R, S, y))
  BY <1>3, FS_Subset
<1>5. /\ IsFiniteSet(Earlier(R, S, x))
      /\ Cardinality(Earlier(R, S, x)) <= Cardinality(Earlier(R, S, y))
      /\ Cardinality(Earlier(R, S, x)) # Cardinality(Earlier(R, S, y))
  BY <1>1, <1>2, <1>4, FS_Subset
<1>6. Cardinality(Earlier(R, S, x)) \in Nat /\ Cardinality(Earlier(R, S, y)) \in Nat
  BY <1>4, <1>5, FS_CardinalityType
<1>7. QED  BY <1>5, <1>6 DEF Place

LEMMA PlacesInRange ==
  ASSUME NEW S, IsFiniteSet(S), NEW R, Orders(R, S), NEW x \in S
  PROVE  Cardinality(S) \in Nat /\ Place(R, S, x) \in 0..(Cardinality(S) - 1)
<1>1. Earlier(R, S, x) \in SUBSET S /\ x \notin Earlier(R, S, x)
  BY DEF Orders, Earlier
<1>2. /\ IsFiniteSet(Earlier(R, S, x))
      /\ Cardinality(Earlier(R, S, x)) <= Cardinality(S)
      /\ Cardinality(Earlier(R, S, x)) # Cardinality(S)
  BY <1>1, FS_Subset
<1>3. Cardinality(Earlier(R, S, x)) \in Nat /\ Cardinality(S) \in Nat
  BY <1>2, FS_CardinalityType
<1>4. QED  BY <1>2, <1>3 DEF Place

LEMMA Places ==
  ASSUME NEW S, IsFiniteSet(S), NEW R, Orders(R, S)
  PROVE  /\ \A x, y \in S : Place(R, S, x) = Place(R, S, y) => x = y
         /\ \A n \in 0..(Cardinality(S) - 1) : \E x \in S : Place(R, S, x) = n
<1> DEFINE N == 0..(Cardinality(S) - 1)
           place == [x \in S |-> Place(R, S, x)]
<1>1. Cardinality(S) \in Nat
  BY FS_CardinalityType
<1>2. ASSUME NEW x \in S, NEW y \in S, Place(R, S, x) = Place(R, S, y) PROVE x = y
  <2>1. Place(R, S, x) \in Nat /\ Place(R, S, y) \in Nat
    BY PlacesInRange
  <2>2. ~(<<x, y>> \in R) /\ ~(<<y, x>> \in R)
    BY <1>2, <2>1, PlacesGrow
  <2>3. QED  BY <2>2 DEF Orders
<1>3. IsFiniteSet(N) /\ Cardinality(N) = Cardinality(S)
  <2>1. Cardinality(S) - 1 \in Int /\ 0 \in Int
    BY <1>1
  <2>2. /\ IsFiniteSet(N)
        /\ Cardinality(N) = IF 0 > Cardinality(S) - 1 THEN 0 ELSE Cardinality(S) - 1 - 0 + 1
    BY <2>1, FS_Interval
  <2>3. QED  BY <1>1, <2>2
<1>4. place \in [S -> N]
  BY PlacesInRange
<1>5. place \in Injection(S, N)
  BY <1>2, <1>4 DEF Injection, IsInjective
<1>6. place \in Surjection(S, N)
  <2> HIDE DEF place, N
  <2>1. QED  BY <1>3, <1>5, FS_Injection
<1>7. \A n \in N : \E x \in S : place[x] = n
  BY <1>6 DEF Surjection
<1>8. QED  BY <1>2, <1>7

LEMMA FirstOf ==
  ASSUME NEW S, IsFiniteSet(S), S # {}, NEW R, Orders(R, S)
  PROVE  \E m \in S : \A y \in S : m = y \/ <<m, y>> \in R
<1> DEFINE T == {Place(R, S, x) : x \in S}
<1>1. T \in SUBSET Nat /\ T # {}
  BY PlacesInRange
<1>2. PICK n \in T : \A k \in T : n <= k
  BY <1>1, LeastNumber
<1>3. PICK m \in S : Place(R, S, m) = n
  BY <1>2
<1>4. ASSUME NEW y \in S PROVE m = y \/ <<m, y>> \in R
  <2>1. Place(R, S, m) <= Place(R, S, y) /\ Place(R, S, m) \in Nat /\ Place(R, S, y) \in Nat
    BY <1>2, <1>3, PlacesInRange
  <2>2. ~(<<y, m>> \in R)
    BY <2>1, PlacesGrow
  <2>3. QED  BY <2>2 DEF Orders
<1>5. QED  BY <1>4

Arrange(R, S) == [i \in 1..Cardinality(S) |-> CHOOSE x \in S : Place(R, S, x) = i - 1]

LEMMA Arranged ==
  ASSUME NEW S, IsFiniteSet(S), NEW R, Orders(R, S)
  PROVE  /\ Arrange(R, S) \in Seq(S)
         /\ Len(Arrange(R, S)) = Cardinality(S) /\ Cardinality(S) \in Nat
         /\ {Arrange(R, S)[i] : i \in DOMAIN Arrange(R, S)} = S
         /\ \A i, j \in DOMAIN Arrange(R, S) : i < j => <<Arrange(R, S)[i], Arrange(R, S)[j]>> \in R
<1> DEFINE q == Arrange(R, S)
           n == Cardinality(S)
<1>1. n \in Nat
  BY FS_CardinalityType
<1>2. ASSUME NEW i \in 1..n PROVE q[i] \in S /\ Place(R, S, q[i]) = i - 1
  <2>1. i - 1 \in 0..(n - 1)
    BY <1>1
  <2>2. \E x \in S : Place(R, S, x) = i - 1
    BY <2>1, Places
  <2>3. q[i] = CHOOSE x \in S : Place(R, S, x) = i - 1
    BY DEF Arrange
  <2>4. QED  BY <2>2, <2>3
<1>3. DOMAIN q = 1..n
  BY DEF Arrange
<1>4. q = [i \in 1..n |-> q[i]]
  BY DEF Arrange
<1> HIDE DEF q, n
<1>5. q \in Seq(S) /\ Len(q) = n
  BY <1>1, <1>2, <1>3, <1>4
<1>6. ASSUME NEW x \in S PROVE \E i \in 1..n : q[i] = x
  <2>1. Place(R, S, x) \in 0..(n - 1)
    BY PlacesInRange DEF n
  <2>2. Place(R, S, x) + 1 \in 1..n /\ Place(R, S, x) + 1 - 1 = Place(R, S, x)
    BY <1>1, <2>1
  <2>3. PICK i \in 1..n : i - 1 = Place(R, S, x)
    <3>1. Place(R, S, x) \in Int
      BY <2>1
    <3>2. QED  BY <2>2, <3>1
  <2>4. q[i] \in S /\ Place(R, S, q[i]) = i - 1
    BY <1>2
  <2>5. QED  BY <2>3, <2>4, Places
<1>7. ASSUME NEW i \in 1..n, NEW j \in 1..n, i < j PROVE <<q[i], q[j]>> \in R
  <2>1. q[i] \in S /\ q[j] \in S /\ Place(R, S, q[i]) = i - 1 /\ Place(R, S, q[j]) = j - 1
    BY <1>2
  <2>2. q[i] # q[j]
    BY <1>7, <2>1
  <2>3. ~(<<q[j], q[i]>> \in R)
    BY <1>7, <2>1, PlacesGrow
  <2>4. QED  BY <2>1, <2>2, <2>3 DEF Orders
<1>8. {q[i] : i \in DOMAIN q} = S
  BY <1>2, <1>3, <1>6
<1>9. QED  BY <1>1, <1>3, <1>5, <1>7, <1>8 DEF q, n

(***************************************************************************)
(* Entries and files.                                                      *)
(***************************************************************************)
Pairs(S) == {p \in S \X S : Before(p[1], p[2])}

LEMMA BeforeOrders ==
  ASSUME NEW S \in SUBSET Update, Distinct(S)
  PROVE  /\ Orders(Pairs(S), S)
         /\ \A x, y \in S : <<x, y>> \in Pairs(S) <=> Before(x, y)
<1>1. \A x, y \in S : <<x, y>> \in Pairs(S) <=> Before(x, y)
  BY DEF Pairs
<1>2. \A x \in S : x.k \in Int /\ x.s \in Int
  BY NumKeysAssumption DEF Update, Keys
<1>3. \A x \in S : ~Before(x, x)
  BY <1>2 DEF Before
<1>4. \A x, y \in S : x = y \/ Before(x, y) \/ Before(y, x)
  BY <1>2 DEF Before, Distinct
<1>5. \A x, y, z \in S : Before(x, y) /\ Before(y, z) => Before(x, z)
  BY <1>2 DEF Before
<1>6. QED  BY <1>1, <1>3, <1>4, <1>5 DEF Orders

\* The least and the greatest entry of a file bound its user keys.
LEMMA Ends ==
  ASSUME NEW S \in SUBSET Update, Distinct(S), S # {}, IsFiniteSet(S)
  PROVE  /\ FirstEntry(S) \in S /\ \A e \in S : e = FirstEntry(S) \/ Before(FirstEntry(S), e)
         /\ LastEntry(S) \in S /\ \A e \in S : e = LastEntry(S) \/ Before(e, LastEntry(S))
<1> DEFINE R == Pairs(S)
           C == {p \in S \X S : <<p[2], p[1]>> \in R}
<1>1. Orders(R, S) /\ \A x, y \in S : <<x, y>> \in R <=> Before(x, y)
  BY BeforeOrders
<1>2. \A x, y \in S : <<x, y>> \in C <=> <<y, x>> \in R
  OBVIOUS
<1> HIDE DEF R, C
<1>3. Orders(C, S)
  BY <1>1, <1>2 DEF Orders
<1>4. \E m \in S : \A y \in S : m = y \/ Before(m, y)
  BY <1>1, FirstOf
<1>5. \E m \in S : \A y \in S : m = y \/ Before(y, m)
  <2>1. \E m \in S : \A y \in S : m = y \/ <<m, y>> \in C
    BY <1>3, FirstOf
  <2>2. QED  BY <1>1, <1>2, <2>1
<1>6. FirstEntry(S) \in S /\ \A e \in S : e = FirstEntry(S) \/ Before(FirstEntry(S), e)
  BY <1>4 DEF FirstEntry
<1>7. LastEntry(S) \in S /\ \A e \in S : e = LastEntry(S) \/ Before(e, LastEntry(S))
  BY <1>5 DEF LastEntry
<1>8. QED  BY <1>6, <1>7

LEMMA FileIs ==
  ASSUME NEW f, FileOk(f), Distinct(f.ents)
  PROVE  /\ f.smallest \in f.ents /\ f.largest \in f.ents
         /\ f.smallest \in Update /\ f.largest \in Update
         /\ \A e \in f.ents : f.smallest.k <= e.k /\ e.k <= f.largest.k
         /\ \A e \in f.ents : ~Before(f.largest, e)
<1>1. f.smallest = FirstEntry(f.ents) /\ f.largest = LastEntry(f.ents)
  BY DEF FileOk, File
<1>2. /\ f.smallest \in f.ents /\ \A e \in f.ents : e = f.smallest \/ Before(f.smallest, e)
      /\ f.largest \in f.ents /\ \A e \in f.ents : e = f.largest \/ Before(e, f.largest)
  BY <1>1, Ends DEF FileOk
<1>3. \A e \in f.ents : e \in Update /\ e.k \in Int /\ e.s \in Int
  BY NumKeysAssumption DEF Update, Keys, FileOk
<1>4. QED  BY <1>2, <1>3 DEF Before

\* Files that share no update.
Proper(F) ==
  /\ \A f \in F : FileOk(f)
  /\ \A f, g \in F : \A e \in f.ents, h \in g.ents : e.s = h.s => e = h /\ f = g

LEMMA ProperFile ==
  ASSUME NEW F, Proper(F), NEW f \in F
  PROVE  FileOk(f) /\ Distinct(f.ents)
BY DEF Proper, Distinct

LEMMA ProperPart ==
  ASSUME NEW F, Proper(F), NEW G \in SUBSET F
  PROVE  Proper(G)
BY DEF Proper

LEMMA SmallestDiffer ==
  ASSUME NEW F, Proper(F)
  PROVE  \A f, g \in F : f.smallest.s = g.smallest.s => f = g
<1>1. \A f \in F : f.smallest \in f.ents
  BY ProperFile, FileIs
<1>2. QED  BY <1>1 DEF Proper

\* A level is kept in order of the smallest keys, and nothing of it is lost.
LEMMA LevelInOrder ==
  ASSUME NEW F, IsFiniteSet(F), Proper(F)
  PROVE  /\ {InOrder(F)[i] : i \in DOMAIN InOrder(F)} = F
         /\ InOrder(F) \in Seq(F) /\ Len(InOrder(F)) = Cardinality(F)
         /\ \A i, j \in DOMAIN InOrder(F) :
              i < j => Before(InOrder(F)[i].smallest, InOrder(F)[j].smallest)
<1> DEFINE R == {p \in F \X F : Before(p[1].smallest, p[2].smallest)}
<1>1. \A x, y \in F : <<x, y>> \in R <=> Before(x.smallest, y.smallest)
  OBVIOUS
<1>2. \A f \in F : f.smallest \in Update
  BY ProperFile, FileIs
<1>3. \A f \in F : f.smallest.k \in Int /\ f.smallest.s \in Int
  BY <1>2, NumKeysAssumption DEF Update, Keys
<1>4. Orders(R, F)
  <2> HIDE DEF R
  <2>1. \A x \in F : ~Before(x.smallest, x.smallest)
    BY <1>3 DEF Before
  <2>2. \A x, y \in F : x = y \/ Before(x.smallest, y.smallest) \/ Before(y.smallest, x.smallest)
    BY <1>3, SmallestDiffer DEF Before
  <2>3. \A x, y, z \in F : /\ Before(x.smallest, y.smallest) /\ Before(y.smallest, z.smallest)
                           => Before(x.smallest, z.smallest)
    BY <1>3 DEF Before
  <2>4. QED  BY <1>1, <2>1, <2>2, <2>3 DEF Orders
<1>5. \A x \in F : {y \in F : Before(y.smallest, x.smallest)} = Earlier(R, F, x)
  BY <1>1 DEF Earlier
<1>6. InOrder(F) = Arrange(R, F)
  <2>1. \A x \in F : Cardinality({y \in F : Before(y.smallest, x.smallest)}) = Place(R, F, x)
    BY <1>5 DEF Place
  <2> HIDE DEF R
  <2> DEFINE a(i) == CHOOSE x \in F : Cardinality({y \in F : Before(y.smallest, x.smallest)}) = i - 1
             b(i) == CHOOSE x \in F : Place(R, F, x) = i - 1
  <2>2. \A i : a(i) = b(i)
    BY <2>1
  <2> HIDE DEF a, b
  <2>3. [i \in 1..Cardinality(F) |-> a(i)] = [i \in 1..Cardinality(F) |-> b(i)]
    BY <2>2
  <2>4. QED  BY <2>3, Zenon DEF InOrder, OrderBy, Arrange, a, b
<1> HIDE DEF R
<1> DEFINE q == Arrange(R, F)
<1>7. /\ q \in Seq(F) /\ Len(q) = Cardinality(F)
      /\ {q[i] : i \in DOMAIN q} = F
      /\ \A i, j \in DOMAIN q : i < j => <<q[i], q[j]>> \in R
  BY <1>4, Arranged
<1> HIDE DEF q
<1>8. \A i \in DOMAIN q : q[i] \in F
  BY <1>7
<1>9. \A i, j \in DOMAIN q : i < j => Before(q[i].smallest, q[j].smallest)
  BY <1>1, <1>7, <1>8
<1>10. QED  BY <1>6, <1>7, <1>9 DEF q

LEMMA Merged ==
  ASSUME NEW S \in SUBSET Update, Distinct(S), IsFiniteSet(S)
  PROVE  /\ OrderBy(S, Before) \in Seq(S)
         /\ {OrderBy(S, Before)[i] : i \in DOMAIN OrderBy(S, Before)} = S
         /\ \A i, j \in DOMAIN OrderBy(S, Before) :
              i < j => OrderBy(S, Before)[i] # OrderBy(S, Before)[j]
<1> DEFINE R == Pairs(S)
<1>1. Orders(R, S) /\ \A x, y \in S : <<x, y>> \in R <=> Before(x, y)
  BY BeforeOrders
<1> HIDE DEF R
<1>2. \A x \in S : {y \in S : Before(y, x)} = Earlier(R, S, x)
  BY <1>1 DEF Earlier
<1>3. OrderBy(S, Before) = Arrange(R, S)
  <2>1. \A x \in S : Cardinality({y \in S : Before(y, x)}) = Place(R, S, x)
    BY <1>2 DEF Place
  <2> DEFINE a(i) == CHOOSE x \in S : Cardinality({y \in S : Before(y, x)}) = i - 1
             b(i) == CHOOSE x \in S : Place(R, S, x) = i - 1
  <2>2. \A i : a(i) = b(i)
    BY <2>1
  <2> HIDE DEF a, b
  <2>3. [i \in 1..Cardinality(S) |-> a(i)] = [i \in 1..Cardinality(S) |-> b(i)]
    BY <2>2
  <2>4. QED  BY <2>3, Zenon DEF OrderBy, Arrange, a, b
<1>4. \A x \in S : <<x, x>> \notin R
  <2>1. Orders(R, S)
    BY <1>1
  <2>2. QED  BY <2>1, Zenon DEF Orders
<1>5. /\ Arrange(R, S) \in Seq(S)
      /\ {Arrange(R, S)[i] : i \in DOMAIN Arrange(R, S)} = S
      /\ \A i, j \in DOMAIN Arrange(R, S) : i < j => <<Arrange(R, S)[i], Arrange(R, S)[j]>> \in R
  BY <1>1, Arranged
<1>6. \A i \in DOMAIN Arrange(R, S) : Arrange(R, S)[i] \in S
  BY <1>5
<1>7. \A i, j \in DOMAIN Arrange(R, S) : i < j => Arrange(R, S)[i] # Arrange(R, S)[j]
  BY <1>4, <1>5, <1>6
<1>8. QED  BY <1>3, <1>5, <1>7

(***************************************************************************)
(* Loops.  Each of the recursive functions that choose files or a level    *)
(* stops with a value or goes on with another argument: it is defined if   *)
(* some measure goes down, and its value is that of where it stops.        *)
(***************************************************************************)
Loop(g, D, stop, value, next) == g = [p \in D |-> IF p \in stop THEN value[p] ELSE g[next[p]]]

\* The measure m goes down, and R relates an argument to where the loop stops
\* if it relates the next one to it.
Descends(D, stop, next, m) ==
  /\ stop \in SUBSET D /\ m \in [D -> Nat]
  /\ \A p \in D \ stop : next[p] \in D /\ m[next[p]] < m[p]
LeadsTo(D, stop, next, R) ==
  /\ \A p \in stop : <<p, p>> \in R
  /\ \A p \in D \ stop : \A q \in stop : <<next[p], q>> \in R => <<p, q>> \in R

LEMMA LoopIsDefined ==
  ASSUME NEW D, NEW stop, NEW value, NEW next, NEW m, Descends(D, stop, next, m)
  PROVE  \E g : Loop(g, D, stop, value, next)
<1> stop \in SUBSET D /\ m \in [D -> Nat] /\ \A p \in D \ stop : next[p] \in D /\ m[next[p]] < m[p]
  BY DEF Descends
<1> DEFINE Below(n) == {p \in D : m[p] < n}
           Body(g, p) == IF p \in stop THEN value[p] ELSE g[next[p]]
           T == {n \in Nat : \E g : g = [p \in Below(n) |-> Body(g, p)]}
           Val(p) == CHOOSE v : \E g : g = [q \in Below(m[p] + 1) |-> Body(g, q)] /\ v = g[p]
           G == [p \in D |-> Val(p)]
<1>1. \A p \in D : m[p] \in Nat
  OBVIOUS
<1>2. 0 \in T
  <2>1. Below(0) = {}
    BY <1>1
  <2>2. [p \in Below(0) |-> 0] = [p \in Below(0) |-> Body([q \in Below(0) |-> 0], p)]
    BY <2>1
  <2>3. QED  BY <2>2
<1>3. ASSUME NEW n \in Nat, n \in T PROVE n + 1 \in T
  <2>1. PICK f : f = [p \in Below(n) |-> Body(f, p)]
    BY <1>3
  <2> DEFINE g == [p \in Below(n + 1) |-> Body(f, p)]
  <2>2. \A p \in Below(n) : p \in Below(n + 1)
    BY <1>1
  <2>3. \A p \in Below(n) : f[p] = Body(f, p)
    BY <2>1
  <2>4. \A p \in Below(n) : g[p] = f[p]
    BY <2>2, <2>3
  <2>5. \A p \in Below(n + 1) : p \notin stop => next[p] \in Below(n)
    BY <1>1
  <2> HIDE DEF Below
  <2>6. \A p \in Below(n + 1) : Body(f, p) = Body(g, p)
    BY <2>4, <2>5
  <2>7. g = [p \in Below(n + 1) |-> Body(g, p)]
    BY <2>6
  <2>8. n + 1 \in Nat
    OBVIOUS
  <2> HIDE DEF g
  <2>9. \E h : h = [p \in Below(n + 1) |-> Body(h, p)]
    BY <2>7
  <2>10. QED  BY <2>8, <2>9
<1>4. \A n \in Nat : n \in T
  BY <1>2, <1>3, Upwards
<1>5. ASSUME NEW n \in Nat, NEW f, f = [p \in Below(n) |-> Body(f, p)],
             NEW k \in Nat, NEW g, g = [p \in Below(k) |-> Body(g, p)]
      PROVE  \A p \in D : m[p] < n /\ m[p] < k => f[p] = g[p]
  <2> DEFINE U == {i \in Nat : \A p \in D : m[p] < i /\ m[p] < n /\ m[p] < k => f[p] = g[p]}
  <2>1. 0 \in U
    BY <1>1
  <2>2. ASSUME NEW i \in Nat, i \in U PROVE i + 1 \in U
    <3> SUFFICES ASSUME NEW p \in D, m[p] < i + 1, m[p] < n, m[p] < k PROVE f[p] = g[p]
      OBVIOUS
    <3>1. p \in Below(n) /\ p \in Below(k)
      OBVIOUS
    <3>2. f[p] = Body(f, p) /\ g[p] = Body(g, p)
      <4> HIDE DEF Below
      <4>1. QED  BY <1>5, <3>1
    <3>3. CASE p \in stop
      BY <3>2, <3>3
    <3>4. CASE p \notin stop
      <4>1. next[p] \in D /\ m[next[p]] < m[p] /\ m[next[p]] \in Nat /\ m[p] \in Nat
        BY <1>1, <3>4
      <4>2. f[next[p]] = g[next[p]]
        BY <2>2, <4>1
      <4>3. QED  BY <3>2, <3>4, <4>2
    <3>5. QED  BY <3>3, <3>4
  <2>3. \A i \in Nat : i \in U
    <3> HIDE DEF U
    <3>1. QED  BY <2>1, <2>2, Upwards
  <2>4. QED
    <3> SUFFICES ASSUME NEW p \in D, m[p] < n, m[p] < k PROVE f[p] = g[p]
      OBVIOUS
    <3>1. m[p] + 1 \in Nat /\ m[p] < m[p] + 1
      BY <1>1
    <3>2. m[p] + 1 \in U
      BY <2>3, <3>1
    <3>3. QED  BY <3>1, <3>2
<1>6. ASSUME NEW p \in D PROVE \E g : g = [q \in Below(m[p] + 1) |-> Body(g, q)] /\ G[p] = g[p]
  <2>1. m[p] + 1 \in Nat
    BY <1>1
  <2>2. PICK g : g = [q \in Below(m[p] + 1) |-> Body(g, q)]
    BY <1>4, <2>1
  <2>3. \E v : \E h : h = [q \in Below(m[p] + 1) |-> Body(h, q)] /\ v = h[p]
    BY <2>2, Zenon
  <2> HIDE DEF Below, Body
  <2>4. QED  BY <2>3, Zenon
<1>7. ASSUME NEW p \in D PROVE G[p] = Body(G, p)
  <2>1. PICK g : g = [q \in Below(m[p] + 1) |-> Body(g, q)] /\ G[p] = g[p]
    BY <1>6
  <2>2. m[p] \in Nat /\ m[p] < m[p] + 1 /\ m[p] + 1 \in Nat /\ p \in Below(m[p] + 1)
    BY <1>1
  <2>3. g[p] = Body(g, p)
    <3> HIDE DEF Below, Body
    <3>1. QED  BY <2>1, <2>2
  <2>4. CASE p \in stop
    BY <2>1, <2>3, <2>4
  <2>5. CASE p \notin stop
    <3>1. next[p] \in D /\ m[next[p]] < m[p] /\ m[next[p]] \in Nat /\ m[next[p]] + 1 \in Nat
      BY <1>1, <2>5
    <3>2. PICK h : h = [q \in Below(m[next[p]] + 1) |-> Body(h, q)] /\ G[next[p]] = h[next[p]]
      BY <1>6, <3>1
    <3>3. m[next[p]] < m[p] + 1 /\ m[next[p]] < m[next[p]] + 1
      BY <2>2, <3>1
    <3>4. g[next[p]] = h[next[p]]
      <4> HIDE DEF Below, Body, G
      <4>1. QED  BY <1>5, <2>1, <2>2, <3>1, <3>2, <3>3
    <3> HIDE DEF G
    <3>5. QED  BY <2>1, <2>3, <2>5, <3>2, <3>4
  <2>6. QED  BY <2>4, <2>5
<1>8. G = [p \in D |-> G[p]]
  <2> HIDE DEF Val
  <2>1. QED  OBVIOUS
<1> HIDE DEF G
<1>9. G = [p \in D |-> Body(G, p)]
  BY <1>7, <1>8
<1>10. QED  BY <1>9 DEF Loop

LEMMA LoopStops ==
  ASSUME NEW D, NEW stop, NEW value, NEW next, NEW m, NEW R, NEW g,
         Descends(D, stop, next, m), LeadsTo(D, stop, next, R), Loop(g, D, stop, value, next)
  PROVE  \A p \in D : \E q \in stop : g[p] = value[q] /\ <<p, q>> \in R
<1> stop \in SUBSET D /\ m \in [D -> Nat] /\ \A p \in D \ stop : next[p] \in D /\ m[next[p]] < m[p]
  BY DEF Descends
<1> /\ \A p \in stop : <<p, p>> \in R
    /\ \A p \in D \ stop : \A q \in stop : <<next[p], q>> \in R => <<p, q>> \in R
  BY DEF LeadsTo
<1> DEFINE T == {n \in Nat : \A p \in D : m[p] < n => \E q \in stop : g[p] = value[q] /\ <<p, q>> \in R}
<1>1. \A p \in D : m[p] \in Nat
  OBVIOUS
<1>2. \A p \in D : g[p] = IF p \in stop THEN value[p] ELSE g[next[p]]
  BY DEF Loop
<1>3. 0 \in T
  BY <1>1
<1>4. ASSUME NEW n \in Nat, n \in T PROVE n + 1 \in T
  <2> SUFFICES ASSUME NEW p \in D, m[p] < n + 1
               PROVE  \E q \in stop : g[p] = value[q] /\ <<p, q>> \in R
    OBVIOUS
  <2>1. CASE p \in stop
    BY <1>2, <2>1
  <2>2. CASE p \notin stop
    <3>1. next[p] \in D /\ m[next[p]] < n
      BY <1>1, <2>2
    <3>2. PICK q \in stop : g[next[p]] = value[q] /\ <<next[p], q>> \in R
      BY <1>4, <3>1
    <3>3. QED  BY <1>2, <2>2, <3>2
  <2>3. QED  BY <2>1, <2>2
<1>5. \A n \in Nat : n \in T
  <2> HIDE DEF T
  <2>1. QED  BY <1>3, <1>4, Upwards
<1>6. ASSUME NEW p \in D PROVE \E q \in stop : g[p] = value[q] /\ <<p, q>> \in R
  <2>1. m[p] + 1 \in Nat /\ m[p] < m[p] + 1
    BY <1>1
  <2>2. QED  BY <1>5, <2>1
<1>7. QED  BY <1>6

LEMMA MinOf ==
  ASSUME NEW S \in SUBSET Nat, S # {}
  PROVE  Min(S) \in S /\ \A y \in S : Min(S) <= y
<1>1. \E m \in S : \A y \in S : m <= y
  BY LeastNumber
<1>2. QED  BY <1>1, Zenon DEF Min

LEMMA MaxOf ==
  ASSUME NEW n \in Nat, NEW S \in SUBSET (0..n), S # {}
  PROVE  Max(S) \in S /\ \A y \in S : Max(S) >= y
<1> DEFINE T == {k \in Nat : n - k \in S}
<1>1. \A y \in S : n - y \in Nat /\ n - (n - y) = y
  OBVIOUS
<1>2. \A y \in S : n - y \in T
  BY <1>1
<1>3. T \in SUBSET Nat /\ T # {}
  BY <1>2
<1>4. PICK m \in T : \A k \in T : m <= k
  BY <1>3, LeastNumber
<1>5. n - m \in S /\ \A y \in S : n - m >= y
  BY <1>1, <1>2, <1>4
<1>6. \E c \in S : \A y \in S : c >= y
  BY <1>5
<1>7. QED  BY <1>6, Zenon DEF Max

\* The range of user keys of some files.
LEMMA RangeOfFiles ==
  ASSUME NEW F, Proper(F), F # {}
  PROVE  /\ LowKey(F) \in Bounds /\ HighKey(F) \in Bounds
         /\ \A f \in F : LowKey(F) <= f.smallest.k /\ f.largest.k <= HighKey(F)
<1>1. \A f \in F : f.smallest.k \in Keys /\ f.largest.k \in Keys
  <2> SUFFICES ASSUME NEW f \in F PROVE f.smallest.k \in Keys /\ f.largest.k \in Keys
    OBVIOUS
  <2>1. f.smallest \in Update /\ f.largest \in Update
    BY ProperFile, FileIs
  <2>2. QED  BY <2>1 DEF Update
<1> DEFINE A == {f.smallest.k : f \in F}
           B == {f.largest.k : f \in F}
<1>2. A \in SUBSET Nat /\ A # {} /\ A \in SUBSET Keys
  BY <1>1, NumKeysAssumption DEF Keys
<1>3. Greatest \in Nat /\ B \in SUBSET (0..Greatest) /\ B # {} /\ B \in SUBSET Keys
  BY <1>1, NumKeysAssumption DEF Keys, Greatest
<1>4. Min(A) \in A /\ \A y \in A : Min(A) <= y
  BY <1>2, MinOf
<1>5. Max(B) \in B /\ \A y \in B : Max(B) >= y
  BY <1>3, MaxOf
<1>6. \A x \in Keys : x \in Bounds /\ x \in Int
  BY NumKeysAssumption DEF Keys, Bounds, Least, Greatest
<1>7. LowKey(F) = Min(A) /\ HighKey(F) = Max(B)
  BY DEF LowKey, HighKey
<1>8. LowKey(F) \in Bounds /\ HighKey(F) \in Bounds
  BY <1>2, <1>3, <1>4, <1>5, <1>6, <1>7
<1>9. ASSUME NEW f \in F PROVE LowKey(F) <= f.smallest.k /\ f.largest.k <= HighKey(F)
  <2>1. f.smallest.k \in A /\ f.largest.k \in B
    OBVIOUS
  <2> HIDE DEF A, B
  <2>2. Max(B) \in Int /\ f.largest.k \in Int
    BY <1>3, <1>5, <1>6, <2>1
  <2>3. QED  BY <1>4, <1>5, <1>7, <2>1, <2>2
<1>10. QED  BY <1>8, <1>9

(***************************************************************************)
(* GetOverlappingInputs: files of the level, and all that overlap.         *)
(***************************************************************************)
Found(files, p) == {f \in files : Overlaps(f, p[1], p[2])}
Wider(files, p) ==
  <<Min({p[1]} \cup {f.smallest.k : f \in Found(files, p)}),
    Max({p[2]} \cup {f.largest.k : f \in Found(files, p)})>>

LEMMA RangeGrows ==
  ASSUME NEW files, Proper(files), NEW p \in Bounds \X Bounds
  PROVE  /\ Wider(files, p) \in Bounds \X Bounds
         /\ Wider(files, p)[1] <= p[1] /\ p[2] <= Wider(files, p)[2]
<1>1. \A f \in files : f.smallest.k \in Bounds /\ f.largest.k \in Bounds
  <2> SUFFICES ASSUME NEW f \in files PROVE f.smallest.k \in Bounds /\ f.largest.k \in Bounds
    OBVIOUS
  <2>1. f.smallest \in Update /\ f.largest \in Update
    BY ProperFile, FileIs
  <2>2. QED  BY <2>1, NumKeysAssumption DEF Update, Keys, Bounds, Least, Greatest
<1> DEFINE A == {p[1]} \cup {f.smallest.k : f \in Found(files, p)}
           B == {p[2]} \cup {f.largest.k : f \in Found(files, p)}
<1>2. A \in SUBSET Bounds /\ B \in SUBSET Bounds /\ p[1] \in A /\ p[2] \in B
  BY <1>1 DEF Found
<1>3. Wider(files, p) = <<Min(A), Max(B)>>
  BY DEF Wider
<1> HIDE DEF A, B
<1>4. Greatest \in Nat /\ Bounds = 0..Greatest
  BY NumKeysAssumption DEF Bounds, Least, Greatest
<1>5. Min(A) \in A /\ \A y \in A : Min(A) <= y
  <2>1. A \in SUBSET Nat /\ A # {}
    BY <1>2, <1>4
  <2>2. QED  BY <2>1, MinOf
<1>6. Max(B) \in B /\ \A y \in B : Max(B) >= y
  <2>1. B \in SUBSET (0..Greatest) /\ B # {}
    BY <1>2, <1>4
  <2>2. QED  BY <1>4, <2>1, MaxOf
<1>7. Min(A) \in Bounds /\ Max(B) \in Bounds /\ Min(A) <= p[1] /\ p[2] <= Max(B)
  BY <1>2, <1>4, <1>5, <1>6
<1>8. QED  BY <1>3, <1>7

LEMMA OverlappingInputs ==
  ASSUME NEW files, Proper(files), NEW level, NEW lo, NEW hi,
         level = 0 => lo \in Bounds /\ hi \in Bounds
  PROVE  /\ GetOverlappingInputs(files, level, lo, hi) \in SUBSET files
         /\ \A f \in files : Overlaps(f, lo, hi) => f \in GetOverlappingInputs(files, level, lo, hi)
<1> DEFINE D == Bounds \X Bounds
           Grow(g) == g = [r \in D |-> IF Wider(files, r) = r THEN Found(files, r)
                                       ELSE g[Wider(files, r)]]
           grow == CHOOSE g : Grow(g)
<1>1. GetOverlappingInputs(files, level, lo, hi) =
        IF level = 0 THEN grow[<<lo, hi>>] ELSE Found(files, <<lo, hi>>)
  BY Zenon DEF GetOverlappingInputs, Found, Wider
<1>2. /\ Found(files, <<lo, hi>>) \in SUBSET files
      /\ \A f \in files : Overlaps(f, lo, hi) => f \in Found(files, <<lo, hi>>)
  BY DEF Found
<1>3. ASSUME <<lo, hi>> \in D
      PROVE  \E q \in D : /\ grow[<<lo, hi>>] = Found(files, q)
                          /\ q[1] <= lo /\ hi <= q[2]
  <2> DEFINE stop == {p \in D : Wider(files, p) = p}
             value == [p \in D |-> Found(files, p)]
             next == [p \in D |-> Wider(files, p)]
             m == [p \in D |-> p[1] + (Greatest - p[2])]
             R == {r \in D \X D : r[2][1] <= r[1][1] /\ r[1][2] <= r[2][2]}
  <2>1. \A p \in D : /\ p = <<p[1], p[2]>> /\ p[1] \in Nat /\ p[2] \in Nat
                     /\ p[1] + (Greatest - p[2]) \in Nat
    BY NumKeysAssumption DEF Bounds, Least, Greatest
  <2>2. m \in [D -> Nat] /\ \A p \in D : m[p] = p[1] + (Greatest - p[2])
    BY <2>1
  <2>3. \A p \in D \ stop : next[p] \in D /\ m[next[p]] < m[p]
    <3> SUFFICES ASSUME NEW p \in D, p \notin stop PROVE next[p] \in D /\ m[next[p]] < m[p]
      OBVIOUS
    <3> DEFINE w == Wider(files, p)
    <3>1. next[p] = w /\ w # p
      OBVIOUS
    <3>2. w \in D /\ w[1] <= p[1] /\ p[2] <= w[2]
      BY RangeGrows
    <3> HIDE DEF w, next
    <3>3. w[1] # p[1] \/ w[2] # p[2]
      BY <2>1, <3>1, <3>2
    <3>4. /\ w[1] \in Nat /\ w[2] \in Nat /\ p[1] \in Nat /\ p[2] \in Nat
          /\ m[w] = w[1] + (Greatest - w[2]) /\ m[p] = p[1] + (Greatest - p[2]) /\ Greatest \in Nat
      BY <2>1, <2>2, <3>2, NumKeysAssumption DEF Greatest
    <3>5. w[1] + (Greatest - w[2]) < p[1] + (Greatest - p[2])
      BY <3>2, <3>3, <3>4
    <3>6. QED  BY <3>1, <3>2, <3>4, <3>5
  <2>4. \A p \in stop : <<p, p>> \in R
    BY <2>1
  <2>5. \A p \in D \ stop : \A q \in stop : <<next[p], q>> \in R => <<p, q>> \in R
    <3> SUFFICES ASSUME NEW p \in D, p \notin stop, NEW q \in D, <<next[p], q>> \in R
                 PROVE  <<p, q>> \in R
      OBVIOUS
    <3> DEFINE w == Wider(files, p)
    <3>1. w \in D /\ w[1] <= p[1] /\ p[2] <= w[2]
      BY RangeGrows
    <3>2. q[1] <= w[1] /\ w[2] <= q[2]
      OBVIOUS
    <3> HIDE DEF w
    <3>3. q[1] <= p[1] /\ p[2] <= q[2]
      BY <2>1, <3>1, <3>2
    <3>4. QED  BY <3>3
  <2>6. \A g : Grow(g) <=> Loop(g, D, stop, value, next)
    <3>1. \A r \in D : /\ r \in stop <=> Wider(files, r) = r
                       /\ value[r] = Found(files, r) /\ next[r] = Wider(files, r)
      OBVIOUS
    <3> HIDE DEF stop, value, next, D
    <3>2. QED  BY <3>1 DEF Loop
  <2>7. stop \in SUBSET D
    OBVIOUS
  <2>8. \A q \in stop : q \in D /\ value[q] = Found(files, q)
    OBVIOUS
  <2>9. \A q \in D : <<<<lo, hi>>, q>> \in R => q[1] <= lo /\ hi <= q[2]
    OBVIOUS
  <2> HIDE DEF stop, value, next, m, D, R
  <2>15. Descends(D, stop, next, m) /\ LeadsTo(D, stop, next, R)
    BY <2>2, <2>3, <2>4, <2>5, <2>7 DEF Descends, LeadsTo
  <2>10. \E g : Loop(g, D, stop, value, next)
    BY <2>15, LoopIsDefined
  <2> HIDE DEF Grow
  <2>11. Loop(grow, D, stop, value, next)
    <3>1. \E g : Grow(g)
      BY <2>6, <2>10
    <3>2. Grow(grow)
      BY <3>1
    <3>3. QED  BY <2>6, <3>2
  <2> HIDE DEF grow
  <2>12. \A p \in D : \E q \in stop : grow[p] = value[q] /\ <<p, q>> \in R
    BY <2>11, <2>15, LoopStops
  <2>13. \E q \in stop : grow[<<lo, hi>>] = value[q] /\ <<<<lo, hi>>, q>> \in R
    BY <1>3, <2>12
  <2>14. QED  BY <2>8, <2>9, <2>13
<1> HIDE DEF grow
<1>4. CASE level = 0
  <2>1. lo \in Bounds /\ hi \in Bounds /\ <<lo, hi>> \in D
    BY <1>4
  <2>2. PICK q \in D : grow[<<lo, hi>>] = Found(files, q) /\ q[1] <= lo /\ hi <= q[2]
    BY <1>3, <2>1
  <2>3. GetOverlappingInputs(files, level, lo, hi) = Found(files, q)
    BY <1>1, <1>4, <2>2
  <2>4. ASSUME NEW f \in files, Overlaps(f, lo, hi) PROVE f \in Found(files, q)
    <3>1. f.smallest \in Update /\ f.largest \in Update
      BY ProperFile, FileIs
    <3>2. f.smallest.k \in Int /\ f.largest.k \in Int
      BY <3>1, NumKeysAssumption DEF Update, Keys
    <3>3. q[1] \in Int /\ q[2] \in Int /\ lo \in Int /\ hi \in Int
      BY <2>1, NumKeysAssumption DEF Bounds, Least, Greatest
    <3>4. QED  BY <2>2, <2>4, <3>2, <3>3 DEF Overlaps, Found
  <2>5. Found(files, q) \in SUBSET files
    BY DEF Found
  <2>6. QED  BY <2>3, <2>4, <2>5
<1>5. CASE level # 0
  BY <1>1, <1>2, <1>5
<1>6. QED  BY <1>4, <1>5

(***************************************************************************)
(* AddBoundaryInputs: the inputs, and more files of the level.             *)
(***************************************************************************)
LastOf(in) == CHOOSE e \in {f.largest : f \in in} : \A g \in in : ~Before(e, g.largest)
Boundary(files, in) ==
  {f \in files : Before(LastOf(in), f.smallest) /\ f.smallest.k = LastOf(in).k}
FirstFile(S) == CHOOSE f \in S : \A g \in S : ~Before(g.smallest, f.smallest)

LEMMA FirstFileExists ==
  ASSUME NEW S, IsFiniteSet(S), S # {}, Proper(S)
  PROVE  FirstFile(S) \in S
<1> DEFINE R == {p \in S \X S : Before(p[1].smallest, p[2].smallest)}
<1>1. \A x, y \in S : <<x, y>> \in R <=> Before(x.smallest, y.smallest)
  OBVIOUS
<1>2. \A f \in S : f.smallest.k \in Int /\ f.smallest.s \in Int
  <2> SUFFICES ASSUME NEW f \in S PROVE f.smallest.k \in Int /\ f.smallest.s \in Int
    OBVIOUS
  <2>1. f.smallest \in Update
    BY ProperFile, FileIs
  <2>2. QED  BY <2>1, NumKeysAssumption DEF Update, Keys
<1>3. Orders(R, S)
  <2> HIDE DEF R
  <2>1. \A x \in S : ~Before(x.smallest, x.smallest)
    BY <1>2 DEF Before
  <2>2. \A x, y \in S : x = y \/ Before(x.smallest, y.smallest) \/ Before(y.smallest, x.smallest)
    BY <1>2, SmallestDiffer DEF Before
  <2>3. \A x, y, z \in S : /\ Before(x.smallest, y.smallest) /\ Before(y.smallest, z.smallest)
                           => Before(x.smallest, z.smallest)
    BY <1>2 DEF Before
  <2>4. QED  BY <1>1, <2>1, <2>2, <2>3 DEF Orders
<1>4. PICK m \in S : \A y \in S : m = y \/ <<m, y>> \in R
  <2> HIDE DEF R
  <2>1. QED  BY <1>3, FirstOf
<1> HIDE DEF R
<1>5. \A y \in S : ~Before(y.smallest, m.smallest)
  <2>1. \A y \in S : m = y \/ Before(m.smallest, y.smallest)
    BY <1>1, <1>4
  <2>2. QED  BY <1>2, <2>1 DEF Before
<1>6. QED  BY <1>5, Zenon DEF FirstFile

\* The greatest key of some files is that of one of them.
LEMMA LastOfExists ==
  ASSUME NEW S, IsFiniteSet(S), S # {}, Proper(S)
  PROVE  \E f \in S : LastOf(S) = f.largest /\ \A g \in S : ~Before(LastOf(S), g.largest)
<1> DEFINE R == {p \in S \X S : Before(p[2].largest, p[1].largest)}
<1>1. \A x, y \in S : <<x, y>> \in R <=> Before(y.largest, x.largest)
  OBVIOUS
<1>2. \A f \in S : f.largest.k \in Int /\ f.largest.s \in Int /\ f.largest \in f.ents
  <2> SUFFICES ASSUME NEW f \in S
               PROVE  f.largest.k \in Int /\ f.largest.s \in Int /\ f.largest \in f.ents
    OBVIOUS
  <2>1. f.largest \in Update /\ f.largest \in f.ents
    BY ProperFile, FileIs
  <2>2. QED  BY <2>1, NumKeysAssumption DEF Update, Keys
<1>3. Orders(R, S)
  <2> HIDE DEF R
  <2>1. \A x \in S : ~Before(x.largest, x.largest)
    BY <1>2 DEF Before
  <2>2. \A x, y \in S : x = y \/ Before(x.largest, y.largest) \/ Before(y.largest, x.largest)
    <3>1. \A x, y \in S : x.largest.s = y.largest.s => x = y
      BY <1>2 DEF Proper
    <3>2. QED  BY <1>2, <3>1 DEF Before
  <2>3. \A x, y, z \in S : /\ Before(y.largest, x.largest) /\ Before(z.largest, y.largest)
                           => Before(z.largest, x.largest)
    BY <1>2 DEF Before
  <2>4. QED  BY <1>1, <2>1, <2>2, <2>3 DEF Orders
<1>4. PICK m \in S : \A y \in S : m = y \/ <<m, y>> \in R
  <2> HIDE DEF R
  <2>1. QED  BY <1>3, FirstOf
<1> HIDE DEF R
<1>5. \A y \in S : ~Before(m.largest, y.largest)
  <2>1. \A y \in S : m = y \/ Before(y.largest, m.largest)
    BY <1>1, <1>4
  <2>2. QED  BY <1>2, <2>1 DEF Before
<1>6. \E e \in {f.largest : f \in S} : \A g \in S : ~Before(e, g.largest)
  BY <1>5
<1>7. LastOf(S) \in {f.largest : f \in S} /\ \A g \in S : ~Before(LastOf(S), g.largest)
  BY <1>6, Zenon DEF LastOf
<1>8. QED  BY <1>7

LEMMA BoundaryIsNew ==
  ASSUME NEW files, IsFiniteSet(files), Proper(files), NEW in \in SUBSET files, Boundary(files, in) # {}
  PROVE  FirstFile(Boundary(files, in)) \in files \ in
<1>1. Boundary(files, in) \in SUBSET files
  BY DEF Boundary
<1>2. FirstFile(Boundary(files, in)) \in Boundary(files, in)
  BY <1>1, FS_Subset, ProperPart, FirstFileExists
<1>3. ASSUME NEW f \in Boundary(files, in), f \in in PROVE FALSE
  <2>1. \A g \in in : ~Before(LastOf(in), g.largest)
    <3>1. IsFiniteSet(in) /\ in # {} /\ Proper(in)
      BY <1>3, FS_Subset, ProperPart
    <3>2. QED  BY <3>1, LastOfExists
  <2>2. PICK g \in in : LastOf(in) = g.largest
    <3>1. IsFiniteSet(in) /\ in # {} /\ Proper(in)
      BY <1>3, FS_Subset, ProperPart
    <3>2. QED  BY <3>1, LastOfExists
  <2>3. /\ f.smallest \in f.ents /\ f.smallest \in Update
        /\ \A e \in f.ents : ~Before(f.largest, e)
        /\ f.largest \in Update /\ g.largest \in Update
    BY <1>3, ProperFile, FileIs
  <2>4. ~Before(g.largest, f.largest) /\ ~Before(f.largest, f.smallest) /\ Before(g.largest, f.smallest)
    BY <1>3, <2>1, <2>2, <2>3 DEF Boundary
  <2>5. \A x \in {f.smallest, f.largest, g.largest} : x.k \in Int /\ x.s \in Int
    BY <2>3, NumKeysAssumption DEF Update, Keys
  <2>6. Before(f.largest, f.smallest) \/ (f.largest.s = f.smallest.s /\ f.largest.k = f.smallest.k)
    <3> USE <2>5
    <3>1. QED  BY <2>4 DEF Before
  <2>7. QED  BY <2>4, <2>5, <2>6 DEF Before
<1>4. QED  BY <1>1, <1>2, <1>3

LEMMA BoundaryInputs ==
  ASSUME NEW files, IsFiniteSet(files), Proper(files), NEW inputs \in SUBSET files
  PROVE  /\ AddBoundaryInputs(files, inputs) \in SUBSET files
         /\ inputs \in SUBSET AddBoundaryInputs(files, inputs)
<1> DEFINE D == SUBSET files
           More(in) == in \cup {FirstFile(Boundary(files, in))}
           Adds(g) == g = [in \in D |-> IF Boundary(files, in) = {} THEN in ELSE g[More(in)]]
           add == CHOOSE g : Adds(g)
<1>1. AddBoundaryInputs(files, inputs) = IF inputs = {} THEN {} ELSE add[inputs]
  BY Zenon DEF AddBoundaryInputs, LastOf, Boundary, FirstFile
<1>2. \E q \in D : add[inputs] = q /\ inputs \in SUBSET q
  <2> DEFINE stop == {in \in D : Boundary(files, in) = {}}
             value == [in \in D |-> in]
             next == [in \in D |-> More(in)]
             m == [in \in D |-> Cardinality(files \ in)]
             R == {r \in D \X D : r[1] \in SUBSET r[2]}
  <2>1. \A in \in D : IsFiniteSet(files \ in) /\ Cardinality(files \ in) \in Nat
    <3> SUFFICES ASSUME NEW in \in D PROVE IsFiniteSet(files \ in) /\ Cardinality(files \ in) \in Nat
      OBVIOUS
    <3>1. files \ in \in SUBSET files
      OBVIOUS
    <3>2. QED  BY <3>1, FS_Subset, FS_CardinalityType
  <2>2. m \in [D -> Nat] /\ \A in \in D : m[in] = Cardinality(files \ in)
    BY <2>1
  <2>3. \A in \in D \ stop : next[in] \in D /\ m[next[in]] < m[in] /\ in \in SUBSET next[in]
    <3> SUFFICES ASSUME NEW in \in D, in \notin stop
                 PROVE  next[in] \in D /\ m[next[in]] < m[in] /\ in \in SUBSET next[in]
      OBVIOUS
    <3> DEFINE x == FirstFile(Boundary(files, in))
    <3>1. x \in files \ in /\ next[in] = in \cup {x}
      BY BoundaryIsNew
    <3> HIDE DEF x, next, stop
    <3>2. in \cup {x} \in D /\ files \ (in \cup {x}) = (files \ in) \ {x}
      BY <3>1
    <3>3. Cardinality((files \ in) \ {x}) = Cardinality(files \ in) - 1
      BY <2>1, <3>1, FS_RemoveElement
    <3>4. Cardinality((files \ in) \ {x}) < Cardinality(files \ in)
      BY <2>1, <3>3
    <3>5. m[in \cup {x}] = Cardinality((files \ in) \ {x}) /\ m[in] = Cardinality(files \ in)
      BY <2>2, <3>2
    <3>6. QED  BY <3>1, <3>2, <3>4, <3>5
  <2>4. \A in \in stop : <<in, in>> \in R
    OBVIOUS
  <2>5. \A p \in D \ stop : \A q \in stop : <<next[p], q>> \in R => <<p, q>> \in R
    <3> SUFFICES ASSUME NEW p \in D \ stop, NEW q \in stop, <<next[p], q>> \in R
                 PROVE  <<p, q>> \in R
      OBVIOUS
    <3>1. next[p] \in SUBSET q /\ p \in SUBSET next[p]
      BY <2>3
    <3>2. p \in SUBSET q
      BY <3>1
    <3>3. QED  BY <3>2
  <2>6. \A g : Adds(g) <=> Loop(g, D, stop, value, next)
    <3>1. \A in \in D : /\ in \in stop <=> Boundary(files, in) = {}
                        /\ value[in] = in /\ next[in] = More(in)
      OBVIOUS
    <3> HIDE DEF stop, value, next, D, More
    <3>2. QED  BY <3>1 DEF Loop
  <2>7. stop \in SUBSET D
    OBVIOUS
  <2>8. \A q \in stop : q \in D /\ value[q] = q
    OBVIOUS
  <2>9. \A q \in D : <<inputs, q>> \in R => inputs \in SUBSET q
    OBVIOUS
  <2>10. inputs \in D
    OBVIOUS
  <2> HIDE DEF stop, value, next, m, D, R
  <2>11. Descends(D, stop, next, m) /\ LeadsTo(D, stop, next, R)
    BY <2>2, <2>3, <2>4, <2>5, <2>7 DEF Descends, LeadsTo
  <2>12. \E g : Loop(g, D, stop, value, next)
    BY <2>11, LoopIsDefined
  <2> HIDE DEF Adds
  <2>13. Loop(add, D, stop, value, next)
    <3>1. \E g : Adds(g)
      BY <2>6, <2>12
    <3>2. Adds(add)
      BY <3>1
    <3>3. QED  BY <2>6, <3>2
  <2> HIDE DEF add
  <2>14. \A p \in D : \E q \in stop : add[p] = value[q] /\ <<p, q>> \in R
    BY <2>11, <2>13, LoopStops
  <2>15. \E q \in stop : add[inputs] = value[q] /\ <<inputs, q>> \in R
    BY <2>10, <2>14
  <2>16. QED  BY <2>8, <2>9, <2>15
<1> HIDE DEF add
<1>3. QED  BY <1>1, <1>2

(***************************************************************************)
(* FirstFiles, SetupOtherInputs and PickLevelForMemTableOutput.            *)
(***************************************************************************)
LEMMA SomeFirstFiles ==
  ASSUME NEW files, IsFiniteSet(files), Proper(files), files # {}
  PROVE  FirstFiles(files) \in SUBSET files /\ FirstFiles(files) # {}
<1> DEFINE order == InOrder(files)
           upTo(i) == {order[j] : j \in 1..i}
           full == {i \in DOMAIN order : TotalFileSize(upTo(i)) >= options.max_file_size}
<1>1. FirstFiles(files) = IF full = {} THEN files ELSE upTo(Min(full))
  BY Zenon DEF FirstFiles
<1>2. order \in Seq(files) /\ Len(order) \in Nat
  BY LevelInOrder
<1> HIDE DEF order
<1>3. ASSUME full # {} PROVE upTo(Min(full)) \in SUBSET files /\ upTo(Min(full)) # {}
  <2>1. full \in SUBSET Nat /\ full \in SUBSET (1..Len(order))
    BY <1>2
  <2> HIDE DEF full
  <2>2. Min(full) \in 1..Len(order)
    BY <1>3, <2>1, MinOf
  <2>3. 1 \in 1..Min(full) /\ \A j \in 1..Min(full) : order[j] \in files
    BY <1>2, <2>2
  <2>4. QED  BY <2>3
<1> HIDE DEF full, upTo
<1>4. QED  BY <1>1, <1>3

LEMMA OtherInputs ==
  ASSUME NEW level \in 0..(NumLevels - 2), NEW chosen \in SUBSET FilesOf(level), chosen # {},
         IsFiniteSet(FilesOf(level)), Proper(FilesOf(level) \cup FilesOf(level + 1))
  PROVE  LET c == SetupOtherInputs(level, chosen)
         IN  /\ c.level = level
             /\ c.in0 \in SUBSET FilesOf(level)
             /\ c.in1 \in SUBSET FilesOf(level + 1)
<1> DEFINE overlapping(l, lo, hi) == GetOverlappingInputs(FilesOf(l), l, lo, hi)
           below(in) == overlapping(level + 1, LowKey(in), HighKey(in))
           in0 == AddBoundaryInputs(FilesOf(level), chosen)
           in1 == below(in0)
           all == in0 \cup in1
           range == overlapping(level, LowKey(all), HighKey(all))
           more0 == AddBoundaryInputs(FilesOf(level), range)
           more1 == below(more0)
<1>1. Proper(FilesOf(level)) /\ Proper(FilesOf(level + 1)) /\ level + 1 # 0
  BY ProperPart, LevelsAssumption
<1>2. in0 \in SUBSET FilesOf(level) /\ in0 # {}
  BY <1>1, BoundaryInputs
<1>3. \A in : below(in) \in SUBSET FilesOf(level + 1)
  BY <1>1, OverlappingInputs
<1>4. LowKey(all) \in Bounds /\ HighKey(all) \in Bounds
  <2>1. all \in SUBSET (FilesOf(level) \cup FilesOf(level + 1)) /\ all # {}
    <3>1. in1 \in SUBSET FilesOf(level + 1)
      BY <1>3
    <3> HIDE DEF in0, in1
    <3>2. QED  BY <1>2, <3>1
  <2> HIDE DEF all
  <2>2. Proper(all)
    BY <2>1, ProperPart
  <2>3. QED  BY <2>1, <2>2, RangeOfFiles
<1>5. range \in SUBSET FilesOf(level)
  <2> HIDE DEF all
  <2>1. QED  BY <1>1, <1>4, OverlappingInputs
<1>6. more0 \in SUBSET FilesOf(level)
  <2> HIDE DEF range
  <2>1. QED  BY <1>1, <1>5, BoundaryInputs
<1>7. \E b \in BOOLEAN : /\ SetupOtherInputs(level, chosen).level = level
                         /\ SetupOtherInputs(level, chosen).in0 = (IF b THEN more0 ELSE in0)
                         /\ SetupOtherInputs(level, chosen).in1 = (IF b THEN more1 ELSE in1)
  <2> DEFINE grows == /\ in1 # {}
                      /\ Cardinality(more0) > Cardinality(in0)
                      /\ TotalFileSize(in1) + TotalFileSize(more0) < ExpandLimit
                      /\ Cardinality(more1) = Cardinality(in1)
             all2 == IF grows THEN more0 \cup more1 ELSE all
             gps == IF level + 2 < NumLevels
                    THEN overlapping(level + 2, LowKey(all2), HighKey(all2)) ELSE {}
  <2>1. SetupOtherInputs(level, chosen) =
          [level |-> level, in0 |-> IF grows THEN more0 ELSE in0,
           in1 |-> IF grows THEN more1 ELSE in1, gps |-> gps]
    BY Zenon DEF SetupOtherInputs
  <2>2. grows \in BOOLEAN
    OBVIOUS
  <2> HIDE DEF grows, gps, more0, in0, more1, in1
  <2>3. QED  BY <2>1, <2>2
<1>8. in1 \in SUBSET FilesOf(level + 1) /\ more1 \in SUBSET FilesOf(level + 1)
  BY <1>3
<1> HIDE DEF more0, in0, more1, in1
<1>9. QED  BY <1>2, <1>6, <1>7, <1>8

LEMMA LevelForMemTable ==
  ASSUME NEW f
  PROVE  PickLevelForMemTableOutput(f) \in Levels
<1> DEFINE lo == f.smallest.k
           hi == f.largest.k
           overlaps(l) == SomeFileOverlapsRange(FilesOf(l), lo, hi)
           crowded(l) == l < NumLevels /\
             TotalFileSize(GetOverlappingInputs(FilesOf(l), l, lo, hi)) > options.grandparent_limit
           D == 0..MaxMemLevel
           goes(l) == l < MaxMemLevel /\ ~overlaps(l + 1) /\ ~crowded(l + 2)
           Pushes(g) == g = [l \in D |-> IF goes(l) THEN g[l + 1] ELSE l]
           push == CHOOSE g : Pushes(g)
<1>1. PickLevelForMemTableOutput(f) = IF overlaps(0) THEN 0 ELSE push[0]
  BY Zenon DEF PickLevelForMemTableOutput
<1> HIDE DEF overlaps, crowded
<1>2. push[0] \in D
  <2> DEFINE stop == {l \in D : ~goes(l)}
             value == [l \in D |-> l]
             next == [l \in D |-> l + 1]
             m == [l \in D |-> MaxMemLevel - l]
             R == D \X D
  <2>1. Descends(D, stop, next, m)
    <3>1. m \in [D -> Nat] /\ stop \in SUBSET D
      BY LevelsAssumption
    <3>2. \A l \in D \ stop : next[l] \in D /\ m[next[l]] < m[l]
      <4> SUFFICES ASSUME NEW l \in D, l \notin stop PROVE next[l] \in D /\ m[next[l]] < m[l]
        OBVIOUS
      <4>1. l < MaxMemLevel /\ next[l] = l + 1
        OBVIOUS
      <4>2. l + 1 \in D /\ MaxMemLevel - (l + 1) < MaxMemLevel - l
        BY <4>1, LevelsAssumption
      <4>3. QED  BY <4>1, <4>2
    <3> HIDE DEF D, stop, next, m
    <3>3. QED  BY <3>1, <3>2 DEF Descends
  <2>2. LeadsTo(D, stop, next, R)
    BY DEF LeadsTo
  <2>3. \A g : Pushes(g) <=> Loop(g, D, stop, value, next)
    <3>1. \A l \in D : /\ l \in stop <=> ~goes(l)
                       /\ value[l] = l /\ next[l] = l + 1
      OBVIOUS
    <3> HIDE DEF stop, value, next, D, goes
    <3>2. QED  BY <3>1 DEF Loop
  <2>4. 0 \in D /\ \A q \in stop : q \in D /\ value[q] = q
    BY LevelsAssumption
  <2> HIDE DEF stop, value, next, m, D, R, Pushes
  <2>5. \E g : Loop(g, D, stop, value, next)
    BY <2>1, LoopIsDefined
  <2>6. Pushes(push)
    BY <2>3, <2>5
  <2> HIDE DEF push
  <2>7. \A p \in D : \E q \in stop : push[p] = value[q] /\ <<p, q>> \in R
    BY <2>1, <2>2, <2>3, <2>6, LoopStops
  <2>8. QED  BY <2>4, <2>7
<1> HIDE DEF push
<1>3. QED  BY <1>1, <1>2, LevelsAssumption DEF Levels

(***************************************************************************)
(* Outputs: the loop of DoCompactionWork, one entry after the other.       *)
(***************************************************************************)
Uncut == [done |-> {}, open |-> {}, over |-> 0]
Cut(r, input, acc, i) ==
  LET passed(j) == {f \in r.c.gps : Before(f.largest, input[j])}
      over == acc.over + (IF i = 1 THEN 0 ELSE TotalFileSize(passed(i) \ passed(i - 1)))
      stop == over > options.grandparent_limit
      done == IF stop /\ acc.open # {} THEN acc.done \cup {acc.open} ELSE acc.done
      kept == IF Dropped(r, input[i]) THEN {} ELSE {input[i]}
      open == (IF stop THEN {} ELSE acc.open) \cup kept
      full == kept # {} /\ Cardinality(open) >= options.max_file_size
  IN  [done |-> IF full THEN done \cup {open} ELSE done,
       open |-> IF full THEN {} ELSE open,
       over |-> IF stop THEN 0 ELSE over]
CutInOrder(r, input) == FoldLeftDomain(LAMBDA acc, i : Cut(r, input, acc, i), Uncut, input)

LEMMA OutputsAreCut ==
  ASSUME NEW r
  PROVE  LET all == CutInOrder(r, OrderBy(Input(r), Before))
         IN  Outputs(r) = {File(0, S) : S \in (all.done \cup {all.open}) \ {{}}}
BY Zenon DEF Outputs, CutInOrder, Cut, Uncut

LEMMA CutLoop ==
  ASSUME NEW r, NEW S, NEW input \in Seq(S)
  PROVE  \E e : /\ e[0] = Uncut /\ e[Len(input)] = CutInOrder(r, input)
                /\ \A n \in 1..Len(input) : e[n] = Cut(r, input, e[n - 1], n)
<1> DEFINE len == Len(input)
           id == [i \in DOMAIN input |-> i]
           Body(f, s) == IF s = {} THEN Uncut ELSE Cut(r, input, f[s \ {Max(s)}], id[Max(s)])
           fold == CHOOSE f : f = [s \in SUBSET (1..len) |-> Body(f, s)]
           T == {n \in Nat : \E f : f = [s \in SUBSET (1..n) |-> Body(f, s)]}
<1>1. CutInOrder(r, input) = fold[1..len]
  <2>1. DOMAIN id = 1..len
    OBVIOUS
  <2> HIDE DEF id
  <2>2. CutInOrder(r, input) = FoldLeft(LAMBDA acc, i : Cut(r, input, acc, i), Uncut, id)
    BY Zenon DEF CutInOrder, FoldLeftDomain, id
  <2>3. QED  BY <2>1, <2>2, Zenon DEF FoldLeft, MapThenFoldSet
<1>2. len \in Nat /\ \A i \in 1..len : id[i] = i
  OBVIOUS
<1> HIDE DEF len, id
<1>3. 0 \in T
  <2>1. SUBSET (1..0) = {{}}
    OBVIOUS
  <2>2. [s \in SUBSET (1..0) |-> Uncut] = [s \in SUBSET (1..0) |-> Body([x \in SUBSET (1..0) |-> Uncut], s)]
    BY <2>1
  <2>3. QED  BY <2>2
<1>4. ASSUME NEW n \in Nat, n \in T PROVE n + 1 \in T
  <2>1. PICK f : f = [s \in SUBSET (1..n) |-> Body(f, s)]
    BY <1>4
  <2> DEFINE g == [s \in SUBSET (1..(n + 1)) |-> Body(f, s)]
  <2>2. \A s \in SUBSET (1..n) : g[s] = f[s]
    <3>1. \A s \in SUBSET (1..n) : s \in SUBSET (1..(n + 1))
      OBVIOUS
    <3>2. \A s \in SUBSET (1..n) : f[s] = Body(f, s)
      BY <2>1
    <3>3. QED  BY <3>1, <3>2
  <2>3. \A s \in SUBSET (1..(n + 1)) : s # {} => s \ {Max(s)} \in SUBSET (1..n)
    <3> SUFFICES ASSUME NEW s \in SUBSET (1..(n + 1)), s # {}, NEW x \in s, x # Max(s)
                 PROVE  x \in 1..n
      OBVIOUS
    <3>1. n + 1 \in Nat /\ s \in SUBSET (0..(n + 1)) /\ s # {}
      OBVIOUS
    <3>2. Max(s) \in s /\ Max(s) >= x
      BY <3>1, MaxOf
    <3>3. x \in 1..(n + 1) /\ Max(s) \in 1..(n + 1)
      BY <3>2
    <3>4. QED  BY <3>2, <3>3
  <2>4. g = [s \in SUBSET (1..(n + 1)) |-> Body(g, s)]
    <3>1. \A s \in SUBSET (1..(n + 1)) : Body(f, s) = Body(g, s)
      BY <2>2, <2>3
    <3>2. QED  BY <3>1
  <2>5. n + 1 \in Nat
    OBVIOUS
  <2> HIDE DEF g
  <2>6. \E f2 : f2 = [s \in SUBSET (1..(n + 1)) |-> Body(f2, s)]
    BY <2>4
  <2>7. QED  BY <2>5, <2>6
<1>5. fold = [s \in SUBSET (1..len) |-> Body(fold, s)]
  <2>1. len \in T
    <3> HIDE DEF T
    <3>1. QED  BY <1>2, <1>3, <1>4, Upwards
  <2>2. QED  BY <2>1
<1> HIDE DEF fold
<1> DEFINE e == [n \in 0..len |-> fold[1..n]]
<1>6. e[0] = Uncut
  <2>1. 0 \in 0..len /\ 1..0 = {} /\ {} \in SUBSET (1..len)
    BY <1>2
  <2>2. QED  BY <1>5, <2>1
<1>7. ASSUME NEW n \in 1..len PROVE e[n] = Cut(r, input, e[n - 1], n)
  <2>1. 1..n \in SUBSET (1..len) /\ 1..n # {} /\ n - 1 \in 0..len /\ n \in 0..len /\ n \in Nat
    <3>1. n \in Nat /\ n \in 1..n /\ n - 1 \in 0..len /\ n \in 0..len
      BY <1>2
    <3>2. \A x \in 1..n : x \in 1..len
      BY <1>2
    <3>3. QED  BY <3>1, <3>2
  <2>2. Max(1..n) = n
    <3>1. 1..n \in SUBSET (0..n) /\ 1..n # {} /\ n \in Nat /\ n \in 1..n
      BY <2>1
    <3>2. Max(1..n) \in 1..n /\ \A y \in 1..n : Max(1..n) >= y
      BY <3>1, MaxOf
    <3>3. QED  BY <2>1, <3>1, <3>2
  <2>3. (1..n) \ {n} = 1..(n - 1) /\ id[n] = n
    BY <1>2, <2>1
  <2>4. fold[1..n] = Cut(r, input, fold[(1..n) \ {Max(1..n)}], id[Max(1..n)])
    BY <1>5, <2>1
  <2>5. e[n] = fold[1..n] /\ e[n - 1] = fold[1..(n - 1)]
    BY <2>1
  <2> HIDE DEF e
  <2>6. QED  BY <2>2, <2>3, <2>4, <2>5
<1>8. e[len] = CutInOrder(r, input)
  BY <1>1, <1>2
<1>9. QED
  <2> HIDE DEF e
  <2>1. QED  BY <1>6, <1>7, <1>8 DEF len

\* The sets of D, and o apart from them, share nothing and make up X.
Whole(D, o, X) ==
  /\ IsFiniteSet(D) /\ (UNION D) \cup o = X
  /\ \A A, B \in D : A = B \/ A \cap B = {}
  /\ \A A \in D : A \cap o = {}

LEMMA CloseFile ==
  ASSUME NEW D, NEW o, NEW X, Whole(D, o, X)
  PROVE  Whole(D \cup {o}, {}, X)
<1>1. IsFiniteSet(D \cup {o})
  BY FS_AddElement DEF Whole
<1>2. (UNION (D \cup {o})) \cup {} = X
  BY DEF Whole
<1>3. \A A, B \in D \cup {o} : A = B \/ A \cap B = {}
  BY DEF Whole
<1>4. QED  BY <1>1, <1>2, <1>3 DEF Whole

LEMMA AddToFile ==
  ASSUME NEW D, NEW o, NEW X, Whole(D, o, X), NEW K, K \cap X = {}
  PROVE  Whole(D, o \cup K, X \cup K)
<1>1. (UNION D) \cup (o \cup K) = X \cup K
  BY DEF Whole
<1>2. \A A \in D : A \in SUBSET X
  BY DEF Whole
<1>3. \A A \in D : A \cap (o \cup K) = {}
  BY <1>2 DEF Whole
<1>4. QED  BY <1>1, <1>3 DEF Whole

KeptOf(r, e) == IF Dropped(r, e) THEN {} ELSE {e}

LEMMA CutStep ==
  ASSUME NEW r, NEW input, NEW acc, NEW i, NEW X, Whole(acc.done, acc.open, X), input[i] \notin X
  PROVE  LET next == Cut(r, input, acc, i)
         IN  Whole(next.done, next.open, X \cup KeptOf(r, input[i]))
<1> DEFINE K == KeptOf(r, input[i])
<1>1. \E stop, full \in BOOLEAN :
        LET D == IF stop /\ acc.open # {} THEN acc.done \cup {acc.open} ELSE acc.done
            o == (IF stop THEN {} ELSE acc.open) \cup K
        IN  /\ Cut(r, input, acc, i).done = IF full THEN D \cup {o} ELSE D
            /\ Cut(r, input, acc, i).open = IF full THEN {} ELSE o
  <2> DEFINE passed(j) == {f \in r.c.gps : Before(f.largest, input[j])}
             over == acc.over + (IF i = 1 THEN 0 ELSE TotalFileSize(passed(i) \ passed(i - 1)))
             stop == over > options.grandparent_limit
             D == IF stop /\ acc.open # {} THEN acc.done \cup {acc.open} ELSE acc.done
             kept == IF Dropped(r, input[i]) THEN {} ELSE {input[i]}
             o == (IF stop THEN {} ELSE acc.open) \cup kept
             full == kept # {} /\ Cardinality(o) >= options.max_file_size
  <2>1. Cut(r, input, acc, i) = [done |-> IF full THEN D \cup {o} ELSE D,
                                 open |-> IF full THEN {} ELSE o,
                                 over |-> IF stop THEN 0 ELSE over]
    BY Zenon DEF Cut
  <2>2. kept = K /\ stop \in BOOLEAN /\ full \in BOOLEAN
    BY DEF KeptOf
  <2> HIDE DEF over, kept, full, K
  <2>3. /\ Cut(r, input, acc, i).done = (IF full THEN D \cup {o} ELSE D)
        /\ Cut(r, input, acc, i).open = (IF full THEN {} ELSE o)
    <3> HIDE DEF D, o, stop
    <3>1. QED  BY <2>1
  <2>4. QED
    <3> HIDE DEF stop
    <3>1. QED  BY <2>2, <2>3
<1>2. K \cap X = {}
  BY DEF KeptOf
<1> HIDE DEF K
<1>3. PICK stop \in BOOLEAN, full \in BOOLEAN :
        LET D == IF stop /\ acc.open # {} THEN acc.done \cup {acc.open} ELSE acc.done
            o == (IF stop THEN {} ELSE acc.open) \cup K
        IN  /\ Cut(r, input, acc, i).done = IF full THEN D \cup {o} ELSE D
            /\ Cut(r, input, acc, i).open = IF full THEN {} ELSE o
  BY <1>1
<1> DEFINE D == IF stop /\ acc.open # {} THEN acc.done \cup {acc.open} ELSE acc.done
           o == IF stop THEN {} ELSE acc.open
<1>4. Whole(D, o, X)
  <2>1. CASE stop /\ acc.open # {}
    BY <2>1, CloseFile
  <2>2. CASE ~(stop /\ acc.open # {})
    <3>1. D = acc.done /\ o = acc.open
      BY <2>2
    <3> HIDE DEF D, o
    <3>2. QED  BY <3>1
  <2>3. QED  BY <2>1, <2>2
<1>5. Whole(D, o \cup K, X \cup K)
  <2> HIDE DEF D, o
  <2>1. QED  BY <1>2, <1>4, AddToFile
<1>6. /\ Cut(r, input, acc, i).done = IF full THEN D \cup {o \cup K} ELSE D
      /\ Cut(r, input, acc, i).open = IF full THEN {} ELSE o \cup K
  BY <1>3
<1> HIDE DEF D, o
<1>7. Whole(D \cup {o \cup K}, {}, X \cup K)
  BY <1>5, CloseFile
<1>8. QED  BY <1>5, <1>6, <1>7 DEF K

\* The outputs hold what is not dropped, each entry once.
Kept(r) == {e \in Input(r) : ~Dropped(r, e)}

LEMMA OutputsAre ==
  ASSUME NEW r, Input(r) \in SUBSET Update, Distinct(Input(r)), IsFiniteSet(Input(r))
  PROVE  /\ Entries(Outputs(r)) = Kept(r)
         /\ IsFiniteSet(Outputs(r)) /\ Proper(Outputs(r))
<1> DEFINE input == OrderBy(Input(r), Before)
           len == Len(input)
           Done(n) == UNION {KeptOf(r, input[i]) : i \in 1..n}
<1>1. /\ input \in Seq(Input(r)) /\ len \in Nat /\ DOMAIN input = 1..len
      /\ {input[i] : i \in 1..len} = Input(r)
      /\ \A i, j \in 1..len : i < j => input[i] # input[j]
  BY Merged
<1>2. PICK e : /\ e[0] = Uncut /\ e[len] = CutInOrder(r, input)
               /\ \A n \in 1..len : e[n] = Cut(r, input, e[n - 1], n)
  <2> HIDE DEF input
  <2>1. QED  BY <1>1, CutLoop
<1>3. Outputs(r) = {File(0, S) : S \in (e[len].done \cup {e[len].open}) \ {{}}}
  BY <1>2, OutputsAreCut
<1> HIDE DEF input, len
<1> DEFINE T == {n \in Nat : n <= len => Whole(e[n].done, e[n].open, Done(n))}
<1>4. 0 \in T
  <2>1. Done(0) = {} /\ e[0].done = {} /\ e[0].open = {}
    BY <1>2 DEF Uncut
  <2>2. Whole({}, {}, {})
    BY FS_EmptySet DEF Whole
  <2>3. QED  BY <2>1, <2>2
<1>5. ASSUME NEW n \in Nat, n \in T PROVE n + 1 \in T
  <2> SUFFICES ASSUME n + 1 <= len PROVE Whole(e[n + 1].done, e[n + 1].open, Done(n + 1))
    OBVIOUS
  <2>1. /\ n <= len /\ n + 1 \in 1..len /\ (n + 1) - 1 = n
        /\ \A i \in 1..n : i \in 1..len /\ i < n + 1
    BY <1>1
  <2>2. Whole(e[n].done, e[n].open, Done(n))
    BY <1>5, <2>1
  <2>3. input[n + 1] \notin Done(n)
    BY <1>1, <2>1 DEF KeptOf
  <2>4. Done(n + 1) = Done(n) \cup KeptOf(r, input[n + 1])
    <3>1. 1..(n + 1) = (1..n) \cup {n + 1}
      OBVIOUS
    <3>2. QED  BY <3>1
  <2>5. e[n + 1] = Cut(r, input, e[n], n + 1)
    BY <1>2, <2>1
  <2> HIDE DEF Done
  <2>6. Whole(Cut(r, input, e[n], n + 1).done, Cut(r, input, e[n], n + 1).open,
              Done(n) \cup KeptOf(r, input[n + 1]))
    BY <2>2, <2>3, CutStep
  <2>7. QED  BY <2>4, <2>5, <2>6
<1>6. Whole(e[len].done, e[len].open, Done(len))
  <2>1. len \in T
    <3> HIDE DEF T
    <3>1. QED  BY <1>1, <1>4, <1>5, Upwards
  <2>2. QED  BY <1>1, <2>1
<1>7. Done(len) = Kept(r)
  BY <1>1 DEF KeptOf, Kept
<1> DEFINE P == (e[len].done \cup {e[len].open}) \ {{}}
<1>8. /\ IsFiniteSet(P) /\ UNION P = Kept(r)
      /\ \A A, B \in P : A = B \/ A \cap B = {}
      /\ \A A \in P : A # {}
  <2> HIDE DEF Done
  <2>1. Whole(e[len].done \cup {e[len].open}, {}, Kept(r))
    BY <1>6, <1>7, CloseFile
  <2>2. P \in SUBSET (e[len].done \cup {e[len].open})
    OBVIOUS
  <2>3. IsFiniteSet(P)
    BY <2>1, <2>2, FS_Subset DEF Whole
  <2>4. UNION P = UNION (e[len].done \cup {e[len].open})
    OBVIOUS
  <2>5. QED  BY <2>1, <2>2, <2>3, <2>4 DEF Whole
<1> HIDE DEF P, Done
<1>9. Outputs(r) = {File(0, S) : S \in P}
  BY <1>3 DEF P
<1>10. \A S : File(0, S).ents = S /\ File(0, S).num = 0
  BY DEF File
<1>11. Entries(Outputs(r)) = Kept(r)
  BY <1>8, <1>9, <1>10 DEF Entries
<1>12. IsFiniteSet(Outputs(r))
  <2> DEFINE mk == [S \in P |-> File(0, S)]
  <2>1. mk \in Surjection(P, Outputs(r))
    BY <1>9 DEF Surjection
  <2> HIDE DEF mk
  <2>2. QED  BY <1>8, <2>1, FS_Surjection
<1>13. Proper(Outputs(r))
  <2>1. ASSUME NEW f \in Outputs(r) PROVE f = File(0, f.ents) /\ f.num = 0 /\ f.ents \in P
    BY <1>9, <1>10
  <2>2. ASSUME NEW f \in Outputs(r) PROVE FileOk(f)
    <3>1. f.ents \in SUBSET Kept(r) /\ Kept(r) \in SUBSET Input(r) /\ f.ents # {}
      BY <1>8, <2>1 DEF Kept
    <3>2. f.ents \in SUBSET Input(r)
      BY <3>1
    <3>3. IsFiniteSet(f.ents)
      BY <3>2, FS_Subset
    <3>4. QED  BY <2>1, <3>1, <3>2, <3>3 DEF FileOk
  <2>3. ASSUME NEW f \in Outputs(r), NEW g \in Outputs(r), NEW x \in f.ents, NEW y \in g.ents, x.s = y.s
        PROVE  x = y /\ f = g
    <3>1. x \in Kept(r) /\ y \in Kept(r)
      BY <1>8, <2>1
    <3>2. x = y
      BY <2>3, <3>1 DEF Kept, Distinct
    <3>3. f.ents = g.ents
      BY <1>8, <2>1, <3>2
    <3>4. f = g
      BY <2>1, <3>3
    <3>5. QED  BY <3>2, <3>4
  <2>4. QED  BY <2>2, <2>3 DEF Proper
<1>14. QED  BY <1>11, <1>12, <1>13

(***************************************************************************)
(* The drop rules: the newest entry that a snapshot sees is kept, or it is *)
(* a deletion of which nothing older is kept.                              *)
(***************************************************************************)
LEMMA DropRules ==
  ASSUME NEW r, Input(r) \in SUBSET Update, Distinct(Input(r)), r.snapshot \in Nat,
         NEW s \in Nat, r.snapshot <= s, NEW e \in Input(r), e.s <= s,
         \A f \in Input(r) : f.k = e.k /\ f.s <= s => f.s <= e.s,
         e \notin Kept(r)
  PROVE  /\ e.d /\ IsBaseLevelForKey(r, e.k)
         /\ \A f \in Kept(r) : f.k = e.k => f.s > e.s
<1>1. Dropped(r, e)
  BY DEF Kept
<1>2. \A f \in Input(r) : f.s \in Nat
  BY DEF Update
<1>3. ~\E f \in Input(r) : f.k = e.k /\ f.s > e.s /\ f.s <= r.snapshot
  BY <1>2
<1>4. e.d /\ e.s <= r.snapshot /\ IsBaseLevelForKey(r, e.k)
  BY <1>1, <1>3, Zenon DEF Dropped
<1>5. ASSUME NEW f \in Kept(r), f.k = e.k PROVE f.s > e.s
  <2>1. f \in Input(r) /\ ~Dropped(r, f)
    BY DEF Kept
  <2>2. ~(e.s > f.s)
    <3>1. ~(e.k = f.k /\ e.s > f.s /\ e.s <= r.snapshot)
      BY <2>1, Zenon DEF Dropped
    <3>2. QED  BY <1>4, <1>5, <3>1
  <2>3. f.s # e.s
    <3>1. f # e
      BY <2>1
    <3>2. QED  BY <2>1, <3>1 DEF Distinct
  <2>4. QED  BY <1>2, <2>1, <2>2, <2>3
<1>6. QED  BY <1>4, <1>5

(***************************************************************************)
(* SaveTo: the merge of a level with the files that an edit adds.          *)
(***************************************************************************)
Unmerged == [base |-> 1, new |-> 1, files |-> <<>>]
NewFirst(base, new, at) ==
  /\ at.new <= Len(new)
  /\ at.base <= Len(base) => Before(new[at.new].smallest, base[at.base].smallest)
Turn(base, new, R, at) ==
  IF NewFirst(base, new, at)
  THEN [base |-> at.base, new |-> at.new + 1, files |-> Append(at.files, new[at.new])]
  ELSE [base |-> at.base + 1, new |-> at.new,
        files |-> IF base[at.base] \in R THEN at.files ELSE Append(at.files, base[at.base])]

LEMMA MergeLoop ==
  ASSUME NEW l, NEW R, NEW A, Len(levels[l]) + Len(InOrder(A)) \in Nat
  PROVE  \E e : /\ e[0] = Unmerged
                /\ SaveTo(l, R, A) = e[Len(levels[l]) + Len(InOrder(A))].files
                /\ \A n \in 1..(Len(levels[l]) + Len(InOrder(A))) :
                     e[n] = Turn(levels[l], InOrder(A), R, e[n - 1])
<1> DEFINE base == levels[l]
           new == InOrder(A)
           len == Len(levels[l]) + Len(InOrder(A))
           Body(f, n) == IF n = 0 THEN Unmerged ELSE Turn(base, new, R, f[n - 1])
           merge == CHOOSE f : f = [n \in 0..len |-> Body(f, n)]
           T == {m \in Nat : \E f : f = [n \in 0..m |-> Body(f, n)]}
<1>1. SaveTo(l, R, A) = merge[len].files
  BY Zenon DEF SaveTo, Turn, NewFirst, Unmerged
<1>2. len \in Nat
  OBVIOUS
<1> HIDE DEF len, base, new
<1>3. 0 \in T
  <2>1. [n \in 0..0 |-> Unmerged] = [n \in 0..0 |-> Body([x \in 0..0 |-> Unmerged], n)]
    OBVIOUS
  <2>2. QED  BY <2>1
<1>4. ASSUME NEW m \in Nat, m \in T PROVE m + 1 \in T
  <2>1. PICK f : f = [n \in 0..m |-> Body(f, n)]
    BY <1>4
  <2> DEFINE g == [n \in 0..(m + 1) |-> Body(f, n)]
  <2>2. \A n \in 0..m : g[n] = f[n]
    <3>1. \A n \in 0..m : n \in 0..(m + 1)
      OBVIOUS
    <3>2. \A n \in 0..m : f[n] = Body(f, n)
      BY <2>1
    <3>3. QED  BY <3>1, <3>2
  <2>3. g = [n \in 0..(m + 1) |-> Body(g, n)]
    <3>1. \A n \in 0..(m + 1) : n = 0 \/ n - 1 \in 0..m
      OBVIOUS
    <3>2. \A n \in 0..(m + 1) : Body(f, n) = Body(g, n)
      BY <2>2, <3>1
    <3>3. QED  BY <3>2
  <2> HIDE DEF g
  <2>4. QED  BY <2>3
<1>5. merge = [n \in 0..len |-> Body(merge, n)]
  <2>1. len \in T
    <3> HIDE DEF T
    <3>1. QED  BY <1>2, <1>3, <1>4, Upwards
  <2>2. QED  BY <2>1
<1> HIDE DEF merge
<1>6. merge[0] = Unmerged
  BY <1>2, <1>5
<1>7. \A n \in 1..len : merge[n] = Turn(base, new, R, merge[n - 1])
  BY <1>2, <1>5
<1>8. QED  BY <1>1, <1>6, <1>7 DEF len, base, new

InOrderOfKeys(files) ==
  \A i, j \in DOMAIN files : i < j => Before(files[i].smallest, files[j].smallest)

LEMMA AppendInOrder ==
  ASSUME NEW F, NEW files \in Seq(F), InOrderOfKeys(files), NEW f \in F,
         \A i \in DOMAIN files : Before(files[i].smallest, f.smallest)
  PROVE  /\ Append(files, f) \in Seq(F) /\ InOrderOfKeys(Append(files, f))
         /\ ToSet(Append(files, f)) = ToSet(files) \cup {f}
<1> DEFINE q == Append(files, f)
<1>1. /\ q \in Seq(F) /\ Len(files) \in Nat /\ DOMAIN files = 1..Len(files)
      /\ DOMAIN q = 1..(Len(files) + 1) /\ q[Len(files) + 1] = f
      /\ \A i \in DOMAIN files : i \in DOMAIN q /\ q[i] = files[i]
  OBVIOUS
<1> HIDE DEF q
<1>2. \A i \in DOMAIN q : i \in DOMAIN files \/ i = Len(files) + 1
  BY <1>1
<1>3. InOrderOfKeys(q)
  <2>1. ASSUME NEW i \in DOMAIN q, NEW j \in DOMAIN q, i < j PROVE i \in DOMAIN files
    BY <1>1, <2>1
  <2>2. QED  BY <1>1, <1>2, <2>1 DEF InOrderOfKeys
<1>4. Len(files) + 1 \in DOMAIN q
  BY <1>1
<1>5. ToSet(q) = ToSet(files) \cup {f}
  BY <1>1, <1>2, <1>4 DEF ToSet
<1>6. QED  BY <1>1, <1>3, <1>5 DEF q

\* What can be merged: two sequences in order, and the files of base that stay
\* have other smallest keys than the new ones.
Mergeable(B, base, A, new, R) ==
  /\ base \in Seq(B) /\ InOrderOfKeys(base)
  /\ new \in Seq(A) /\ InOrderOfKeys(new)
  /\ \A f \in B \cup A : f.smallest.k \in Int /\ f.smallest.s \in Int
  /\ \A f \in B \ R, g \in A : f.smallest.s # g.smallest.s

\* After n turns.
MergedSoFar(B, base, A, new, R, n, at) ==
  /\ at = [base |-> at.base, new |-> at.new, files |-> at.files]
  /\ at.base \in 1..(Len(base) + 1) /\ at.new \in 1..(Len(new) + 1)
  /\ at.base + at.new = n + 2
  /\ at.files \in Seq((B \ R) \cup A) /\ InOrderOfKeys(at.files)
  /\ ToSet(at.files) = ({base[x] : x \in 1..(at.base - 1)} \ R) \cup {new[y] : y \in 1..(at.new - 1)}
  /\ \A i \in DOMAIN at.files :
       /\ \A x \in at.base..Len(base) : base[x] \in R \/ Before(at.files[i].smallest, base[x].smallest)
       /\ \A y \in at.new..Len(new) : Before(at.files[i].smallest, new[y].smallest)

LEMMA TurnIs ==
  ASSUME NEW base, NEW new, NEW R, NEW i, NEW j, NEW q, NEW at,
         at = [base |-> i, new |-> j, files |-> q]
  PROVE  /\ NewFirst(base, new, at) =>
              Turn(base, new, R, at) = [base |-> i, new |-> j + 1, files |-> Append(q, new[j])]
         /\ ~NewFirst(base, new, at) =>
              Turn(base, new, R, at)
                = [base |-> i + 1, new |-> j,
                   files |-> IF base[i] \in R THEN q ELSE Append(q, base[i])]
BY DEF Turn

LEMMA TurnMerges ==
  ASSUME NEW B, NEW base, NEW A, NEW new, NEW R, Mergeable(B, base, A, new, R),
         NEW n \in 0..(Len(base) + Len(new) - 1), NEW at, MergedSoFar(B, base, A, new, R, n, at)
  PROVE  MergedSoFar(B, base, A, new, R, n + 1, Turn(base, new, R, at))
<1> DEFINE i == at.base
           j == at.new
           to == Turn(base, new, R, at)
<1>1. /\ base \in Seq(B) /\ new \in Seq(A) /\ Len(base) \in Nat /\ Len(new) \in Nat
      /\ DOMAIN base = 1..Len(base) /\ DOMAIN new = 1..Len(new)
      /\ \A x \in 1..Len(base) : base[x] \in B
      /\ \A y \in 1..Len(new) : new[y] \in A
  BY DEF Mergeable
<1>2. /\ at = [base |-> i, new |-> j, files |-> at.files]
      /\ i \in 1..(Len(base) + 1) /\ j \in 1..(Len(new) + 1) /\ i + j = n + 2
      /\ at.files \in Seq((B \ R) \cup A) /\ InOrderOfKeys(at.files)
      /\ ToSet(at.files) = ({base[x] : x \in 1..(i - 1)} \ R) \cup {new[y] : y \in 1..(j - 1)}
      /\ \A m \in DOMAIN at.files :
           /\ \A x \in i..Len(base) : base[x] \in R \/ Before(at.files[m].smallest, base[x].smallest)
           /\ \A y \in j..Len(new) : Before(at.files[m].smallest, new[y].smallest)
  BY DEF MergedSoFar
<1>3. \A f, g, h \in B \cup A : Before(f.smallest, g.smallest) /\ Before(g.smallest, h.smallest)
                                  => Before(f.smallest, h.smallest)
  BY DEF Mergeable, Before
<1>4. \A f \in B \ R, g \in A : Before(f.smallest, g.smallest) \/ Before(g.smallest, f.smallest)
  BY DEF Mergeable, Before
<1>5. \A x, y \in 1..Len(base) : x < y => Before(base[x].smallest, base[y].smallest)
  BY <1>1 DEF Mergeable, InOrderOfKeys
<1>6. \A x, y \in 1..Len(new) : x < y => Before(new[x].smallest, new[y].smallest)
  BY <1>1 DEF Mergeable, InOrderOfKeys
<1>7. /\ Len(base) \in Nat /\ Len(new) \in Nat /\ n \in Int
       /\ i \in 1..(Len(base) + 1) /\ j \in 1..(Len(new) + 1) /\ i + j = n + 2
  BY <1>1, <1>2
<1>8. at = [base |-> i, new |-> j, files |-> at.files]
  BY <1>2
<1>9. at.files \in Seq((B \ R) \cup A) /\ InOrderOfKeys(at.files)
  BY <1>2
<1> HIDE DEF i, j
<1>10. CASE NewFirst(base, new, at)
  <2>1. /\ to = [base |-> i, new |-> j + 1, files |-> Append(at.files, new[j])]
        /\ j \in 1..Len(new)
        /\ i \in 1..Len(base) => Before(new[j].smallest, base[i].smallest)
    <3>1. j <= Len(new) /\ (i <= Len(base) => Before(new[j].smallest, base[i].smallest))
      BY <1>10 DEF NewFirst, i, j
    <3>2. to = [base |-> i, new |-> j + 1, files |-> Append(at.files, new[j])]
      BY <1>8, <1>10, TurnIs
    <3>3. j \in 1..Len(new) /\ (i \in 1..Len(base) => i <= Len(base))
      BY <1>7, <3>1
    <3>4. QED  BY <3>1, <3>2, <3>3
  <2>2. /\ Append(at.files, new[j]) \in Seq((B \ R) \cup A)
        /\ InOrderOfKeys(Append(at.files, new[j]))
        /\ ToSet(Append(at.files, new[j])) = ToSet(at.files) \cup {new[j]}
    <3>1. new[j] \in (B \ R) \cup A
      BY <1>1, <2>1
    <3>2. \A m \in DOMAIN at.files : Before(at.files[m].smallest, new[j].smallest)
      <4>1. j \in j..Len(new)
        BY <1>7, <2>1
      <4>2. QED  BY <1>2, <4>1
    <3>3. QED  BY <1>9, <3>1, <3>2, AppendInOrder
  <2>3. \A x \in i..Len(base) : Before(new[j].smallest, base[x].smallest)
    <3> SUFFICES ASSUME NEW x \in i..Len(base) PROVE Before(new[j].smallest, base[x].smallest)
      OBVIOUS
    <3>1. i \in 1..Len(base) /\ x \in 1..Len(base) /\ (x = i \/ i < x)
      BY <1>7
    <3>2. new[j] \in B \cup A /\ base[i] \in B \cup A /\ base[x] \in B \cup A
      BY <1>1, <2>1, <3>1
    <3>3. QED  BY <1>3, <1>5, <2>1, <3>1, <3>2
  <2>4. \A y \in (j + 1)..Len(new) : Before(new[j].smallest, new[y].smallest)
    BY <1>1, <1>6, <2>1
  <2>5. \A m \in DOMAIN Append(at.files, new[j]) :
          (m \in DOMAIN at.files /\ Append(at.files, new[j])[m] = at.files[m])
          \/ Append(at.files, new[j])[m] = new[j]
    BY <1>2
  <2>6. {new[y] : y \in 1..j} = {new[y] : y \in 1..(j - 1)} \cup {new[j]}
    <3>1. \A y \in 1..j : y \in 1..(j - 1) \/ y = j
      BY <2>1
    <3>2. j \in 1..j /\ \A y \in 1..(j - 1) : y \in 1..j
      BY <2>1
    <3>3. QED  BY <3>1, <3>2
  <2>7. (j + 1) - 1 = j /\ j + 1 \in 1..(Len(new) + 1) /\ i + (j + 1) = (n + 1) + 2
    BY <1>7, <2>1
  <2>8. \A y \in (j + 1)..Len(new) : y \in j..Len(new)
    BY <1>7, <2>1
  <2>9. \A m \in DOMAIN to.files :
          /\ \A x \in i..Len(base) : base[x] \in R \/ Before(to.files[m].smallest, base[x].smallest)
          /\ \A y \in (j + 1)..Len(new) : Before(to.files[m].smallest, new[y].smallest)
    <3>1. to.files = Append(at.files, new[j])
      BY <2>1
    <3>2. \A m \in DOMAIN at.files : \A y \in (j + 1)..Len(new) : Before(at.files[m].smallest, new[y].smallest)
      BY <1>2, <2>8
    <3>3. \A m \in DOMAIN at.files : \A x \in i..Len(base) : base[x] \in R \/ Before(at.files[m].smallest, base[x].smallest)
      BY <1>2
    <3> HIDE DEF to
    <3>4. QED  BY <2>3, <2>4, <2>5, <3>1, <3>2, <3>3
  <2>10. ToSet(to.files) = ({base[x] : x \in 1..(i - 1)} \ R) \cup {new[y] : y \in 1..((j + 1) - 1)}
    <3>1. to.files = Append(at.files, new[j])
      BY <2>1
    <3>2. (j + 1) - 1 = j
      BY <2>7
    <3>3. ToSet(at.files) = ({base[x] : x \in 1..(i - 1)} \ R) \cup {new[y] : y \in 1..(j - 1)}
      BY <1>2
    <3> HIDE DEF to
    <3>4. QED  BY <2>2, <2>6, <3>1, <3>2, <3>3
  <2>11. to.base = i /\ to.new = j + 1 /\ to.files = Append(at.files, new[j])
         /\ to = [base |-> to.base, new |-> to.new, files |-> to.files]
    BY <2>1
  <2> HIDE DEF to
  <2>12. MergedSoFar(B, base, A, new, R, n + 1, to)
    BY <1>2, <2>2, <2>7, <2>9, <2>10, <2>11 DEF MergedSoFar
  <2>13. QED  BY <2>12 DEF to
<1>11. CASE ~NewFirst(base, new, at)
  <2>1. i \in 1..Len(base)
    <3>1. j > Len(new) => i <= Len(base)
      BY <1>7
    <3>2. ~(j <= Len(new)) \/ i <= Len(base)
      BY <1>11 DEF NewFirst, i, j
    <3>3. QED  BY <1>7, <3>1, <3>2
  <2>2. /\ to.base = i + 1 /\ to.new = j
        /\ to.files = IF base[i] \in R THEN at.files ELSE Append(at.files, base[i])
        /\ to = [base |-> to.base, new |-> to.new, files |-> to.files]
    <3>1. to = [base |-> i + 1, new |-> j,
                files |-> IF base[i] \in R THEN at.files ELSE Append(at.files, base[i])]
      BY <1>8, <1>11, TurnIs
    <3> HIDE DEF to
    <3>2. QED  BY <3>1
  <2>3. (i + 1) - 1 = i /\ i + 1 \in 1..(Len(base) + 1) /\ (i + 1) + j = (n + 1) + 2
    BY <1>7, <2>1
  <2>4. {base[x] : x \in 1..i} = {base[x] : x \in 1..(i - 1)} \cup {base[i]}
    <3>1. \A x \in 1..i : x \in 1..(i - 1) \/ x = i
      BY <2>1
    <3>2. i \in 1..i /\ \A x \in 1..(i - 1) : x \in 1..i
      BY <2>1
    <3>3. QED  BY <3>1, <3>2
  <2>5. \A x \in (i + 1)..Len(base) : x \in i..Len(base)
    BY <1>7, <2>1
  <2>6. CASE base[i] \in R
    <3>1. to.files = at.files
      BY <2>2, <2>6
    <3>2. ToSet(to.files) = ({base[x] : x \in 1..((i + 1) - 1)} \ R) \cup {new[y] : y \in 1..(j - 1)}
      BY <1>2, <2>3, <2>4, <2>6, <3>1
    <3> HIDE DEF to
    <3>3. MergedSoFar(B, base, A, new, R, n + 1, to)
      BY <1>2, <2>2, <2>3, <2>5, <3>1, <3>2 DEF MergedSoFar
    <3>4. QED  BY <3>3 DEF to
  <2>7. CASE base[i] \notin R
    <3>1. to.files = Append(at.files, base[i])
      BY <2>2, <2>7
    <3>2. base[i] \in B \ R
      BY <1>1, <2>1, <2>7
    <3>3. /\ Append(at.files, base[i]) \in Seq((B \ R) \cup A)
          /\ InOrderOfKeys(Append(at.files, base[i]))
          /\ ToSet(Append(at.files, base[i])) = ToSet(at.files) \cup {base[i]}
      <4>1. i \in i..Len(base)
        BY <1>1, <2>1
      <4>2. \A m \in DOMAIN at.files : Before(at.files[m].smallest, base[i].smallest)
        BY <1>2, <2>7, <4>1
      <4>3. base[i] \in (B \ R) \cup A
        BY <3>2
      <4>4. QED  BY <1>9, <4>2, <4>3, AppendInOrder
    <3>4. \A y \in j..Len(new) : Before(base[i].smallest, new[y].smallest)
      <4> SUFFICES ASSUME NEW y \in j..Len(new) PROVE Before(base[i].smallest, new[y].smallest)
        OBVIOUS
      <4>1. j \in 1..Len(new) /\ y \in 1..Len(new) /\ (y = j \/ j < y)
        BY <1>7
      <4>2. ~Before(new[j].smallest, base[i].smallest)
        <5>1. j <= Len(new) /\ i <= Len(base)
          BY <1>7, <2>1, <4>1
        <5>2. QED  BY <1>11, <5>1 DEF NewFirst, i, j
      <4>3. new[j] \in A /\ new[y] \in A
        BY <1>1, <4>1
      <4>4. Before(base[i].smallest, new[j].smallest)
        BY <1>4, <3>2, <4>2, <4>3
      <4>5. QED  BY <1>3, <1>6, <3>2, <4>1, <4>3, <4>4
    <3>5. \A x \in (i + 1)..Len(base) : Before(base[i].smallest, base[x].smallest)
      BY <1>1, <1>5, <2>1
    <3>6. \A m \in DOMAIN Append(at.files, base[i]) :
            (m \in DOMAIN at.files /\ Append(at.files, base[i])[m] = at.files[m])
            \/ Append(at.files, base[i])[m] = base[i]
      BY <1>2
    <3> HIDE DEF to
    <3>7. \A m \in DOMAIN to.files :
            /\ \A x \in (i + 1)..Len(base) : base[x] \in R \/ Before(to.files[m].smallest, base[x].smallest)
            /\ \A y \in j..Len(new) : Before(to.files[m].smallest, new[y].smallest)
      BY <1>2, <2>5, <3>1, <3>4, <3>5, <3>6
    <3>8. ToSet(to.files) = ({base[x] : x \in 1..((i + 1) - 1)} \ R) \cup {new[y] : y \in 1..(j - 1)}
      BY <1>2, <2>3, <2>4, <2>7, <3>1, <3>3
    <3>9. MergedSoFar(B, base, A, new, R, n + 1, to)
      BY <1>2, <2>2, <2>3, <3>1, <3>3, <3>7, <3>8 DEF MergedSoFar
    <3>10. QED  BY <3>9 DEF to
  <2>8. QED  BY <2>6, <2>7
<1>12. QED  BY <1>10, <1>11

(***************************************************************************)
(* Versions.                                                               *)
(***************************************************************************)
GoodVersion(G) ==
  /\ \A l \in Levels : IsFiniteSet(G[l]) /\ \A f \in G[l] : FileOk(f)
  /\ \A l, m \in Levels : \A f \in G[l], g \in G[m] :
       \A e \in f.ents, h \in g.ents : e.s = h.s => e = h /\ l = m /\ f = g

Version == [l \in Levels |-> FilesOf(l)]

LEMMA VersionIsGood ==
  ASSUME VersionInv, OneHome
  PROVE  GoodVersion(Version)
BY DEF VersionInv, OneHome, GoodVersion, Version

LEMMA LevelIsProper ==
  ASSUME NEW G, GoodVersion(G), NEW l \in Levels
  PROVE  IsFiniteSet(G[l]) /\ Proper(G[l])
BY DEF GoodVersion, Proper

\* What an edit makes of a version that it leaves good, if SaveTo loses no file
\* and keeps each level in order.
LEMMA NewVersion ==
  ASSUME NEW G, GoodVersion(G), DOMAIN levels' = Levels,
         \A l \in Levels : Arranges(levels'[l], G[l])
  PROVE  /\ \A l \in Levels : FilesOf(l)' = G[l]
         /\ VersionInv' /\ OneHome'
<1>1. ASSUME NEW l \in Levels PROVE FilesOf(l)' = G[l]
  BY DEF FilesOf, Arranges
<1>2. VersionInv'
  <2>1. \A l \in Levels : Arranges(levels'[l], FilesOf(l)')
    BY <1>1
  <2>2. \A l \in Levels : IsFiniteSet(FilesOf(l)') /\ \A f \in FilesOf(l)' : FileOk(f)
    BY <1>1 DEF GoodVersion
  <2>3. QED  BY <2>1, <2>2 DEF VersionInv
<1>3. OneHome'
  BY <1>1 DEF GoodVersion, OneHome
<1>4. QED  BY <1>1, <1>2, <1>3

LEMMA SameVersion ==
  ASSUME levels' = levels
  PROVE  /\ \A l : FilesOf(l)' = FilesOf(l)
         /\ InLevels' = InLevels
         /\ VersionInv => VersionInv'
         /\ OneHome => OneHome'
<1>1. \A l : FilesOf(l)' = FilesOf(l)
  BY DEF FilesOf
<1>2. InLevels' = InLevels
  BY <1>1 DEF InLevels
<1>3. VersionInv => VersionInv'
  BY <1>1 DEF VersionInv
<1>4. OneHome => OneHome'
  BY <1>1 DEF OneHome
<1>5. QED  BY <1>1, <1>2, <1>3, <1>4

\* Builder::SaveTo keeps the order of a level, adds every new file and leaves out
\* the deleted ones alone.
LEMMA SaveToMerges ==
  ASSUME NEW l, NEW B, Arranges(levels[l], B), NEW R, NEW A, IsFiniteSet(A), Proper(A),
         Proper(B), \A f \in B \ R, g \in A : f.smallest.s # g.smallest.s
  PROVE  Arranges(SaveTo(l, R, A), (B \ R) \cup A)
<1> DEFINE base == levels[l]
           new == InOrder(A)
           len == Len(base) + Len(new)
<1>1. Mergeable(B, base, A, new, R)
  <2>1. base \in Seq(B) /\ InOrderOfKeys(base)
    BY DEF Arranges, InOrderOfKeys
  <2>2. new \in Seq(A) /\ InOrderOfKeys(new)
    BY LevelInOrder DEF InOrderOfKeys
  <2>3. \A f \in B \cup A : f.smallest \in Update
    BY ProperFile, FileIs
  <2>4. \A f \in B \cup A : f.smallest.k \in Int /\ f.smallest.s \in Int
    BY <2>3, NumKeysAssumption DEF Update, Keys
  <2> HIDE DEF base, new
  <2>5. QED  BY <2>1, <2>2, <2>4 DEF Mergeable
<1>2. /\ {base[x] : x \in 1..Len(base)} = B /\ {new[y] : y \in 1..Len(new)} = A
      /\ Len(base) \in Nat /\ Len(new) \in Nat /\ len \in Nat
  <2>1. ToSet(base) = B /\ base \in Seq(B) /\ new \in Seq(A) /\ {new[y] : y \in DOMAIN new} = A
    BY LevelInOrder DEF Arranges
  <2> HIDE DEF base, new
  <2>2. QED  BY <2>1 DEF ToSet
<1>3. PICK e : /\ e[0] = Unmerged /\ SaveTo(l, R, A) = e[len].files
               /\ \A n \in 1..len : e[n] = Turn(base, new, R, e[n - 1])
  BY <1>2, MergeLoop
<1> HIDE DEF base, new
<1>4. MergedSoFar(B, base, A, new, R, 0, Unmerged)
  <2>1. <<>> \in Seq((B \ R) \cup A) /\ InOrderOfKeys(<<>>) /\ ToSet(<<>>) = {}
    BY DEF InOrderOfKeys, ToSet
  <2>2. Unmerged.base = 1 /\ Unmerged.new = 1 /\ Unmerged.files = <<>>
        /\ Unmerged = [base |-> Unmerged.base, new |-> Unmerged.new, files |-> Unmerged.files]
    BY DEF Unmerged
  <2>3. 1 \in 1..(Len(base) + 1) /\ 1 \in 1..(Len(new) + 1) /\ 1..(1 - 1) = {}
    BY <1>2
  <2>4. DOMAIN <<>> = {}
    OBVIOUS
  <2>5. QED  BY <2>1, <2>2, <2>3, <2>4 DEF MergedSoFar
<1> DEFINE T == {n \in Nat : n <= len => MergedSoFar(B, base, A, new, R, n, e[n])}
<1>5. 0 \in T
  BY <1>3, <1>4
<1>6. ASSUME NEW n \in Nat, n \in T PROVE n + 1 \in T
  <2> SUFFICES ASSUME n + 1 <= len PROVE MergedSoFar(B, base, A, new, R, n + 1, e[n + 1])
    OBVIOUS
  <2>1. n \in 0..(Len(base) + Len(new) - 1) /\ n <= len /\ n + 1 \in 1..len /\ (n + 1) - 1 = n
    BY <1>2
  <2>2. e[n + 1] = Turn(base, new, R, e[n])
    BY <1>3, <2>1
  <2>3. MergedSoFar(B, base, A, new, R, n, e[n])
    BY <1>6, <2>1
  <2>4. QED  BY <1>1, <2>1, <2>2, <2>3, TurnMerges
<1>7. MergedSoFar(B, base, A, new, R, len, e[len])
  <2>1. len \in T
    <3> HIDE DEF T
    <3>1. QED  BY <1>2, <1>5, <1>6, Upwards
  <2>2. QED  BY <1>2, <2>1
<1>8. e[len].base = Len(base) + 1 /\ e[len].new = Len(new) + 1
  BY <1>2, <1>7 DEF MergedSoFar
<1>9. ToSet(e[len].files) = (B \ R) \cup A
  <2>1. (Len(base) + 1) - 1 = Len(base) /\ (Len(new) + 1) - 1 = Len(new)
    BY <1>2
  <2>2. ToSet(e[len].files) = ({base[x] : x \in 1..Len(base)} \ R) \cup {new[y] : y \in 1..Len(new)}
    BY <1>7, <1>8, <2>1 DEF MergedSoFar
  <2>3. QED  BY <1>2, <2>2
<1>10. e[len].files \in Seq((B \ R) \cup A) /\ InOrderOfKeys(e[len].files)
  BY <1>7 DEF MergedSoFar
<1>11. QED  BY <1>3, <1>9, <1>10 DEF Arranges, InOrderOfKeys

\* A level of the version: files that hold an update of a new file are deleted.
LEMMA SaveToEdits ==
  ASSUME IInv, NEW l \in Levels, NEW R, NEW A, IsFiniteSet(A), Proper(A),
         \A f \in FilesOf(l), g \in A : \A e \in f.ents, h \in g.ents : e.s = h.s => f \in R
  PROVE  Arranges(SaveTo(l, R, A), (FilesOf(l) \ R) \cup A)
<1>1. Arranges(levels[l], FilesOf(l)) /\ Proper(FilesOf(l))
  <2>1. GoodVersion(Version) /\ Version[l] = FilesOf(l)
    BY VersionIsGood DEF IInv, UpdatesApart, Version
  <2>2. QED  BY <2>1, LevelIsProper DEF IInv, VersionInv
<1>2. \A f \in FilesOf(l) : f.smallest \in f.ents
  BY <1>1, ProperFile, FileIs
<1>3. \A g \in A : g.smallest \in g.ents
  BY ProperFile, FileIs
<1>4. \A f \in FilesOf(l) \ R, g \in A : f.smallest.s # g.smallest.s
  BY <1>2, <1>3
<1>5. QED  BY <1>1, <1>4, SaveToMerges

\* What InLevels says of a file's entries.
LEMMA InFile ==
  /\ \A e : e \in InLevels <=> \E l \in Levels : \E f \in FilesOf(l) : e \in f.ents
  /\ \A l \in Levels : \A f \in FilesOf(l) : f.ents \in SUBSET InLevels
<1>1. \A e : e \in InLevels <=> \E l \in Levels : \E f \in FilesOf(l) : e \in f.ents
  BY DEF InLevels, Entries
<1>2. QED  BY <1>1

LEMMA StoreDistinct ==
  ASSUME IInv
  PROVE  Distinct(Store) /\ Store \in SUBSET Update
<1>1. Distinct(InLevels)
  BY InFile DEF IInv, UpdatesApart, OneHome, Distinct
<1>2. InLevels \in SUBSET Update
  <2>1. \A l \in Levels : \A f \in FilesOf(l) : f.ents \in SUBSET Update
    BY DEF IInv, VersionInv, FileOk
  <2>2. QED  BY <2>1, InFile
<1>3. \A e \in Store : e.s \in Nat
  BY <1>2 DEF Store, Update, IInv, Typed
<1>4. \A e \in mem, f \in imm \cup InLevels : f.s < e.s /\ f.s \in Nat /\ e.s \in Nat
  BY <1>3 DEF IInv, UpdatesApart, NewestInMemory, Store
<1>5. \A e \in imm, f \in InLevels : f.s < e.s /\ f.s \in Nat /\ e.s \in Nat
  BY <1>3 DEF IInv, UpdatesApart, NewestInMemory, Store
<1>6. \A e \in mem, f \in imm \cup InLevels : f.s # e.s
  BY <1>4
<1>7. \A e \in imm, f \in InLevels : f.s # e.s
  BY <1>5
<1>8. Distinct(mem) /\ Distinct(imm)
  BY DEF IInv, UpdatesApart
<1>9. Distinct(Store)
  BY <1>1, <1>6, <1>7, <1>8 DEF Distinct, Store
<1>10. QED  BY <1>2, <1>9 DEF Store, IInv, Typed

\* The entries of a running compaction are in the tree.
LEMMA InputIs ==
  ASSUME IInv, comp # NoCompaction
  PROVE  /\ Input(comp) \in SUBSET InLevels /\ Input(comp) \in SUBSET Update
         /\ Distinct(Input(comp)) /\ IsFiniteSet(Input(comp))
<1> DEFINE lv == comp.c.level
           F == comp.c.in0 \cup comp.c.in1
<1>1. lv \in Levels /\ lv + 1 \in Levels
  BY LevelsAssumption DEF IInv, BaseInv, Levels
<1>2. comp.c.in0 \in SUBSET FilesOf(lv) /\ comp.c.in1 \in SUBSET FilesOf(lv + 1)
  BY DEF IInv, InputsStay
<1>3. \A f \in F : f.ents \in SUBSET InLevels /\ IsFiniteSet(f.ents)
  BY <1>1, <1>2, InFile DEF IInv, VersionInv, FileOk
<1>4. Input(comp) \in SUBSET InLevels
  BY <1>3 DEF Input, Entries
<1>5. Input(comp) \in SUBSET Update /\ Distinct(Input(comp))
  BY <1>4, StoreDistinct DEF Store, Distinct
<1>6. IsFiniteSet(Input(comp))
  <2> DEFINE num == [e \in Input(comp) |-> e.s]
  <2>1. \A e \in Input(comp) : e.s \in 0..seq
    <3>1. \A e \in Input(comp) : e \in Store /\ e \in Update
      BY <1>4, <1>5 DEF Store
    <3>2. QED  BY <3>1 DEF IInv, Typed, Update
  <2>2. seq \in Nat
    BY DEF IInv, Typed
  <2>3. num \in Injection(Input(comp), 0..seq)
    BY <1>5, <2>1 DEF Injection, IsInjective, Distinct
  <2>4. IsFiniteSet(0..seq)
    BY <2>2, FS_Interval
  <2> HIDE DEF num
  <2>5. QED  BY <2>3, <2>4, FS_Injection
<1>7. QED  BY <1>4, <1>5, <1>6

(***************************************************************************)
(* The invariant holds.                                                    *)
(***************************************************************************)
LEMMA InitIInv == Init => IInv
<1> SUFFICES ASSUME Init PROVE IInv
  OBVIOUS
<1>1. \A l \in Levels : FilesOf(l) = {}
  BY DEF Init, FilesOf, ToSet
<1>2. InLevels = {} /\ Store = {}
  BY <1>1, InFile DEF Store, Init
<1>3. Typed
  BY <1>2, FS_EmptySet DEF Typed, Init
<1>4. SnapshotsInv
  BY DEF SnapshotsInv, Init
<1>5. VersionInv
  <2>1. IsFiniteSet({}) /\ Proper({})
    BY FS_EmptySet DEF Proper
  <2>2. \A l \in Levels : levels[l] = <<>> /\ Arranges(<<>>, {})
    BY DEF Init, Arranges, ToSet
  <2>3. QED  BY <1>1, <2>1, <2>2 DEF VersionInv, Init
<1>6. UpdatesApart
  BY <1>1, <1>2 DEF UpdatesApart, OneHome, NewestInMemory, Distinct, Init
<1>7. InputsStay /\ BaseInv
  BY DEF InputsStay, BaseInv, Init
<1>8. QED  BY <1>3, <1>4, <1>5, <1>6, <1>7 DEF IInv

\* A compaction goes on as before while the levels stay.
LEMMA CompactionGoesOn ==
  ASSUME IInv, UNCHANGED <<levels, comp>>, \A s \in Live' : \E q \in Live : q <= s,
         Live \in SUBSET Nat, Live' \in SUBSET Nat
  PROVE  InputsStay' /\ BaseInv'
<1>1. \A l : FilesOf(l)' = FilesOf(l)
  BY SameVersion
<1>2. Input(comp)' = Input(comp)
  BY DEF Input
<1>3. InputsStay'
  BY <1>1 DEF IInv, InputsStay
<1>4. ASSUME comp # NoCompaction, NEW s \in Live' PROVE comp.snapshot <= s
  <2>1. PICK q \in Live : q <= s
    OBVIOUS
  <2>2. comp.snapshot <= q /\ comp.snapshot \in Nat
    BY <1>4 DEF IInv, BaseInv
  <2>3. q \in Nat /\ s \in Nat
    OBVIOUS
  <2>4. QED  BY <2>1, <2>2, <2>3
<1>5. BaseInv'
  <2> SUFFICES ASSUME comp' # NoCompaction
               PROVE  /\ comp'.c.level \in 0..(NumLevels - 2)
                      /\ \A s \in Live' : comp'.snapshot <= s
                      /\ comp'.snapshot \in Nat
                      /\ \A l \in Deeper(comp'.c.level) : \A f \in FilesOf(l)' :
                           \/ f \in {comp'.base[l][i] : i \in DOMAIN comp'.base[l]}
                           \/ \A e \in f.ents, g \in Input(comp)' : g.s < e.s
    BY DEF BaseInv
  <2>1. comp' = comp /\ comp # NoCompaction
    OBVIOUS
  <2>2. QED  BY <1>1, <1>2, <1>4, <2>1 DEF IInv, BaseInv
<1>6. QED  BY <1>3, <1>5

LEMMA LiveIs ==
  ASSUME Typed, SnapshotsInv
  PROVE  Live \in SUBSET Nat /\ \A s \in Live : s <= seq
BY DEF Typed, SnapshotsInv, Live

LEMMA WriteKeeps ==
  ASSUME IInv, UNCHANGED options, NEW k \in Keys, NEW d \in BOOLEAN, Write(k, d)
  PROVE  IInv' /\ seq \in Nat /\ Store' = Store \cup {[k |-> k, s |-> seq + 1, d |-> d]}
<1> DEFINE new == [k |-> k, s |-> seq + 1, d |-> d]
<1>0. /\ seq' = seq + 1 /\ mem' = mem \cup {new} /\ seq \in Nat
      /\ UNCHANGED <<imm, levels, snapshots, comp>>
  BY DEF Write, IInv, Typed
<1>1. new \in Update
  BY <1>0 DEF Update
<1>2. InLevels' = InLevels /\ VersionInv' /\ OneHome'
  BY <1>0, SameVersion DEF IInv, UpdatesApart
<1>3. Store' = Store \cup {new}
  BY <1>0, <1>2 DEF Store
<1>4. \A e \in Store : e.s \in Nat /\ e.s <= seq
  BY StoreDistinct DEF IInv, Typed, Update
<1>5. Typed'
  <2>1. \A e \in Store' : e.s <= seq'
    BY <1>0, <1>3, <1>4
  <2>2. mem' \in SUBSET Update /\ IsFiniteSet(mem')
    BY <1>0, <1>1, FS_AddElement DEF IInv, Typed
  <2>3. QED  BY <1>0, <2>1, <2>2 DEF IInv, Typed
<1>6. SnapshotsInv'
  <2>1. snapshots' = snapshots /\ snapshots \in Seq(Nat)
    BY <1>0 DEF IInv, SnapshotsInv
  <2>2. \A i \in DOMAIN snapshots : snapshots[i] <= seq + 1
    BY <1>0, <2>1 DEF IInv, SnapshotsInv
  <2>3. QED  BY <1>0, <2>1, <2>2 DEF IInv, SnapshotsInv
<1>7. NewestInMemory' /\ Distinct(mem)' /\ Distinct(imm)'
  <2>1. \A f \in Store : f.s < new.s
    BY <1>0, <1>4
  <2>2. \A f \in imm \cup InLevels : f.s < new.s
    BY <2>1 DEF Store
  <2>3. \A f \in mem : f.s # new.s
    BY <1>4, <2>1 DEF Store
  <2> HIDE DEF new
  <2>4. NewestInMemory'
    BY <1>0, <1>2, <2>2 DEF IInv, UpdatesApart, NewestInMemory
  <2>5. Distinct(mem)' /\ Distinct(imm)'
    BY <1>0, <2>3 DEF IInv, UpdatesApart, Distinct
  <2>6. QED  BY <2>4, <2>5
<1>8. InputsStay' /\ BaseInv'
  <2>1. Live \in SUBSET Nat /\ Live' \in SUBSET Nat
    <3>1. Typed /\ SnapshotsInv
      BY DEF IInv
    <3>2. (Typed /\ SnapshotsInv => Live \in SUBSET Nat)'
      BY LiveIs, PTL
    <3>3. QED  BY <1>5, <1>6, <3>1, <3>2, LiveIs
  <2>2. ASSUME NEW s \in Live' PROVE \E q \in Live : q <= s
    <3>1. s = seq + 1 \/ s \in Live
      BY <1>0 DEF Live
    <3>2. seq \in Live /\ seq <= seq + 1 /\ s <= s
      BY <1>0, <2>1 DEF Live
    <3>3. QED  BY <3>1, <3>2
  <2>3. QED  BY <1>0, <2>1, <2>2, CompactionGoesOn
<1>9. QED  BY <1>0, <1>2, <1>3, <1>5, <1>6, <1>7, <1>8 DEF IInv, UpdatesApart

\* What depends on neither the memtables' contents nor the levels.
LEMMA SameContents ==
  ASSUME IInv, UNCHANGED <<options, mem, imm, levels, seq>>
  PROVE  /\ Typed' /\ VersionInv' /\ UpdatesApart' /\ Store' = Store
<1>1. InLevels' = InLevels /\ VersionInv' /\ OneHome'
  BY SameVersion DEF IInv, UpdatesApart
<1>2. Store' = Store
  BY <1>1 DEF Store
<1>3. Typed'
  BY <1>2 DEF IInv, Typed
<1>4. UpdatesApart'
  BY <1>1 DEF IInv, UpdatesApart, NewestInMemory, Distinct
<1>5. QED  BY <1>1, <1>2, <1>3, <1>4

LEMMA GetSnapshotKeeps ==
  ASSUME IInv, UNCHANGED options, GetSnapshot
  PROVE  IInv' /\ Store' = Store
<1>0. snapshots' = Append(snapshots, seq) /\ UNCHANGED <<options, mem, imm, levels, comp, seq>>
  BY DEF GetSnapshot, treeVars
<1>1. Typed' /\ VersionInv' /\ UpdatesApart' /\ Store' = Store
  BY <1>0, SameContents
<1>2. snapshots \in Seq(Nat) /\ seq \in Nat
  BY DEF IInv, SnapshotsInv, Typed
<1>3. /\ Append(snapshots, seq) \in Seq(Nat)
      /\ DOMAIN Append(snapshots, seq) = 1..(Len(snapshots) + 1)
      /\ \A i \in 1..Len(snapshots) : Append(snapshots, seq)[i] = snapshots[i]
      /\ Append(snapshots, seq)[Len(snapshots) + 1] = seq
      /\ DOMAIN snapshots = 1..Len(snapshots) /\ Len(snapshots) \in Nat
  BY <1>2
<1>4. /\ \A i \in DOMAIN snapshots : snapshots[i] <= seq /\ snapshots[i] \in Nat
      /\ \A i, j \in DOMAIN snapshots : i < j => snapshots[i] <= snapshots[j]
  BY <1>2 DEF IInv, SnapshotsInv
<1>5. SnapshotsInv'
  <2>1. \A i \in DOMAIN snapshots' : snapshots'[i] <= seq
    BY <1>0, <1>2, <1>3, <1>4
  <2>2. \A i, j \in DOMAIN snapshots' : i < j => snapshots'[i] <= snapshots'[j]
    BY <1>0, <1>2, <1>3, <1>4
  <2>3. QED  BY <1>0, <1>3, <2>1, <2>2 DEF SnapshotsInv
<1>6. Live' = Live
  BY <1>0, <1>3 DEF Live
<1>7. Live \in SUBSET Nat
  BY LiveIs DEF IInv
<1>8. InputsStay' /\ BaseInv'
  <2>1. \A s \in Live' : s \in Live /\ s <= s
    BY <1>6, <1>7
  <2>2. QED  BY <1>0, <1>6, <1>7, <2>1, CompactionGoesOn
<1>9. QED  BY <1>1, <1>5, <1>8 DEF IInv

\* What is left without the element at i.
LEMMA Without ==
  ASSUME NEW S, NEW s \in Seq(S), NEW i \in 1..Len(s)
  PROVE  /\ RemoveAt(s, i) \in Seq(S) /\ DOMAIN RemoveAt(s, i) = 1..(Len(s) - 1)
         /\ \A j \in 1..(Len(s) - 1) :
              /\ j < i => RemoveAt(s, i)[j] = s[j] /\ j \in 1..Len(s)
              /\ ~(j < i) => RemoveAt(s, i)[j] = s[j + 1] /\ j + 1 \in 1..Len(s)
<1> DEFINE n == Len(s)
           a == SubSeq(s, 1, i - 1)
           b == SubSeq(s, i + 1, n)
<1>1. n \in Nat /\ i \in 1..n /\ \A j \in 1..n : s[j] \in S
  OBVIOUS
<1> HIDE DEF n
<1>2. /\ 1 \in Int /\ i - 1 \in Int /\ i + 1 \in Int /\ n \in Int
      /\ \A j \in 1..(i - 1) : s[j] \in S
      /\ \A j \in (i + 1)..n : s[j] \in S
  BY <1>1
<1>3. /\ a \in Seq(S) /\ Len(a) = (IF 1 <= i - 1 THEN i - 1 - 1 + 1 ELSE 0)
      /\ \A j \in 1..(i - 1 - 1 + 1) : a[j] = s[1 + j - 1]
  BY <1>2, SubSeqProperties
<1>4. /\ b \in Seq(S) /\ Len(b) = (IF i + 1 <= n THEN n - (i + 1) + 1 ELSE 0)
      /\ \A j \in 1..(n - (i + 1) + 1) : b[j] = s[i + 1 + j - 1]
  BY <1>2, SubSeqProperties
<1> HIDE DEF a, b
<1>5. Len(a) = i - 1 /\ \A j \in 1..(i - 1) : a[j] = s[j]
  <2>1. \A j \in 1..(i - 1) : j \in 1..(i - 1 - 1 + 1) /\ 1 + j - 1 = j
    BY <1>1
  <2>2. \A j \in 1..(i - 1) : a[j] = s[j]
    BY <1>3, <2>1
  <2>3. QED  BY <1>1, <1>3, <2>2
<1>6. Len(b) = n - i /\ \A j \in 1..(n - i) : b[j] = s[i + j]
  <2>1. \A j \in 1..(n - i) : j \in 1..(n - (i + 1) + 1) /\ i + 1 + j - 1 = i + j
    BY <1>1
  <2>2. \A j \in 1..(n - i) : b[j] = s[i + j]
    BY <1>4, <2>1
  <2>3. QED  BY <1>1, <1>4, <2>2
<1>7. RemoveAt(s, i) = a \o b
  BY DEF RemoveAt, a, b, n
<1>8. /\ a \o b \in Seq(S) /\ Len(a \o b) = Len(a) + Len(b)
      /\ \A j \in 1..(Len(a) + Len(b)) : (a \o b)[j] = IF j <= Len(a) THEN a[j] ELSE b[j - Len(a)]
  BY <1>3, <1>4, ConcatProperties
<1>9. DOMAIN (a \o b) = 1..(n - 1) /\ Len(a) + Len(b) = n - 1
  <2>1. Len(a) + Len(b) = n - 1
    BY <1>1, <1>5, <1>6
  <2>2. DOMAIN (a \o b) = 1..Len(a \o b)
    BY <1>8, LenProperties
  <2>3. QED  BY <1>8, <2>1, <2>2
<1>10. ASSUME NEW j \in 1..(n - 1), j < i PROVE (a \o b)[j] = s[j] /\ j \in 1..n
  <2>1. j <= Len(a) /\ j \in 1..(i - 1) /\ j \in 1..n
    BY <1>1, <1>5, <1>10
  <2>2. (a \o b)[j] = a[j]
    BY <1>8, <1>9, <2>1
  <2>3. QED  BY <1>5, <2>1, <2>2
<1>11. ASSUME NEW j \in 1..(n - 1), ~(j < i) PROVE (a \o b)[j] = s[j + 1] /\ j + 1 \in 1..n
  <2>1. /\ ~(j <= Len(a)) /\ j - Len(a) \in 1..(n - i) /\ j + 1 \in 1..n
        /\ i + (j - Len(a)) = j + 1
    BY <1>1, <1>5, <1>11
  <2>2. (a \o b)[j] = b[j - Len(a)]
    BY <1>8, <1>9, <2>1
  <2>3. b[j - Len(a)] = s[i + (j - Len(a))]
    BY <1>6, <2>1
  <2>4. QED  BY <2>1, <2>2, <2>3
<1>12. QED  BY <1>7, <1>8, <1>9, <1>10, <1>11 DEF n

LEMMA ReleaseSnapshotKeeps ==
  ASSUME IInv, UNCHANGED options, NEW i \in DOMAIN snapshots, ReleaseSnapshot(i)
  PROVE  IInv' /\ Store' = Store
<1> DEFINE s == snapshots
           n == Len(snapshots)
           q == RemoveAt(s, i)
<1>0. snapshots' = q /\ UNCHANGED <<options, mem, imm, levels, comp, seq>>
  BY DEF ReleaseSnapshot, treeVars
<1>1. Typed' /\ VersionInv' /\ UpdatesApart' /\ Store' = Store
  BY <1>0, SameContents
<1>2. s \in Seq(Nat) /\ n \in Nat /\ i \in 1..n /\ DOMAIN s = 1..n
  BY DEF IInv, SnapshotsInv
<1>3. /\ q \in Seq(Nat) /\ DOMAIN q = 1..(n - 1)
      /\ \A j \in 1..(n - 1) :
           /\ j < i => q[j] = s[j] /\ j \in 1..n
           /\ ~(j < i) => q[j] = s[j + 1] /\ j + 1 \in 1..n
  BY <1>2, Without
<1>4. /\ \A j \in 1..n : s[j] <= seq /\ s[j] \in Nat
      /\ \A j, k \in 1..n : j < k => s[j] <= s[k]
  BY <1>2 DEF IInv, SnapshotsInv
<1>10. Live = {seq} \cup {s[j] : j \in 1..n} /\ Live' = {seq} \cup {q[j] : j \in 1..(n - 1)}
  BY <1>0, <1>2, <1>3 DEF Live
<1> HIDE DEF q, s, n
<1>5. SnapshotsInv'
  <2>1. \A j \in 1..(n - 1) : q[j] <= seq
    BY <1>3, <1>4
  <2>2. ASSUME NEW j \in 1..(n - 1), NEW k \in 1..(n - 1), j < k PROVE q[j] <= q[k]
    <3>1. CASE k < i
      <4>1. j < i
        BY <1>2, <2>2, <3>1
      <4>2. QED  BY <1>3, <1>4, <2>2, <3>1, <4>1
    <3>2. CASE ~(k < i) /\ j < i
      <4>1. j < k + 1
        BY <2>2
      <4>2. QED  BY <1>3, <1>4, <3>2, <4>1
    <3>3. CASE ~(j < i) /\ ~(k < i)
      <4>1. j + 1 < k + 1
        BY <2>2
      <4>2. QED  BY <1>3, <1>4, <3>3, <4>1
    <3>4. QED  BY <3>1, <3>2, <3>3
  <2>3. QED  BY <1>0, <1>3, <2>1, <2>2 DEF SnapshotsInv
<1>6. Live' \in SUBSET Live
  <2>1. \A j \in 1..(n - 1) : q[j] \in Live
    BY <1>3, <1>10
  <2>2. QED  BY <1>10, <2>1
<1>7. Live \in SUBSET Nat
  BY LiveIs DEF IInv
<1>8. InputsStay' /\ BaseInv'
  <2>1. \A x \in Live' : x \in Live /\ x <= x
    BY <1>6, <1>7
  <2>2. Live' \in SUBSET Nat
    BY <1>6, <1>7
  <2>3. QED  BY <1>0, <1>7, <2>1, <2>2, CompactionGoesOn
<1>9. QED  BY <1>1, <1>5, <1>8 DEF IInv

LEMMA SwitchKeeps ==
  ASSUME IInv, UNCHANGED options, SwitchMemTable
  PROVE  IInv' /\ Store' = Store
<1>0. imm = {} /\ imm' = mem /\ mem' = {} /\ UNCHANGED <<options, levels, comp, seq, snapshots>>
  BY DEF SwitchMemTable
<1>1. InLevels' = InLevels /\ VersionInv' /\ OneHome'
  BY <1>0, SameVersion DEF IInv, UpdatesApart
<1>2. Store' = Store
  BY <1>0, <1>1 DEF Store
<1>3. Typed'
  BY <1>0, <1>2, FS_EmptySet DEF IInv, Typed
<1>4. UpdatesApart'
  <2>1. NewestInMemory'
    BY <1>0, <1>1 DEF IInv, UpdatesApart, NewestInMemory
  <2>2. Distinct(mem)' /\ Distinct(imm)'
    BY <1>0 DEF IInv, UpdatesApart, Distinct
  <2>3. QED  BY <1>1, <2>1, <2>2 DEF UpdatesApart
<1>5. SnapshotsInv' /\ Live' = Live
  BY <1>0 DEF IInv, SnapshotsInv, Live
<1>6. InputsStay' /\ BaseInv'
  <2>1. Live \in SUBSET Nat
    BY LiveIs DEF IInv
  <2>2. \A s \in Live' : s \in Live /\ s <= s
    BY <1>5, <2>1
  <2>3. QED  BY <1>0, <1>5, <2>1, <2>2, CompactionGoesOn
<1>7. QED  BY <1>1, <1>2, <1>3, <1>4, <1>5, <1>6 DEF IInv

LEMMA AbandonKeeps ==
  ASSUME IInv, UNCHANGED options, AbandonCompaction
  PROVE  IInv' /\ Store' = Store
<1>0. comp' = NoCompaction /\ UNCHANGED <<options, mem, imm, levels, seq, snapshots>>
  BY DEF AbandonCompaction
<1>1. Typed' /\ VersionInv' /\ UpdatesApart' /\ Store' = Store
  BY <1>0, SameContents
<1>2. SnapshotsInv'
  BY <1>0 DEF IInv, SnapshotsInv
<1>3. QED  BY <1>0, <1>1, <1>2 DEF IInv, InputsStay, BaseInv

(***************************************************************************)
(* Edits of the version: the files of R go, those of A come to a level.    *)
(***************************************************************************)
Edited(G, R, at, A) ==
  [l \in Levels |-> IF l = at THEN (G[l] \ R) \cup A ELSE G[l] \ R]

LEMMA FilesApart ==
  ASSUME NEW G, GoodVersion(G), NEW l \in Levels, NEW m \in Levels, l # m
  PROVE  G[l] \cap G[m] = {}
BY DEF GoodVersion, FileOk

LEMMA EditIsGood ==
  ASSUME NEW G, GoodVersion(G), NEW R, NEW at \in Levels, NEW A, IsFiniteSet(A), Proper(A),
         \A l \in Levels : \A f \in G[l], g \in A :
           \A e \in f.ents, h \in g.ents : e.s = h.s => f \in R
  PROVE  GoodVersion(Edited(G, R, at, A))
<1> DEFINE H == Edited(G, R, at, A)
<1>1. \A l \in Levels : \A f \in H[l] : (f \in G[l] /\ f \notin R) \/ (f \in A /\ l = at)
  BY DEF Edited
<1>2. \A l \in Levels : H[l] = (IF l = at THEN (G[l] \ R) \cup A ELSE G[l] \ R)
  BY DEF Edited
<1> HIDE DEF H
<1>3. ASSUME NEW l \in Levels PROVE IsFiniteSet(H[l]) /\ \A f \in H[l] : FileOk(f)
  <2>1. G[l] \ R \in SUBSET G[l] /\ IsFiniteSet(G[l])
    BY DEF GoodVersion
  <2>2. IsFiniteSet(G[l] \ R)
    BY <2>1, FS_Subset
  <2>3. IsFiniteSet((G[l] \ R) \cup A)
    BY <2>2, FS_Union
  <2>4. IsFiniteSet(H[l])
    BY <1>2, <2>2, <2>3
  <2>5. QED  BY <1>1, <2>4 DEF GoodVersion, Proper
<1>4. ASSUME NEW l \in Levels, NEW m \in Levels, NEW f \in H[l], NEW g \in H[m],
             NEW e \in f.ents, NEW h \in g.ents, e.s = h.s
      PROVE  e = h /\ l = m /\ f = g
  <2>1. CASE f \in G[l] /\ f \notin R /\ g \in G[m] /\ g \notin R
    BY <1>4, <2>1 DEF GoodVersion
  <2>2. CASE f \in A /\ l = at /\ g \in A /\ m = at
    BY <1>4, <2>2 DEF Proper
  <2>3. CASE f \in G[l] /\ f \notin R /\ g \in A
    BY <1>4, <2>3
  <2>4. CASE f \in A /\ g \in G[m] /\ g \notin R
    BY <1>4, <2>4
  <2>5. QED  BY <1>1, <2>1, <2>2, <2>3, <2>4
<1>5. GoodVersion(H)
  BY <1>3, <1>4 DEF GoodVersion
<1>6. QED  BY <1>5 DEF H

\* An edit of the version, as each of the three actions that make one installs it.
Installed(R, at, A) ==
  DOMAIN levels' = Levels /\ \A l \in Levels : Arranges(levels'[l], Edited(Version, R, at, A)[l])

LEMMA EditStep ==
  ASSUME IInv, NEW R, NEW at \in Levels, NEW A, IsFiniteSet(A), Proper(A),
         \A l \in Levels : \A f \in FilesOf(l), g \in A :
           \A e \in f.ents, h \in g.ents : e.s = h.s => f \in R,
         Installed(R, at, A)
  PROVE  /\ VersionInv' /\ OneHome'
         /\ \A l \in Levels : \A f \in FilesOf(l)' : (f \in FilesOf(l) /\ f \notin R) \/ (f \in A /\ l = at)
         /\ \A l \in Levels : \A f \in FilesOf(l) : f \in R \/ f \in FilesOf(l)'
         /\ \A e \in InLevels' : e \in Entries(A) \/ e \in InLevels
         /\ Entries(A) \in SUBSET InLevels'
         /\ \A e \in InLevels : e \in Entries(R) \/ e \in InLevels'
<1>1. GoodVersion(Version)
  BY VersionIsGood DEF IInv, UpdatesApart
<1>2. \A l \in Levels : FilesOf(l) = Version[l]
  BY DEF Version
<1>3. GoodVersion(Edited(Version, R, at, A))
  BY <1>1, <1>2, EditIsGood
<1>4. VersionInv' /\ OneHome' /\ \A l \in Levels : FilesOf(l)' = Edited(Version, R, at, A)[l]
  BY <1>3, NewVersion DEF Installed
<1>5. \A l \in Levels : \A f :
        f \in FilesOf(l)' <=> (f \in FilesOf(l) /\ f \notin R) \/ (f \in A /\ l = at)
  BY <1>2, <1>4 DEF Edited
<1>6. /\ \A e \in InLevels' : e \in Entries(A) \/ e \in InLevels
      /\ Entries(A) \in SUBSET InLevels'
      /\ \A e \in InLevels : e \in Entries(R) \/ e \in InLevels'
  <2>1. \A e : e \in InLevels' <=> \E l \in Levels : \E f \in FilesOf(l)' : e \in f.ents
    BY DEF InLevels, Entries
  <2>2. \A e \in InLevels' : e \in Entries(A) \/ e \in InLevels
    BY <1>5, <2>1, InFile DEF Entries
  <2>3. Entries(A) \in SUBSET InLevels'
    BY <1>5, <2>1 DEF Entries
  <2>4. \A e \in InLevels : e \in Entries(R) \/ e \in InLevels'
    BY <1>5, <2>1, InFile DEF Entries
  <2>5. QED  BY <2>2, <2>3, <2>4
<1>7. QED  BY <1>4, <1>5, <1>6

LEMMA CompactMemTableKeeps ==
  ASSUME IInv, UNCHANGED options, CompactMemTable
  PROVE  IInv' /\ Store' = Store
<1> DEFINE f == File(NewFileNumber, imm)
           at == PickLevelForMemTableOutput(f)
<1>0. /\ imm # {} /\ imm' = {} /\ UNCHANGED <<options, mem, seq, snapshots, comp>>
      /\ levels' = [levels EXCEPT ![at] = SaveTo(at, {}, {f})]
  BY DEF CompactMemTable
<1>1. at \in Levels
  BY LevelForMemTable
<1>2. f.ents = imm /\ f = File(f.num, f.ents)
  BY DEF File
<1> HIDE DEF f, at
<1>3. FileOk(f) /\ Distinct(f.ents)
  BY <1>0, <1>2 DEF FileOk, IInv, Typed, UpdatesApart
<1>4. IsFiniteSet({f}) /\ Proper({f})
  BY <1>3, FS_Singleton DEF Proper, Distinct
<1>5. \A e \in imm, h \in InLevels : h.s < e.s /\ h.s \in Nat /\ e.s \in Nat
  <2>1. \A e \in Store : e.s \in Nat
    BY StoreDistinct DEF Update
  <2>2. QED  BY <2>1 DEF IInv, UpdatesApart, NewestInMemory, Store
<1>6. \A l \in Levels : \A g \in FilesOf(l) : \A e \in g.ents, h \in f.ents : e.s # h.s
  <2>1. \A l \in Levels : \A g \in FilesOf(l) : \A e \in g.ents : e \in InLevels
    BY InFile
  <2>2. QED  BY <1>2, <1>5, <2>1
<1>7. \A l \in Levels : \A g \in FilesOf(l), h \in {f} :
        \A e \in g.ents, d \in h.ents : e.s = d.s => g \in {}
  BY <1>6
<1>8. Installed({}, at, {f})
  <2>1. DOMAIN levels = Levels /\ \A l \in Levels : Arranges(levels[l], FilesOf(l))
    BY DEF IInv, VersionInv
  <2>2. /\ DOMAIN levels' = Levels /\ levels'[at] = SaveTo(at, {}, {f})
        /\ \A l \in Levels \ {at} : levels'[l] = levels[l]
    BY <1>0, <1>1, <2>1
  <2>3. ASSUME NEW l \in Levels PROVE Arranges(levels'[l], Edited(Version, {}, at, {f})[l])
    <3>1. CASE l = at
      <4>1. Edited(Version, {}, at, {f})[l] = (FilesOf(at) \ {}) \cup {f}
        BY <3>1 DEF Edited, Version
      <4>2. \A g \in FilesOf(at), h \in {f} : \A e \in g.ents, d \in h.ents : e.s = d.s => g \in {}
        BY <1>1, <1>7
      <4>3. Arranges(SaveTo(at, {}, {f}), (FilesOf(at) \ {}) \cup {f})
        BY <1>1, <1>4, <4>2, SaveToEdits
      <4>4. QED  BY <2>2, <3>1, <4>1, <4>3
    <3>2. CASE l # at
      <4>1. Edited(Version, {}, at, {f})[l] = FilesOf(l)
        BY <3>2 DEF Edited, Version
      <4>2. QED  BY <2>1, <2>2, <3>2, <4>1
    <3>3. QED  BY <3>1, <3>2
  <2>4. QED  BY <2>2, <2>3 DEF Installed
<1>9. /\ VersionInv' /\ OneHome'
      /\ \A l \in Levels : \A g \in FilesOf(l)' : g \in FilesOf(l) \/ g = f
      /\ \A l \in Levels : \A g \in FilesOf(l) : g \in FilesOf(l)'
      /\ \A e \in InLevels' : e \in Entries({f}) \/ e \in InLevels
      /\ Entries({f}) \in SUBSET InLevels'
      /\ \A e \in InLevels : e \in Entries({}) \/ e \in InLevels'
  <2>1. \A l \in Levels : \A k \in FilesOf(l), g \in {f} :
          \A e \in k.ents, h \in g.ents : e.s = h.s => k \in {}
    BY <1>6
  <2>2. /\ VersionInv' /\ OneHome'
        /\ \A l \in Levels : \A g \in FilesOf(l)' :
             (g \in FilesOf(l) /\ g \notin {}) \/ (g \in {f} /\ l = at)
        /\ \A l \in Levels : \A g \in FilesOf(l) : g \in {} \/ g \in FilesOf(l)'
        /\ \A e \in InLevels' : e \in Entries({f}) \/ e \in InLevels
        /\ Entries({f}) \in SUBSET InLevels'
        /\ \A e \in InLevels : e \in Entries({}) \/ e \in InLevels'
    BY <1>1, <1>4, <1>7, <1>8, EditStep
  <2>3. QED  BY <2>2
<1>10. Entries({f}) = imm /\ Entries({}) = {}
  BY <1>2 DEF Entries
<1>11. InLevels' = InLevels \cup imm
  BY <1>9, <1>10
<1>12. Store' = Store
  BY <1>0, <1>11 DEF Store
<1>13. Typed' /\ SnapshotsInv'
  BY <1>0, <1>12, FS_EmptySet DEF IInv, Typed, SnapshotsInv
<1>14. UpdatesApart'
  <2>1. NewestInMemory'
    BY <1>0, <1>11 DEF IInv, UpdatesApart, NewestInMemory
  <2>2. Distinct(mem)' /\ Distinct(imm)'
    BY <1>0 DEF IInv, UpdatesApart, Distinct
  <2>3. QED  BY <1>9, <2>1, <2>2 DEF UpdatesApart
<1>15. ASSUME comp # NoCompaction
       PROVE  /\ comp.c.in0 \subseteq FilesOf(comp.c.level)'
              /\ comp.c.in1 \subseteq FilesOf(comp.c.level + 1)'
  <2>1. comp.c.level \in Levels /\ comp.c.level + 1 \in Levels
    BY <1>15, LevelsAssumption DEF IInv, BaseInv, Levels
  <2>2. comp.c.in0 \in SUBSET FilesOf(comp.c.level) /\ comp.c.in1 \in SUBSET FilesOf(comp.c.level + 1)
    BY <1>15 DEF IInv, InputsStay
  <2>3. QED  BY <1>0, <1>9, <2>1, <2>2
<1>16. InputsStay'
  BY <1>0, <1>15 DEF InputsStay
<1>17. ASSUME comp # NoCompaction, NEW l \in Deeper(comp.c.level), NEW g \in FilesOf(l)'
       PROVE  \/ g \in {comp.base[l][i] : i \in DOMAIN comp.base[l]}
              \/ \A e \in g.ents, h \in Input(comp) : h.s < e.s
  <2>1. l \in Levels
    BY <1>17 DEF IInv, BaseInv, Deeper, Levels
  <2>2. CASE g \in FilesOf(l)
    BY <1>17, <2>2 DEF IInv, BaseInv
  <2>3. CASE g = f
    BY <1>2, <1>5, <1>17, <2>3, InputIs
  <2>4. QED  BY <1>9, <2>1, <2>2, <2>3
<1>18. BaseInv'
  <2>1. Live' = Live /\ comp' = comp /\ Input(comp)' = Input(comp)
    BY <1>0 DEF Live, Input
  <2>2. QED  BY <1>17, <2>1 DEF IInv, BaseInv
<1>19. QED  BY <1>9, <1>12, <1>13, <1>14, <1>16, <1>18 DEF IInv

(***************************************************************************)
(* A compaction starts: what it takes is in the version, and it keeps the  *)
(* version and the oldest snapshot as they are now.                        *)
(***************************************************************************)
LEMMA TwoLevels ==
  ASSUME IInv, NEW level \in 0..(NumLevels - 2)
  PROVE  /\ level \in Levels /\ level + 1 \in Levels
         /\ IsFiniteSet(FilesOf(level)) /\ Proper(FilesOf(level))
         /\ Proper(FilesOf(level) \cup FilesOf(level + 1))
<1>1. level \in Levels /\ level + 1 \in Levels
  BY LevelsAssumption DEF Levels
<1>2. /\ \A f \in FilesOf(level) \cup FilesOf(level + 1) : FileOk(f)
      /\ IsFiniteSet(FilesOf(level))
  BY <1>1 DEF IInv, VersionInv
<1>3. \A f, g \in FilesOf(level) \cup FilesOf(level + 1) :
        \A x \in f.ents, y \in g.ents : x.s = y.s => x = y /\ f = g
  BY <1>1 DEF IInv, UpdatesApart, OneHome
<1>4. Proper(FilesOf(level) \cup FilesOf(level + 1))
  BY <1>2, <1>3 DEF Proper
<1>5. Proper(FilesOf(level))
  BY <1>4, ProperPart
<1>6. QED  BY <1>1, <1>2, <1>4, <1>5

LEMMA OldestIs ==
  ASSUME IInv
  PROVE  OldestSnapshot \in Nat /\ \A s \in Live : OldestSnapshot <= s
<1>1. /\ snapshots \in Seq(Nat) /\ seq \in Nat
      /\ \A i \in DOMAIN snapshots : snapshots[i] <= seq
      /\ \A i, j \in DOMAIN snapshots : i < j => snapshots[i] <= snapshots[j]
  BY DEF IInv, Typed, SnapshotsInv
<1>2. CASE snapshots = <<>>
  BY <1>1, <1>2 DEF OldestSnapshot, Live
<1>3. CASE snapshots # <<>>
  <2>1. /\ 1 \in DOMAIN snapshots /\ snapshots[1] \in Nat /\ Head(snapshots) = snapshots[1]
        /\ \A i \in DOMAIN snapshots : snapshots[i] \in Nat /\ (i = 1 \/ 1 < i)
    BY <1>1, <1>3
  <2>2. \A i \in DOMAIN snapshots : snapshots[1] <= snapshots[i]
    BY <1>1, <2>1
  <2>3. OldestSnapshot = snapshots[1]
    BY <1>3, <2>1 DEF OldestSnapshot
  <2>4. QED  BY <1>1, <2>1, <2>2, <2>3 DEF Live
<1>4. QED  BY <1>2, <1>3

LEMMA StartKeeps ==
  ASSUME IInv, UNCHANGED <<options, mem, imm, levels, seq, snapshots>>,
         NEW c, c.level \in 0..(NumLevels - 2), NEW manual,
         c.in0 \in SUBSET FilesOf(c.level), c.in1 \in SUBSET FilesOf(c.level + 1),
         comp' = Running(c, manual)
  PROVE  IInv' /\ Store' = Store
<1>1. Typed' /\ VersionInv' /\ UpdatesApart' /\ Store' = Store
  BY SameContents
<1>2. SnapshotsInv' /\ Live' = Live
  BY DEF IInv, SnapshotsInv, Live
<1>3. comp'.c = c /\ comp'.base = levels /\ comp'.snapshot = OldestSnapshot
  BY DEF Running
<1>4. \A l : FilesOf(l)' = FilesOf(l)
  BY SameVersion
<1>5. InputsStay'
  <2>1. comp'.c.in0 \subseteq ToSet(levels[c.level]) /\ comp'.c.in1 \subseteq ToSet(levels[c.level + 1])
    BY <1>3 DEF FilesOf
  <2>2. /\ comp'.c.in0 \subseteq ToSet(levels'[comp'.c.level])
        /\ comp'.c.in1 \subseteq ToSet(levels'[comp'.c.level + 1])
    BY <1>3, <2>1
  <2>3. QED  BY <2>2 DEF InputsStay, FilesOf
<1>6. BaseInv'
  <2>1. comp'.c.level \in 0..(NumLevels - 2)
    BY <1>3
  <2>2. comp'.snapshot \in Nat /\ \A s \in Live' : comp'.snapshot <= s
    BY <1>2, <1>3, OldestIs
  <2>3. \A l : \A f \in FilesOf(l)' : f \in {comp'.base[l][i] : i \in DOMAIN comp'.base[l]}
    BY <1>3, <1>4 DEF FilesOf, ToSet
  <2>4. QED  BY <2>1, <2>2, <2>3 DEF BaseInv
<1>7. QED  BY <1>1, <1>2, <1>5, <1>6 DEF IInv

\* The file of a level that moves to the next one.
LEMMA MoveKeeps ==
  ASSUME IInv, UNCHANGED <<options, mem, imm, seq, snapshots, comp>>, comp = NoCompaction,
         NEW level \in 0..(NumLevels - 2), NEW F \in SUBSET FilesOf(level),
         levels' = [levels EXCEPT ![level] = SaveTo(level, F, {}),
                                  ![level + 1] = SaveTo(level + 1, {}, F)]
  PROVE  IInv' /\ Store' = Store
<1> DEFINE at == level + 1
<1>1. level \in Levels /\ at \in Levels /\ at # level /\ Proper(FilesOf(level)) /\ IsFiniteSet(FilesOf(level))
  <2>1. level \in Levels /\ at \in Levels /\ Proper(FilesOf(level)) /\ IsFiniteSet(FilesOf(level))
    BY TwoLevels
  <2>2. level \in Nat
    BY LevelsAssumption
  <2>3. at # level
    BY <2>2
  <2>4. QED  BY <2>1, <2>3
<1>2. IsFiniteSet(F) /\ Proper(F)
  BY <1>1, ProperPart, FS_Subset
<1>3. \A l \in Levels : \A f \in FilesOf(l), g \in F :
        \A e \in f.ents, h \in g.ents : e.s = h.s => f \in F
  BY <1>1 DEF IInv, UpdatesApart, OneHome
<1>4. Installed(F, at, F)
  <2>1. DOMAIN levels = Levels /\ \A l \in Levels : Arranges(levels[l], FilesOf(l))
    BY DEF IInv, VersionInv
  <2>2. /\ DOMAIN levels' = Levels
        /\ levels'[at] = SaveTo(at, {}, F) /\ levels'[level] = SaveTo(level, F, {})
        /\ \A l \in Levels \ {at, level} : levels'[l] = levels[l]
    BY <1>1, <2>1
  <2>3. \A l \in Levels : l # level => FilesOf(l) \cap FilesOf(level) = {}
    <3>1. GoodVersion(Version) /\ \A l \in Levels : Version[l] = FilesOf(l)
      BY VersionIsGood DEF IInv, UpdatesApart, Version
    <3>2. \A l \in Levels : l # level => Version[l] \cap Version[level] = {}
      BY <1>1, <3>1, FilesApart
    <3>3. QED  BY <1>1, <3>1, <3>2
  <2>4. ASSUME NEW l \in Levels PROVE Arranges(levels'[l], Edited(Version, F, at, F)[l])
    <3>1. Edited(Version, F, at, F)[l] = IF l = at THEN (FilesOf(at) \ F) \cup F ELSE FilesOf(l) \ F
      BY DEF Edited, Version
    <3>2. CASE l = at
      <4>1. Edited(Version, F, at, F)[l] = (FilesOf(at) \ {}) \cup F
        BY <3>1, <3>2
      <4>2. \A f \in FilesOf(at), g \in F : \A e \in f.ents, h \in g.ents : e.s = h.s => f \in {}
        <5>1. \A f \in FilesOf(at) : f \notin F
          BY <1>1, <2>3
        <5>2. QED  BY <1>1, <1>3, <5>1
      <4> HIDE DEF at
      <4>3. Arranges(SaveTo(at, {}, F), (FilesOf(at) \ {}) \cup F)
        BY <1>1, <1>2, <4>2, SaveToEdits
      <4>4. QED  BY <2>2, <3>2, <4>1, <4>3
    <3>3. CASE l = level
      <4>1. Edited(Version, F, at, F)[l] = (FilesOf(level) \ F) \cup {}
        BY <1>1, <3>1, <3>3
      <4>2. IsFiniteSet({}) /\ Proper({})
        BY FS_EmptySet DEF Proper
      <4>3. Arranges(SaveTo(level, F, {}), (FilesOf(level) \ F) \cup {})
        BY <1>1, <4>2, SaveToEdits
      <4> HIDE DEF at
      <4>4. QED  BY <2>2, <3>3, <4>1, <4>3
    <3>4. CASE l # at /\ l # level
      <4>1. Edited(Version, F, at, F)[l] = FilesOf(l)
        BY <2>3, <3>1, <3>4
      <4> HIDE DEF at
      <4>2. QED  BY <2>1, <2>2, <3>4, <4>1
    <3>5. QED  BY <3>2, <3>3, <3>4
  <2> HIDE DEF at
  <2>5. QED  BY <2>2, <2>4 DEF Installed
<1> HIDE DEF at
<1>5. /\ VersionInv' /\ OneHome'
      /\ \A e \in InLevels' : e \in Entries(F) \/ e \in InLevels
      /\ Entries(F) \in SUBSET InLevels'
      /\ \A e \in InLevels : e \in Entries(F) \/ e \in InLevels'
  BY <1>1, <1>2, <1>3, <1>4, EditStep
<1>6. Entries(F) \in SUBSET InLevels
  BY <1>1, InFile DEF Entries
<1>7. InLevels' = InLevels
  BY <1>5, <1>6
<1>8. Store' = Store
  BY <1>7 DEF Store
<1>9. Typed' /\ SnapshotsInv'
  BY <1>8 DEF IInv, Typed, SnapshotsInv
<1>10. UpdatesApart'
  BY <1>5, <1>7 DEF IInv, UpdatesApart, NewestInMemory, Distinct
<1>11. InputsStay' /\ BaseInv'
  BY DEF InputsStay, BaseInv
<1>12. QED  BY <1>5, <1>8, <1>9, <1>10, <1>11 DEF IInv

LEMMA PickKeeps ==
  ASSUME IInv, UNCHANGED options, NEW level \in 0..(NumLevels - 2), NEW f \in FilesOf(level),
         PickCompaction(level, f)
  PROVE  IInv' /\ Store' = Store
<1> DEFINE inputs == GetOverlappingInputs(FilesOf(0), 0, f.smallest.k, f.largest.k)
           chosen == IF level = 0 THEN inputs ELSE {f}
           c == SetupOtherInputs(level, chosen)
<1>1. /\ comp = NoCompaction /\ UNCHANGED <<options, mem, imm, seq, snapshots>>
      /\ IF IsTrivialMove(c)
         THEN /\ levels' = [levels EXCEPT ![level] = SaveTo(level, c.in0, {}),
                                          ![level + 1] = SaveTo(level + 1, {}, c.in0)]
              /\ comp' = comp
         ELSE comp' = Running(c, FALSE) /\ levels' = levels
  BY Zenon DEF PickCompaction, Idle
<1>2. /\ level \in Levels /\ level + 1 \in Levels
      /\ IsFiniteSet(FilesOf(level)) /\ Proper(FilesOf(level))
      /\ Proper(FilesOf(level) \cup FilesOf(level + 1))
  BY TwoLevels
<1>3. chosen \in SUBSET FilesOf(level) /\ chosen # {}
  <2>1. CASE level = 0
    <3>1. /\ f.smallest \in Update /\ f.largest \in Update /\ f.smallest \in f.ents
          /\ \A e \in f.ents : f.smallest.k <= e.k /\ e.k <= f.largest.k
      BY <1>2, ProperFile, FileIs
    <3>2. /\ f.smallest.k \in Bounds /\ f.largest.k \in Bounds /\ f.smallest.k <= f.largest.k
      BY <3>1, NumKeysAssumption DEF Update, Bounds, Least, Greatest, Keys
    <3>3. Overlaps(f, f.smallest.k, f.largest.k)
      BY <3>2 DEF Overlaps
    <3>4. inputs \in SUBSET FilesOf(0) /\ f \in inputs
      BY <1>2, <2>1, <3>2, <3>3, OverlappingInputs
    <3>5. QED  BY <2>1, <3>4
  <2>2. CASE level # 0
    BY <2>2
  <2>3. QED  BY <2>1, <2>2
<1> HIDE DEF chosen
<1>4. c.level = level /\ c.in0 \in SUBSET FilesOf(level) /\ c.in1 \in SUBSET FilesOf(level + 1)
  BY <1>2, <1>3, OtherInputs
<1> HIDE DEF c
<1>5. CASE IsTrivialMove(c)
  BY <1>1, <1>4, <1>5, MoveKeeps
<1>6. CASE ~IsTrivialMove(c)
  BY <1>1, <1>4, <1>6, StartKeeps
<1>7. QED  BY <1>5, <1>6

LEMMA ManualKeeps ==
  ASSUME IInv, UNCHANGED options, NEW level \in 0..(NumLevels - 2), NEW r \in options.manual_ranges,
         ManualCompaction(level, r[1], r[2])
  PROVE  IInv' /\ Store' = Store
<1> DEFINE found == GetOverlappingInputs(FilesOf(level), level, r[1], r[2])
           inputs == IF level > 0 THEN FirstFiles(found) ELSE found
           c == SetupOtherInputs(level, inputs)
<1>1. /\ found # {} /\ comp' = Running(c, TRUE) /\ UNCHANGED <<options, mem, imm, levels, seq, snapshots>>
  BY Zenon DEF ManualCompaction
<1>2. /\ level \in Levels /\ level + 1 \in Levels
      /\ IsFiniteSet(FilesOf(level)) /\ Proper(FilesOf(level))
      /\ Proper(FilesOf(level) \cup FilesOf(level + 1))
  BY TwoLevels
<1>3. r[1] \in Bounds /\ r[2] \in Bounds
  BY SizesAssumption DEF IInv, Typed
<1>4. found \in SUBSET FilesOf(level)
  BY <1>2, <1>3, OverlappingInputs
<1>5. IsFiniteSet(found) /\ Proper(found)
  <2> HIDE DEF found
  <2>1. QED  BY <1>2, <1>4, ProperPart, FS_Subset
<1> HIDE DEF found
<1>6. inputs \in SUBSET FilesOf(level) /\ inputs # {}
  BY <1>1, <1>4, <1>5, SomeFirstFiles
<1> HIDE DEF inputs
<1>7. c.level = level /\ c.in0 \in SUBSET FilesOf(level) /\ c.in1 \in SUBSET FilesOf(level + 1)
  BY <1>2, <1>6, OtherInputs
<1> HIDE DEF c
<1>8. QED  BY <1>1, <1>7, StartKeeps

(***************************************************************************)
(* A compaction ends: what the drop rules keep of its inputs takes their   *)
(* place, and no other update comes or goes.                               *)
(***************************************************************************)
LEMMA InstallKeeps ==
  ASSUME IInv, UNCHANGED options, InstallCompaction
  PROVE  /\ IInv' /\ Store' \in SUBSET Store
         /\ \A e \in Store : e \in Store' \/ (e \in Input(comp) /\ e \notin Kept(comp))
<1> DEFINE lv == comp.c.level
           at == comp.c.level + 1
           in0 == comp.c.in0
           in1 == comp.c.in1
           R == in0 \cup in1
           A == Outputs(comp)
<1>1. /\ comp # NoCompaction /\ comp' = NoCompaction
      /\ UNCHANGED <<options, mem, imm, seq, snapshots>>
      /\ levels' = [levels EXCEPT ![lv] = SaveTo(lv, in0, {}), ![at] = SaveTo(at, in1, A)]
  BY Zenon DEF InstallCompaction, Compacted
<1>2. lv \in Nat /\ lv \in Levels /\ at \in Levels /\ at # lv
  BY <1>1, LevelsAssumption DEF IInv, BaseInv, Levels
<1>3. in0 \in SUBSET FilesOf(lv) /\ in1 \in SUBSET FilesOf(at)
  BY <1>1 DEF IInv, InputsStay
<1>4. Input(comp) = Entries(R)
  BY DEF Input
<1>5. Entries(A) = Kept(comp) /\ IsFiniteSet(A) /\ Proper(A)
  BY <1>1, InputIs, OutputsAre
<1> HIDE DEF lv, at, in0, in1, A
<1>6. \A h \in Kept(comp) : \E m \in Levels : \E g \in FilesOf(m) : g \in R /\ h \in g.ents
  BY <1>2, <1>3, <1>4 DEF Kept, Entries
<1>7. \A l \in Levels : \A f \in FilesOf(l), g \in A :
        \A e \in f.ents, h \in g.ents : e.s = h.s => f \in R
  <2>1. \A g \in A : \A h \in g.ents : h \in Kept(comp)
    BY <1>5 DEF Entries
  <2>2. QED  BY <1>6, <2>1 DEF IInv, UpdatesApart, OneHome
<1>8. Installed(R, at, A)
  <2>1. DOMAIN levels = Levels /\ \A l \in Levels : Arranges(levels[l], FilesOf(l))
    BY DEF IInv, VersionInv
  <2>2. /\ DOMAIN levels' = Levels
        /\ levels'[at] = SaveTo(at, in1, A) /\ levels'[lv] = SaveTo(lv, in0, {})
        /\ \A l \in Levels \ {at, lv} : levels'[l] = levels[l]
    BY <1>1, <1>2, <2>1
  <2>3. \A l, m \in Levels : l # m => FilesOf(l) \cap FilesOf(m) = {}
    <3>1. GoodVersion(Version) /\ \A l \in Levels : Version[l] = FilesOf(l)
      BY VersionIsGood DEF IInv, UpdatesApart, Version
    <3>2. \A l, m \in Levels : l # m => Version[l] \cap Version[m] = {}
      BY <3>1, FilesApart
    <3>3. QED  BY <3>1, <3>2
  <2>4. ASSUME NEW l \in Levels PROVE Arranges(levels'[l], Edited(Version, R, at, A)[l])
    <3>1. Edited(Version, R, at, A)[l] = IF l = at THEN (FilesOf(at) \ R) \cup A ELSE FilesOf(l) \ R
      BY DEF Edited, Version
    <3>2. CASE l = at
      <4>1. FilesOf(at) \cap FilesOf(lv) = {}
        BY <1>2, <2>3
      <4>2. FilesOf(at) \ R = FilesOf(at) \ in1
        BY <1>3, <4>1
      <4>3. \A f \in FilesOf(at), g \in A : \A e \in f.ents, h \in g.ents : e.s = h.s => f \in in1
        BY <1>2, <1>7, <4>2
      <4>4. Arranges(SaveTo(at, in1, A), (FilesOf(at) \ in1) \cup A)
        BY <1>2, <1>5, <4>3, SaveToEdits
      <4> HIDE DEF R
      <4>5. QED  BY <2>2, <3>1, <3>2, <4>2, <4>4
    <3>3. CASE l = lv
      <4>1. FilesOf(at) \cap FilesOf(lv) = {}
        BY <1>2, <2>3
      <4>2. FilesOf(lv) \ R = (FilesOf(lv) \ in0) \cup {}
        BY <1>3, <4>1
      <4>3. IsFiniteSet({}) /\ Proper({})
        BY FS_EmptySet DEF Proper
      <4>4. Arranges(SaveTo(lv, in0, {}), (FilesOf(lv) \ in0) \cup {})
        BY <1>2, <4>3, SaveToEdits
      <4> HIDE DEF R
      <4>5. QED  BY <1>2, <2>2, <3>1, <3>3, <4>2, <4>4
    <3>4. CASE l # at /\ l # lv
      <4>1. FilesOf(l) \cap FilesOf(at) = {} /\ FilesOf(l) \cap FilesOf(lv) = {}
        BY <1>2, <2>3, <3>4
      <4>2. FilesOf(l) \ R = FilesOf(l)
        BY <1>3, <4>1
      <4> HIDE DEF R
      <4>3. QED  BY <2>1, <2>2, <3>1, <3>4, <4>2
    <3>5. QED  BY <3>2, <3>3, <3>4
  <2> HIDE DEF R
  <2>5. QED  BY <2>2, <2>4 DEF Installed
<1> HIDE DEF R
<1>9. /\ VersionInv' /\ OneHome'
      /\ \A e \in InLevels' : e \in Entries(A) \/ e \in InLevels
      /\ Entries(A) \in SUBSET InLevels'
      /\ \A e \in InLevels : e \in Entries(R) \/ e \in InLevels'
  <2>1. at \in Levels /\ IsFiniteSet(A) /\ Proper(A)
    BY <1>2, <1>5
  <2>2. QED  BY <1>7, <1>8, <2>1, EditStep
<1>10. Kept(comp) \in SUBSET InLevels
  BY <1>6, InFile
<1>11. InLevels' \in SUBSET InLevels
  BY <1>5, <1>9, <1>10
<1>12. \A e \in InLevels : e \in InLevels' \/ (e \in Input(comp) /\ e \notin Kept(comp))
  BY <1>4, <1>5, <1>9
<1>13. /\ Store' \in SUBSET Store
       /\ \A e \in Store : e \in Store' \/ (e \in Input(comp) /\ e \notin Kept(comp))
  BY <1>1, <1>11, <1>12 DEF Store
<1>14. Typed' /\ SnapshotsInv'
  BY <1>1, <1>13 DEF IInv, Typed, SnapshotsInv
<1>15. UpdatesApart'
  BY <1>1, <1>9, <1>11 DEF IInv, UpdatesApart, NewestInMemory, Distinct
<1>16. InputsStay' /\ BaseInv'
  BY <1>1 DEF InputsStay, BaseInv
<1>17. QED  BY <1>9, <1>13, <1>14, <1>15, <1>16 DEF IInv

LEMMA StepKeeps ==
  ASSUME IInv, Next
  PROVE  IInv'
<1>0. Step /\ UNCHANGED options
  BY DEF Next
<1>1. CASE \E k \in Keys, d \in BOOLEAN : Write(k, d)
  BY <1>0, <1>1, WriteKeeps
<1>2. CASE GetSnapshot
  BY <1>0, <1>2, GetSnapshotKeeps
<1>3. CASE \E i \in DOMAIN snapshots : ReleaseSnapshot(i)
  BY <1>0, <1>3, ReleaseSnapshotKeeps
<1>4. CASE SwitchMemTable
  BY <1>0, <1>4, SwitchKeeps
<1>5. CASE CompactMemTable
  BY <1>0, <1>5, CompactMemTableKeeps
<1>6. CASE \E l \in 0..(NumLevels - 2) : \E f \in FilesOf(l) : PickCompaction(l, f)
  BY <1>0, <1>6, PickKeeps
<1>7. CASE \E l \in 0..(NumLevels - 2), r \in options.manual_ranges : ManualCompaction(l, r[1], r[2])
  BY <1>0, <1>7, ManualKeeps
<1>8. CASE InstallCompaction
  BY <1>0, <1>8, InstallKeeps
<1>9. CASE AbandonCompaction
  BY <1>0, <1>9, AbandonKeeps
<1>10. QED  BY <1>0, <1>1, <1>2, <1>3, <1>4, <1>5, <1>6, <1>7, <1>8, <1>9 DEF Step

LEMMA StutterKeeps ==
  ASSUME IInv, UNCHANGED vars
  PROVE  IInv' /\ Store' = Store
<1>0. UNCHANGED <<options, mem, imm, levels, comp, seq, snapshots>>
  BY DEF vars, treeVars
<1>1. Typed' /\ VersionInv' /\ UpdatesApart' /\ Store' = Store
  BY <1>0, SameContents
<1>2. SnapshotsInv' /\ Live' = Live
  BY <1>0 DEF IInv, SnapshotsInv, Live
<1>3. InputsStay' /\ BaseInv'
  <2>1. Live \in SUBSET Nat
    BY LiveIs DEF IInv
  <2>2. \A s \in Live' : s \in Live /\ s <= s
    BY <1>2, <2>1
  <2>3. QED  BY <1>0, <1>2, <2>1, <2>2, CompactionGoesOn
<1>4. QED  BY <1>1, <1>2, <1>3 DEF IInv

LEMMA Invariant == Spec => []IInv
<1>1. IInv /\ [Next]_vars => IInv'
  BY StepKeeps, StutterKeeps
<1>2. QED  BY InitIInv, <1>1, PTL DEF Spec

(***************************************************************************)
(* What the steps leave of the updates that snapshots see.                 *)
(***************************************************************************)
\* The newest update of k that s sees, wherever it is.
Latest(k, s) == {e \in Seen(Store, k, s) : \A f \in Seen(Store, k, s) : f.s <= e.s}

\* It is a deletion that the running compaction drops: what the compaction
\* writes and what is in the levels below its output is newer.
Obsolete(k, s) ==
  \E e \in Latest(k, s) :
    /\ e.d /\ e \notin Store'
    /\ \A f \in Entries(Outputs(comp)) : f.k = k => f.s > e.s
    /\ \A l \in Deeper(comp.c.level) : \A f \in Entries(FilesOf(l)) : f.k = k => f.s > e.s

Served ==
  \A k \in Keys, s \in Live :
    Latest(k, s)' = Latest(k, s) \/ (comp # NoCompaction /\ Obsolete(k, s))

LEMMA LatestExists ==
  ASSUME IInv, NEW k, NEW s \in Nat, Seen(Store, k, s) # {}
  PROVE  Latest(k, s) # {}
<1> DEFINE T == {e.s : e \in Seen(Store, k, s)}
<1>1. T \in SUBSET (0..s) /\ T # {}
  BY StoreDistinct DEF Seen, Update
<1> HIDE DEF T
<1>2. Max(T) \in T /\ \A y \in T : Max(T) >= y
  BY <1>1, MaxOf
<1>3. PICK e \in Seen(Store, k, s) : e.s = Max(T)
  BY <1>2 DEF T
<1>4. \A f \in Seen(Store, k, s) : f.s \in T
  BY DEF T
<1>5. \A f \in Seen(Store, k, s) : f.s <= e.s
  <2>1. \A y \in T : y \in Nat
    BY <1>1
  <2>2. QED  BY <1>2, <1>3, <1>4, <2>1
<1>6. QED  BY <1>5 DEF Latest

LEMMA SameStore ==
  ASSUME Store' = Store
  PROVE  Served
BY DEF Served, Latest, Seen

LEMMA WriteServes ==
  ASSUME IInv, NEW k, NEW d, seq \in Nat, Store' = Store \cup {[k |-> k, s |-> seq + 1, d |-> d]}
  PROVE  Served
<1> DEFINE new == [k |-> k, s |-> seq + 1, d |-> d]
<1>1. new.s = seq + 1 /\ Store' = Store \cup {new}
  OBVIOUS
<1> HIDE DEF new
<1>2. ASSUME NEW q \in Keys, NEW s \in Live PROVE Latest(q, s)' = Latest(q, s)
  <2>1. s \in Nat /\ s <= seq
    BY LiveIs DEF IInv
  <2>2. ~(new.s <= s)
    BY <1>1, <2>1
  <2>3. Seen(Store', q, s) = Seen(Store, q, s)
    BY <1>1, <2>2 DEF Seen
  <2>4. QED  BY <2>3 DEF Latest, Seen
<1>3. QED  BY <1>2 DEF Served

\* A file of the old version that holds k is in the way of IsBaseLevelForKey.
LEMMA DeeperIsNewer ==
  ASSUME IInv, comp # NoCompaction, NEW e \in Input(comp), IsBaseLevelForKey(comp, e.k),
         NEW l \in Deeper(comp.c.level), NEW f \in Entries(FilesOf(l)), f.k = e.k
  PROVE  f.s > e.s
<1>1. l \in Levels
  BY DEF IInv, BaseInv, Deeper, Levels
<1>2. PICK g \in FilesOf(l) : f \in g.ents
  BY DEF Entries
<1>3. FileOk(g) /\ Distinct(g.ents)
  BY <1>1 DEF IInv, VersionInv, UpdatesApart, OneHome, Distinct
<1>4. Overlaps(g, f.k, f.k)
  <2>1. g.smallest.k <= f.k /\ f.k <= g.largest.k
    BY <1>2, <1>3, FileIs
  <2>2. QED  BY <2>1 DEF Overlaps
<1>5. g \notin {comp.base[l][i] : i \in DOMAIN comp.base[l]}
  <2>1. ~SomeFileOverlapsRange(ToSet(comp.base[l]), e.k, e.k)
    BY DEF IsBaseLevelForKey, Deeper
  <2>2. QED  BY <1>4, <2>1 DEF SomeFileOverlapsRange, ToSet
<1>6. e.s < f.s
  BY <1>2, <1>5 DEF IInv, BaseInv
<1>7. e \in Update /\ f \in Update
  BY <1>2, <1>3, InputIs DEF FileOk
<1>8. QED  BY <1>6, <1>7 DEF Update

LEMMA InstallServes ==
  ASSUME IInv, comp # NoCompaction, Store' \in SUBSET Store,
         \A e \in Store : e \in Store' \/ (e \in Input(comp) /\ e \notin Kept(comp))
  PROVE  Served
<1> SUFFICES ASSUME NEW k \in Keys, NEW s \in Live
             PROVE  Latest(k, s)' = Latest(k, s) \/ Obsolete(k, s)
  BY DEF Served
<1>1. s \in Nat /\ s <= seq
  BY LiveIs DEF IInv
<1>2. \A e \in Store : e.s \in Nat
  BY StoreDistinct DEF Update
<1>3. Seen(Store', k, s) \in SUBSET Seen(Store, k, s) /\ \A e \in Seen(Store, k, s) : e.s \in Nat
  BY <1>2 DEF Seen
<1>4. Latest(k, s)' = {e \in Seen(Store', k, s) : \A f \in Seen(Store', k, s) : f.s <= e.s}
  BY DEF Latest, Seen
<1>5. CASE \A e \in Latest(k, s) : e \in Store'
  <2>1. \A e \in Latest(k, s) : e \in Seen(Store', k, s)
    BY <1>5 DEF Latest, Seen
  <2>2. ASSUME NEW e \in Latest(k, s) PROVE e \in Latest(k, s)'
    BY <1>3, <1>4, <2>1 DEF Latest
  <2>3. ASSUME NEW x \in Latest(k, s)' PROVE x \in Latest(k, s)
    <3>1. x \in Seen(Store', k, s) /\ x \in Seen(Store, k, s)
      BY <1>3, <1>4
    <3>2. PICK m : m \in Latest(k, s)
      BY <1>1, <3>1, LatestExists
    <3>3. m \in Seen(Store, k, s) /\ \A f \in Seen(Store, k, s) : f.s <= m.s
      BY <3>2 DEF Latest
    <3>4. m.s <= x.s
      BY <1>4, <2>1, <3>2
    <3>5. \A f \in Seen(Store, k, s) : f.s <= x.s
      BY <1>3, <3>1, <3>3, <3>4
    <3>6. QED  BY <3>1, <3>5 DEF Latest
  <2>4. QED  BY <2>2, <2>3
<1>6. ASSUME NEW e \in Latest(k, s), e \notin Store' PROVE Obsolete(k, s)
  <2>1. e \in Seen(Store, k, s) /\ \A f \in Seen(Store, k, s) : f.s <= e.s
    BY DEF Latest
  <2>2. e \in Store /\ e.k = k /\ e.s <= s
    BY <2>1 DEF Seen
  <2>3. e \in Input(comp) /\ e \notin Kept(comp)
    BY <1>6, <2>2
  <2>4. /\ Input(comp) \in SUBSET InLevels /\ Input(comp) \in SUBSET Update
        /\ Distinct(Input(comp)) /\ IsFiniteSet(Input(comp))
    BY InputIs
  <2>5. comp.snapshot \in Nat /\ comp.snapshot <= s
    BY DEF IInv, BaseInv
  <2>6. \A f \in Input(comp) : f.k = e.k /\ f.s <= s => f.s <= e.s
    BY <2>1, <2>2, <2>4 DEF Store, Seen
  <2>7. /\ e.d /\ IsBaseLevelForKey(comp, e.k)
        /\ \A f \in Kept(comp) : f.k = e.k => f.s > e.s
    BY <1>1, <2>2, <2>3, <2>4, <2>5, <2>6, DropRules
  <2>8. Entries(Outputs(comp)) = Kept(comp)
    BY <2>4, OutputsAre
  <2>9. \A l \in Deeper(comp.c.level) : \A f \in Entries(FilesOf(l)) : f.k = k => f.s > e.s
    BY <2>2, <2>3, <2>7, DeeperIsNewer
  <2>10. QED  BY <1>6, <2>2, <2>7, <2>8, <2>9 DEF Obsolete
<1>7. QED  BY <1>5, <1>6

\* No step but a write adds an update.
OnlyWritesAdd == \A e \in Store' : e \in Store \/ e.s > seq

LEMMA StepServes ==
  ASSUME IInv, Next
  PROVE  Served /\ OnlyWritesAdd
<1>0. Step /\ UNCHANGED options
  BY DEF Next
<1>1. ASSUME NEW k \in Keys, NEW d \in BOOLEAN, Write(k, d) PROVE Served /\ OnlyWritesAdd
  <2>1. seq \in Nat /\ Store' = Store \cup {[k |-> k, s |-> seq + 1, d |-> d]}
    BY <1>0, <1>1, WriteKeeps
  <2>2. Served
    BY <2>1, WriteServes
  <2>3. [k |-> k, s |-> seq + 1, d |-> d].s > seq
    BY <2>1
  <2>4. OnlyWritesAdd
    BY <2>1, <2>3 DEF OnlyWritesAdd
  <2>5. QED  BY <2>2, <2>4
<1>2. ASSUME InstallCompaction PROVE Served /\ OnlyWritesAdd
  <2>1. comp # NoCompaction
    BY <1>2 DEF InstallCompaction
  <2>2. /\ Store' \in SUBSET Store
        /\ \A e \in Store : e \in Store' \/ (e \in Input(comp) /\ e \notin Kept(comp))
    BY <1>0, <1>2, InstallKeeps
  <2>3. QED  BY <2>1, <2>2, InstallServes DEF OnlyWritesAdd
<1>3. ASSUME Store' = Store PROVE Served /\ OnlyWritesAdd
  BY <1>3, SameStore DEF OnlyWritesAdd
<1>4. \/ \E k \in Keys, d \in BOOLEAN : Write(k, d)
      \/ InstallCompaction
      \/ Store' = Store
  <2>1. GetSnapshot => Store' = Store
    BY <1>0, GetSnapshotKeeps
  <2>2. (\E i \in DOMAIN snapshots : ReleaseSnapshot(i)) => Store' = Store
    BY <1>0, ReleaseSnapshotKeeps
  <2>3. (SwitchMemTable \/ CompactMemTable \/ AbandonCompaction) => Store' = Store
    BY <1>0, SwitchKeeps, CompactMemTableKeeps, AbandonKeeps
  <2>4. (\E l \in 0..(NumLevels - 2) : \E f \in FilesOf(l) : PickCompaction(l, f)) => Store' = Store
    BY <1>0, PickKeeps
  <2>5. (\E l \in 0..(NumLevels - 2), r \in options.manual_ranges : ManualCompaction(l, r[1], r[2]))
          => Store' = Store
    BY <1>0, ManualKeeps
  <2>6. QED  BY <1>0, <2>1, <2>2, <2>3, <2>4, <2>5 DEF Step
<1>5. QED  BY <1>1, <1>2, <1>3, <1>4

(***************************************************************************)
(* Theorems.                                                               *)
(***************************************************************************)
\* The number of an update is its own, and an update is in one place: flushes,
\* moves and compactions that come between one another lose track of no file
\* and put no entry into two, and the memtables are newer than the tables.
THEOREM UpdatesStayApart == Spec => []UpdatesApart
<1>1. IInv => UpdatesApart
  BY DEF IInv
<1>2. QED  BY Invariant, <1>1, PTL

\* The inputs of a compaction are in the current version until it ends: the
\* flush of a memtable in the middle of DoCompactionWork takes none away, so
\* the edit of InstallCompactionResults deletes files that are there.
THEOREM InputsStayInVersion == Spec => []InputsStay
<1>1. IInv => InputsStay
  BY DEF IInv
<1>2. QED  BY Invariant, <1>1, PTL

\* No snapshot is older than the one DoCompactionWork drops entries by, though
\* snapshots come and go while the mutex is released.
NoOlderSnapshot == comp # NoCompaction => \A s \in Live : comp.snapshot <= s

THEOREM SnapshotsAreNewer == Spec => []NoOlderSnapshot
<1>1. IInv => NoOlderSnapshot
  BY DEF IInv, BaseInv, NoOlderSnapshot
<1>2. QED  BY Invariant, <1>1, PTL

\* Builder::SaveTo keeps each level in the order of its files' smallest keys,
\* with none of them twice: what FindFile needs of a level.
VersionSorted ==
  \A l \in Levels : \A i, j \in DOMAIN levels[l] :
    i < j => Before(levels[l][i].smallest, levels[l][j].smallest)

THEOREM LevelsStaySorted == Spec => []VersionSorted
<1>1. ASSUME IInv PROVE VersionSorted
  BY <1>1 DEF IInv, VersionInv, Arranges, VersionSorted
<1>2. QED  BY Invariant, <1>1, PTL

\* What DoCompactionWork may drop: the newest update of a key that a snapshot
\* or a reader of the present sees stays in the database through every step,
\* unless it is a deletion that a compaction drops with all that is older of
\* the key in its inputs, and nothing older is in the levels below, which
\* IsBaseLevelForKey looks for in a version that is out of date by then.
THEOREM SnapshotsAreServed == Spec => [][Served]_vars
<1>1. IInv /\ [Next]_vars => [Served]_vars
  BY StepServes
<1>2. QED  BY Invariant, <1>1, PTL DEF Spec

\* Flushes and compactions make no update, nor bring one back that was dropped.
THEOREM NoUpdateReturns == Spec => [][OnlyWritesAdd]_vars
<1>1. IInv /\ [Next]_vars => [OnlyWritesAdd]_vars
  BY StepServes
<1>2. QED  BY Invariant, <1>1, PTL DEF Spec

===============================================================================
