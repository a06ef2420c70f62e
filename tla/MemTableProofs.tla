---------------------------- MODULE MemTableProofs ----------------------------
(***************************************************************************)
(* The memory table for any number of user keys, levels and entries: the   *)
(* inductive invariant of the list, of the insertion and of the walk, and  *)
(* from it that no walk loads a link nobody stored, that the iterator is   *)
(* one of a sorted set, and that Get finds the newest visible entry.       *)
(***************************************************************************)
EXTENDS MemTable, FiniteSetTheorems, TLAPS

(***************************************************************************)
(* The least and the greatest of a set of integers.                        *)
(***************************************************************************)
LEMMA MinIs ==
  ASSUME NEW S \in SUBSET Int, NEW m \in S, \A y \in S : m =< y
  PROVE  Min(S) = m
<1>1. PICK c \in S : c = Min(S) /\ \A y \in S : c =< y
  BY Zenon DEF Min
<1>2. c = m
  BY <1>1
<1>3. QED  BY <1>1, <1>2

LEMMA MaxIs ==
  ASSUME NEW S \in SUBSET Int, NEW m \in S, \A y \in S : m >= y
  PROVE  Max(S) = m
<1>1. PICK c \in S : c = Max(S) /\ \A y \in S : c >= y
  BY Zenon DEF Max
<1>2. c = m
  BY <1>1
<1>3. QED  BY <1>1, <1>2

(***************************************************************************)
(* The inductive invariant.                                                *)
(***************************************************************************)
Writer ==
  [pc : {"idle", "search", "height", "link", "publish"}, key : Keys \cup {Null},
   x : Nodes, level : Levels, height : 0..kMaxHeight, prev : [Levels -> Nodes \cup {Uninit}]]
Typed ==
  /\ next_ \in [Nodes -> [Levels -> Keys \cup {Null, Uninit}]]
  /\ max_height_ \subseteq 1..kMaxHeight
  /\ \E h \in max_height_ : \A g \in max_height_ : h >= g
  /\ w \in Writer
  /\ r \in [move : {"none", "first", "next", "seek", "prev", "last"}, target : Keys \cup {Null},
            x : Nodes, level : Levels]
  /\ node_ \in Keys \cup {Null}

\* What a walk can meet, and the links it can follow.
Linked == Published \cup {head_}
Stored(n, l) == next_[n][l] # Uninit

\* Upwards, along every level; the node behind a link has its own link of that
\* level, and every node its lower ones; level 0 leaves nothing out; and head_
\* has no node behind it above the height.
ListInv ==
  /\ \A n \in Linked, l \in Levels : Stored(n, l) =>
       /\ next_[n][l] \in Published \cup {Null} /\ n < next_[n][l]
       /\ next_[n][l] # Null => Stored(next_[n][l], l)
       /\ \A j \in 0..l : Stored(n, j)
  /\ \A n \in Linked : Stored(n, 0)
  /\ \A n \in Linked, k \in Published : n < k => next_[n][0] <= k
  /\ \A l \in Levels : Stored(head_, l) /\ (l >= Height => next_[head_][l] = Null)

\* prev[l] is the node after which the key goes on level l.
Precedes(l) ==
  /\ w.prev[l] \in Linked /\ w.prev[l] < w.key /\ Stored(w.prev[l], l)
  /\ w.key < next_[w.prev[l]][l]

WriterInv ==
  /\ w.pc = "idle" => w = WriterIdle
  /\ w.pc # "idle" => w.key \in Keys
  /\ w.pc \in {"search", "height"} => w.key \notin Published
  /\ w.pc = "search" =>
       /\ w.level < Height /\ w.x \in Linked /\ w.x < w.key /\ Stored(w.x, w.level)
       /\ \A l \in (w.level + 1)..(Height - 1) : Precedes(l)
  /\ w.pc = "height" => \A l \in 0..(Height - 1) : Precedes(l)
  /\ w.pc \in {"link", "publish"} =>
       /\ w.level < w.height /\ w.height <= Height
       /\ w.key \in Published <=> w.level > 0
       /\ \A l \in w.level..(w.height - 1) : Precedes(l)
       /\ \A l \in Levels : l < w.level => Stored(w.key, l)
       /\ \A l \in Levels : l > w.level => ~Stored(w.key, l)
  /\ w.pc = "link" => ~Stored(w.key, w.level)
  /\ w.pc = "publish" => next_[w.key][w.level] = next_[w.prev[w.level]][w.level]
  /\ \A n \in Keys \ Published : n # w.key \/ w.pc \in {"search", "height"} =>
       \A l \in Levels : ~Stored(n, l)

ReaderInv ==
  /\ r.move = "none" => r = ReaderIdle
  /\ r.move # "none" => r.x \in Linked /\ Stored(r.x, r.level)
  /\ r.move \in {"seek", "prev"} => r.target \in Keys /\ r.x < r.target
  /\ r.move \in OneLink => r.level = 0 /\ r.x = IF r.move = "next" THEN r.target ELSE head_
  /\ node_ \in Published \cup {Null}

ListsInv == Typed /\ ListInv /\ WriterInv /\ ReaderInv

\* The entries: those of the list and the one being inserted, which is newer
\* than what any reader may ask for.
EntriesInv ==
  /\ written = Published \cup (IF w.pc = "idle" THEN {} ELSE {w.key})
  /\ IsFiniteSet(written) /\ last \in 0..MaxSequence
  /\ Cardinality(written) \in {last, last + 1} /\ Cardinality(written) <= MaxSequence
  /\ w.pc # "idle" =>
       Cardinality(written) = last + 1 /\ \E u \in UserKeys : w.key = InternalKey(u, last + 1)
  /\ r.move = "seek" => \E u \in UserKeys, s \in 1..last : r.target = InternalKey(u, s)
(***************************************************************************)
(* The numbers of nodes and levels.                                        *)
(***************************************************************************)
LEMMA KeysArePositive == Keys \subseteq Nat \ {0}
<1> SUFFICES ASSUME NEW k \in Keys PROVE k \in Nat \ {0}
  OBVIOUS
<1>1. PICK u \in UserKeys, s \in Sequences : k = u * (MaxSequence + 1) - s
  BY DEF Keys, InternalKey
<1>2. u \in Nat \ {0} /\ MaxSequence \in Nat /\ s \in 1..MaxSequence
  BY MemTableAssumption DEF Sequences
<1>3. u * (MaxSequence + 1) >= MaxSequence + 1
  BY <1>2
<1>4. QED  BY <1>1, <1>2, <1>3

\* "null n is considered infinite"
LEMMA NullIsLast == Null \in Nat /\ \A k \in Keys : k < Null
<1>1. PICK n \in UserKeys : \A u \in UserKeys : u <= n
  BY MemTableAssumption
<1> DEFINE m == InternalKey(n, 1)
<1>2. MaxSequence \in Nat \ {0} /\ UserKeys \subseteq Nat \ {0} /\ 1 \in Sequences
  BY MemTableAssumption DEF Sequences
<1>3. m \in Keys
  BY <1>2 DEF Keys
<1>4. \A k \in Keys : m >= k
  <2> SUFFICES ASSUME NEW u \in UserKeys, NEW s \in Sequences PROVE m >= InternalKey(u, s)
    BY DEF Keys
  <2>1. s \in Nat /\ s >= 1 /\ u <= n /\ u \in Nat /\ n \in Nat
    BY <1>1, <1>2 DEF Sequences
  <2>2. u * (MaxSequence + 1) <= n * (MaxSequence + 1)
    BY <1>2, <2>1
  <2>3. u * (MaxSequence + 1) \in Nat /\ n * (MaxSequence + 1) \in Nat
    BY <1>2, <2>1
  <2>4. QED  BY <2>1, <2>2, <2>3 DEF InternalKey
<1>5. Keys \in SUBSET Int
  BY KeysArePositive
<1>6. Max(Keys) = m
  BY <1>3, <1>4, <1>5, MaxIs
<1>7. m \in Nat /\ \A k \in Keys : k \in Nat
  BY <1>3, KeysArePositive
<1>8. Null = m + 1
  BY <1>6 DEF Null
<1> HIDE DEF m
<1>9. QED  BY <1>4, <1>7, <1>8

LEMMA Numbers ==
  /\ \A k \in Keys : k \in Nat /\ 0 < k /\ k < Null /\ k # Null /\ k \in Nodes
  /\ \A n \in Nodes : n \in Nat /\ n # Null /\ (n = head_ \/ n \in Keys)
  /\ head_ = 0 /\ head_ \in Nodes /\ head_ \notin Keys /\ Uninit = -1 /\ Null \in Nat /\ 0 < Null
  /\ kMaxHeight \in Nat /\ 0 < kMaxHeight
  /\ 0 \in Levels /\ \A l : l \in Levels <=> l \in Nat /\ l < kMaxHeight
<1>1. kMaxHeight \in Nat \ {0} /\ \E k : k \in Keys
  <2>1. PICK n \in UserKeys : TRUE
    BY MemTableAssumption
  <2>2. InternalKey(n, 1) \in Keys
    BY MemTableAssumption DEF Keys, Sequences
  <2>3. QED  BY <2>2, MemTableAssumption
<1>2. QED  BY <1>1, KeysArePositive, NullIsLast DEF head_, Uninit, Nodes, Levels

LEMMA HeightIs ==
  ASSUME Typed
  PROVE  Height \in max_height_ /\ Height \in 1..kMaxHeight /\ \A g \in max_height_ : Height >= g
<1>1. PICK h \in max_height_ : \A g \in max_height_ : h >= g
  BY DEF Typed
<1>2. max_height_ \in SUBSET Int /\ max_height_ \subseteq 1..kMaxHeight
  BY Numbers DEF Typed
<1>3. Height = h
  BY <1>1, <1>2, MaxIs DEF Height
<1>4. QED  BY <1>1, <1>2, <1>3

\* A store to one link.
LEMMA OneLinkSet ==
  ASSUME NEW N, NEW L, NEW f, f = [n \in N |-> f[n]], \A n \in N : f[n] = [l \in L |-> f[n][l]],
         NEW a \in N, NEW b \in L, NEW v, NEW g, g = [f EXCEPT ![a][b] = v]
  PROVE  \A n \in N, l \in L : g[n][l] = IF n = a /\ l = b THEN v ELSE f[n][l]
OBVIOUS

LEMMA PublishedAre == \A k : k \in Published <=> k \in Keys /\ \E n \in Nodes : next_[n][0] = k
BY DEF Published

LEMMA InitInv == MemInit => ListsInv /\ EntriesInv
<1> SUFFICES ASSUME MemInit PROVE ListsInv /\ EntriesInv
  OBVIOUS
<1> USE Numbers
<1>1. /\ next_ = [n \in Nodes |-> [l \in Levels |-> IF n = head_ THEN Null ELSE Uninit]]
      /\ max_height_ = {1} /\ w = WriterIdle /\ r = ReaderIdle /\ node_ = Null
      /\ last = 0 /\ written = {}
  BY DEF MemInit, Init
<1>2. \A n \in Nodes, l \in Levels : next_[n][l] = IF n = head_ THEN Null ELSE Uninit
  BY <1>1
<1>3. Published = {}
  BY <1>2, PublishedAre
<1>4. Typed
  <2>1. next_ \in [Nodes -> [Levels -> Keys \cup {Null, Uninit}]]
    BY <1>1
  <2>2. w \in Writer
    BY <1>1 DEF WriterIdle, NoPrev, Writer
  <2>3. QED  BY <1>1, <2>1, <2>2 DEF Typed, ReaderIdle
<1>5. Height = 1
  BY <1>1, <1>4, HeightIs
<1>6. ListInv
  BY <1>2, <1>3, <1>5 DEF ListInv, Linked, Stored
<1>7. WriterInv
  BY <1>1, <1>2 DEF WriterInv, WriterIdle, Stored
<1>8. ReaderInv
  BY <1>1 DEF ReaderInv, ReaderIdle, OneLink
<1>9. EntriesInv
  BY <1>1, <1>3, FS_EmptySet, MemTableAssumption DEF EntriesInv, WriterIdle, ReaderIdle
<1>10. QED  BY <1>4, <1>6, <1>7, <1>8, <1>9 DEF ListsInv

(***************************************************************************)
(* Insert, step by step.                                                   *)
(***************************************************************************)
LEMMA ListStands ==
  ASSUME UNCHANGED <<next_, max_height_>>
  PROVE  Published' = Published /\ Linked' = Linked /\ Height' = Height /\ (ListInv => ListInv')
BY DEF ListInv, Published, Linked, Height, Stored

LEMMA StartInsertInv ==
  ASSUME ListsInv, NEW k \in Keys, StartInsert(k)
  PROVE  ListsInv' /\ Published' = Published
<1> USE Numbers DEF ListsInv
<1>1. /\ UNCHANGED <<next_, max_height_, r, node_>> /\ k \notin Published /\ w = WriterIdle
      /\ w' = [WriterIdle EXCEPT !.pc = "search", !.key = k, !.level = Height - 1]
  BY DEF StartInsert, WriterInv
<1>2. Height \in 1..kMaxHeight /\ Height - 1 \in Levels
  BY HeightIs
<1>3. Published' = Published /\ Linked' = Linked /\ Height' = Height /\ ListInv'
  BY <1>1, ListStands
<1>4. w' = [pc |-> "search", key |-> k, x |-> head_, level |-> Height - 1, height |-> 0, prev |-> NoPrev]
  BY <1>1 DEF WriterIdle
<1>5. Typed'
  <2>1. NoPrev \in [Levels -> Nodes \cup {Uninit}] /\ 0 \in 0..kMaxHeight
    BY DEF NoPrev
  <2>2. w' \in Writer
    BY <1>2, <1>4, <2>1 DEF Writer
  <2>3. QED  BY <1>1, <2>2 DEF Typed
<1>6. WriterInv'
  <2>1. head_ \in Linked /\ head_ < k /\ next_[head_][Height - 1] # Uninit
    BY <1>2 DEF Linked, ListInv, Stored
  <2>2. /\ w'.pc = "search" /\ w'.key = k /\ w'.x = head_ /\ w'.level = Height - 1
        /\ w'.level < Height' /\ \A l : l \notin (w'.level + 1)..(Height' - 1)
    BY <1>2, <1>3, <1>4
  <2>3. \A n \in Keys \ Published, l \in Levels : next_[n][l] = Uninit
    BY <1>1 DEF WriterInv, WriterIdle, Stored
  <2>4. QED  BY <1>1, <1>3, <2>1, <2>2, <2>3 DEF WriterInv, Stored
<1>7. ReaderInv'
  BY <1>1, <1>3 DEF ReaderInv, Stored
<1>8. QED  BY <1>3, <1>5, <1>6, <1>7

LEMMA FindPrevInv ==
  ASSUME ListsInv, FindPrev
  PROVE  ListsInv' /\ Published' = Published
<1> USE Numbers DEF ListsInv
<1> DEFINE n == next_[w.x][w.level]
<1>1. /\ UNCHANGED <<next_, max_height_, r, node_>> /\ w.pc = "search"
      /\ w.key \in Keys /\ w.key \notin Published /\ w.x \in Linked /\ w.x < w.key
      /\ w.level \in Levels /\ w.level < Height /\ Stored(w.x, w.level) /\ Height \in 1..kMaxHeight
      /\ w \in Writer
  BY HeightIs DEF FindPrev, WriterInv, Typed, Writer
<1>2. n \in Published \cup {Null} /\ (n # Null => Stored(n, w.level)) /\ \A j \in 0..w.level : Stored(w.x, j)
  BY <1>1 DEF ListInv
<1>3. Published' = Published /\ Linked' = Linked /\ Height' = Height /\ ListInv'
  BY <1>1, ListStands
<1>4. Published \subseteq Keys
  BY DEF Published
<1>5. ReaderInv'
  BY <1>1, <1>3 DEF ReaderInv, Stored
<1>6. \A m \in Keys \ Published, l \in Levels : next_[m][l] = Uninit
  BY <1>1 DEF WriterInv, Stored
<1>7. \A l \in (w.level + 1)..(Height - 1) : Precedes(l)
  BY <1>1 DEF WriterInv
<1>8. CASE KeyIsAfterNode(w.key, n)
  <2>1. n \in Published /\ n < w.key /\ w' = [w EXCEPT !.x = n]
    BY <1>2, <1>8 DEF KeyIsAfterNode, FindPrev
  <2>2. w' \in Writer /\ n \in Nodes
    BY <1>1, <1>4, <2>1 DEF Writer
  <2>3. /\ w'.pc = "search" /\ w'.key = w.key /\ w'.x = n /\ w'.level = w.level /\ w'.prev = w.prev
    BY <1>1, <2>1 DEF Writer
  <2>4. Typed'
    BY <1>1, <2>2 DEF Typed
  <2>5. \A l \in (w.level + 1)..(Height - 1) : Precedes(l)'
    BY <1>1, <1>3, <1>7, <2>3 DEF Precedes, Stored
  <2>6. WriterInv'
    BY <1>1, <1>2, <1>3, <1>6, <2>1, <2>3, <2>5 DEF WriterInv, Linked, Stored
  <2>7. QED  BY <1>3, <1>5, <2>4, <2>6
<1>9. CASE ~KeyIsAfterNode(w.key, n)
  <2>1. w.key < n
    BY <1>1, <1>2, <1>4, <1>9 DEF KeyIsAfterNode
  <2>2. w' = [w EXCEPT !.prev[w.level] = w.x,
                       !.level = IF @ = 0 THEN 0 ELSE @ - 1,
                       !.pc = IF w.level = 0 THEN "height" ELSE "search"]
    BY <1>9 DEF FindPrev
  <2>3. /\ w'.pc = (IF w.level = 0 THEN "height" ELSE "search")
        /\ w'.level = (IF w.level = 0 THEN 0 ELSE w.level - 1)
        /\ w'.key = w.key /\ w'.x = w.x /\ w'.height = w.height
        /\ w'.prev = [w.prev EXCEPT ![w.level] = w.x]
        /\ \A l \in Levels : w'.prev[l] = IF l = w.level THEN w.x ELSE w.prev[l]
    BY <1>1, <2>2 DEF Writer
  <2>4. Typed'
    <3>1. w.x \in Nodes /\ w'.level \in Levels
      BY <1>1, <2>3 DEF Writer
    <3>2. w'.prev \in [Levels -> Nodes \cup {Uninit}]
      BY <1>1, <2>3, <3>1 DEF Writer
    <3>3. w' = [pc |-> w'.pc, key |-> w'.key, x |-> w'.x, level |-> w'.level, height |-> w'.height, prev |-> w'.prev]
      BY <1>1, <2>2 DEF Writer
    <3>4. w' \in Writer
      BY <1>1, <2>3, <3>1, <3>2, <3>3 DEF Writer
    <3>5. QED  BY <1>1, <3>4 DEF Typed
  <2>5. \A l \in Levels : l >= w.level /\ l < Height => Precedes(l)'
    <3> SUFFICES ASSUME NEW l \in Levels, l >= w.level, l < Height PROVE Precedes(l)'
      OBVIOUS
    <3>1. CASE l = w.level
      BY <1>1, <1>3, <2>1, <2>3, <3>1 DEF Precedes, Stored
    <3>2. CASE l # w.level
      <4>1. Precedes(l)
        BY <1>1, <1>7, <3>2
      <4>2. QED  BY <1>1, <1>3, <2>3, <3>2, <4>1 DEF Precedes, Stored
    <3>3. QED  BY <3>1, <3>2
  <2>6. WriterInv'
    <3>1. CASE w.level = 0
      BY <1>1, <1>3, <1>6, <2>3, <2>5, <3>1 DEF WriterInv, Stored
    <3>2. CASE w.level > 0
      BY <1>1, <1>2, <1>3, <1>6, <2>3, <2>5, <3>2 DEF WriterInv, Stored
    <3>3. QED  BY <1>1, <3>1, <3>2
  <2>7. QED  BY <1>3, <1>5, <2>4, <2>6
<1>10. QED  BY <1>8, <1>9

LEMMA SetHeightInv ==
  ASSUME ListsInv, SetHeight
  PROVE  ListsInv' /\ Published' = Published
<1> USE Numbers DEF ListsInv
<1>1. PICK h \in 1..kMaxHeight :
        /\ max_height_' = IF h > Height THEN max_height_ \cup {h} ELSE max_height_
        /\ w' = [w EXCEPT !.pc = "link", !.level = 0, !.height = h,
                          !.prev = [l \in Levels |-> IF l \in Height..(h - 1) THEN head_ ELSE @[l]]]
  BY DEF SetHeight
<1>2. /\ UNCHANGED <<next_, r, node_>> /\ w.pc = "height" /\ w.key \in Keys /\ w.key \notin Published
      /\ \A l \in 0..(Height - 1) : Precedes(l)
  BY DEF SetHeight, WriterInv
<1>3. /\ Published' = Published /\ Linked' = Linked /\ \A n, l : Stored(n, l)' <=> Stored(n, l)
  BY <1>2 DEF Published, Linked, Stored
<1>4. Height \in 1..kMaxHeight /\ Height \in max_height_ /\ \A g \in max_height_ : Height >= g
  BY HeightIs
<1>5. Typed'
  <2>1. /\ max_height_' \subseteq 1..kMaxHeight
        /\ \E m \in max_height_' : \A g \in max_height_' : m >= g
    BY <1>1, <1>4 DEF Typed
  <2>2. w' \in Writer
    <3>1. w \in Writer
      BY DEF Typed
    <3>2. [l \in Levels |-> IF l \in Height..(h - 1) THEN head_ ELSE w.prev[l]] \in [Levels -> Nodes \cup {Uninit}]
      BY <3>1 DEF Writer
    <3>3. w' = [pc |-> "link", key |-> w.key, x |-> w.x, level |-> 0, height |-> h,
                prev |-> [l \in Levels |-> IF l \in Height..(h - 1) THEN head_ ELSE w.prev[l]]]
      BY <1>1, <3>1 DEF Writer
    <3>4. h \in 0..kMaxHeight
      OBVIOUS
    <3>5. QED  BY <3>1, <3>2, <3>3, <3>4 DEF Writer
  <2>3. QED  BY <1>2, <2>1, <2>2 DEF Typed
<1>6. Height' \in max_height_' /\ (\A g \in max_height_' : Height' >= g) /\ Height' \in 1..kMaxHeight
  <2>1. \E m \in max_height_' : \A g \in max_height_' : m >= g
    BY <1>5 DEF Typed
  <2>2. PICK m \in max_height_' : \A g \in max_height_' : m >= g
    BY <2>1
  <2>3. max_height_' \in SUBSET Int /\ max_height_' \subseteq 1..kMaxHeight
    BY <1>5 DEF Typed
  <2>4. Max(max_height_') = m
    BY <2>2, <2>3, MaxIs
  <2>5. QED  BY <2>2, <2>3, <2>4 DEF Height
<1>7. Height' >= h /\ Height' >= Height
  BY <1>1, <1>4, <1>6
<1>8. ListInv'
  BY <1>2, <1>3, <1>4, <1>6, <1>7 DEF ListInv
<1>9. WriterInv'
  <2>1. /\ w'.pc = "link" /\ w'.level = 0 /\ w'.height = h /\ w'.key = w.key
        /\ \A l \in Levels : w'.prev[l] = IF l \in Height..(h - 1) THEN head_ ELSE w.prev[l]
    BY <1>1 DEF Typed, Writer
  <2>2. \A l \in 0..(h - 1) : Precedes(l)'
    <3> SUFFICES ASSUME NEW l \in 0..(h - 1) PROVE Precedes(l)'
      OBVIOUS
    <3>1. l \in Levels
      BY <1>1
    <3>2. CASE l < Height
      BY <1>2, <1>3, <1>4, <2>1, <3>1, <3>2 DEF Precedes, Stored
    <3>3. CASE l >= Height
      <4>1. w'.prev[l] = head_ /\ Stored(head_, l) /\ next_[head_][l] = Null /\ head_ \in Linked
        BY <1>4, <2>1, <3>1, <3>3 DEF ListInv, Linked
      <4>2. QED  BY <1>2, <1>3, <2>1, <4>1 DEF Precedes, Stored
    <3>4. QED  BY <1>4, <3>2, <3>3
  <2>3. \A n \in Keys \ Published, l \in Levels : ~Stored(n, l)
    BY <1>2 DEF WriterInv
  <2>4. QED  BY <1>2, <1>3, <1>7, <2>1, <2>2, <2>3 DEF WriterInv
<1>10. ReaderInv'
  BY <1>2, <1>3 DEF ReaderInv
<1>11. QED  BY <1>3, <1>5, <1>8, <1>9, <1>10

LEMMA LinkNodeInv ==
  ASSUME ListsInv, LinkNode
  PROVE  ListsInv' /\ Published' = Published
<1> USE Numbers DEF ListsInv
<1> DEFINE k == w.key
           b == w.level
           a == w.prev[w.level]
           s == next_[a][b]
<1>1. /\ UNCHANGED <<max_height_, r, node_>> /\ w.pc = "link" /\ w' = [w EXCEPT !.pc = "publish"]
      /\ next_' = [next_ EXCEPT ![k][b] = s]
  BY DEF LinkNode
<1>2. /\ k \in Keys /\ b \in Levels /\ b < w.height /\ w.height <= Height /\ w.height \in Nat
      /\ (k \in Published <=> b > 0) /\ ~Stored(k, b) /\ b \in b..(w.height - 1)
      /\ (\A l \in b..(w.height - 1) : Precedes(l))
      /\ (\A l \in Levels : l < b => Stored(k, l)) /\ \A l \in Levels : l > b => ~Stored(k, l)
  BY <1>1 DEF WriterInv, Typed, Writer
<1>3. a \in Linked /\ a < k /\ Stored(a, b) /\ k < s
  BY <1>2 DEF Precedes
<1>4. s \in Published \cup {Null} /\ (s # Null => Stored(s, b))
  BY <1>2, <1>3 DEF ListInv
<1>5. Published \subseteq Keys /\ Linked \subseteq Nodes
  BY DEF Published, Linked
<1>6. \A n \in Nodes, l \in Levels : next_'[n][l] = IF n = k /\ l = b THEN s ELSE next_[n][l]
  BY <1>1, <1>2 DEF Typed
<1> HIDE DEF s, k, b, a
<1>7. \A x : x \in Published' <=> x \in Published
  <2>1. \A x : x \in Published' <=> x \in Keys /\ \E n \in Nodes : next_'[n][0] = x
    BY PublishedAre DEF Published
  <2>2. CASE b = 0
    <3>1. next_[k][0] = Uninit /\ s \in Published \cup {Null}
      BY <1>2, <1>4, <2>2 DEF Stored
    <3>2. \A n \in Nodes : next_'[n][0] = IF n = k THEN s ELSE next_[n][0]
      BY <1>6, <2>2
    <3>3. QED  BY <1>5, <2>1, <3>1, <3>2, PublishedAre
  <2>3. CASE b # 0
    <3>1. \A n \in Nodes : next_'[n][0] = next_[n][0]
      BY <1>6, <2>3
    <3>2. QED  BY <2>1, <3>1, PublishedAre
  <2>4. QED  BY <2>2, <2>3
<1>8. Published' = Published /\ Linked' = Linked /\ Height' = Height
  BY <1>1, <1>7 DEF Linked, Height
<1>9. \A n \in Nodes, l \in Levels : next_[n][l] # Uninit => next_'[n][l] = next_[n][l]
  BY <1>2, <1>6 DEF Stored
<1>10. w' \in Writer /\ w'.pc = "publish" /\ w'.key = k /\ w'.level = b /\ w'.height = w.height
       /\ w'.prev = w.prev /\ w'.prev[b] = a
  BY <1>1 DEF Typed, Writer, k, b, a
<1>11. Typed'
  <2>1. s \in Keys \cup {Null, Uninit}
    BY <1>4, <1>5
  <2>2. next_' \in [Nodes -> [Levels -> Keys \cup {Null, Uninit}]]
    BY <1>1, <1>2, <2>1 DEF Typed
  <2>3. QED  BY <1>1, <1>10, <2>2 DEF Typed
<1>12. ListInv'
  <2>1. ASSUME NEW n \in Linked, NEW l \in Levels, next_'[n][l] # Uninit
        PROVE  /\ next_'[n][l] \in Published \cup {Null} /\ n < next_'[n][l]
               /\ next_'[n][l] # Null => next_'[next_'[n][l]][l] # Uninit
               /\ \A j \in 0..l : next_'[n][j] # Uninit
    <3>1. CASE n = k /\ l = b
      <4>1. next_'[n][l] = s
        BY <1>2, <1>6, <3>1
      <4>2. s # Null => next_'[s][b] # Uninit
        BY <1>2, <1>4, <1>5, <1>9 DEF Stored
      <4>3. \A j \in 0..b : j \in Levels /\ next_'[k][j] # Uninit
        BY <1>2, <1>4, <1>5, <1>6 DEF Stored
      <4>4. QED  BY <1>3, <1>4, <3>1, <4>1, <4>2, <4>3
    <3>2. CASE ~(n = k /\ l = b)
      <4>1. next_'[n][l] = next_[n][l]
        BY <1>5, <1>6, <3>2
      <4>2. /\ next_[n][l] \in Published \cup {Null} /\ n < next_[n][l]
            /\ next_[n][l] # Null => Stored(next_[n][l], l)
            /\ \A j \in 0..l : Stored(n, j)
        BY <2>1, <4>1 DEF ListInv, Stored
      <4>3. \A j \in 0..l : next_'[n][j] # Uninit
        <5>1. \A j \in 0..l : j \in Levels
          OBVIOUS
        <5>2. QED  BY <1>5, <1>9, <4>2, <5>1 DEF Stored
      <4>4. \A m \in Published : next_[m][l] # Uninit => next_'[m][l] # Uninit
        BY <1>5, <1>9
      <4>5. QED  BY <4>1, <4>2, <4>3, <4>4 DEF Stored
    <3>3. QED  BY <3>1, <3>2
  <2>2. \A n \in Linked : next_[n][0] # Uninit /\ next_'[n][0] = next_[n][0]
    BY <1>5, <1>9 DEF ListInv, Stored
  <2>3. \A n \in Linked, m \in Published : n < m => next_'[n][0] <= m
    BY <2>2 DEF ListInv
  <2>4. \A l \in Levels : next_'[head_][l] # Uninit /\ (l >= Height => next_'[head_][l] = Null)
    BY <1>9 DEF ListInv, Stored
  <2>5. QED  BY <1>8, <2>1, <2>2, <2>3, <2>4 DEF ListInv, Stored
<1>13. WriterInv'
  <2>1. \A l \in b..(w.height - 1) : Precedes(l)'
    <3> SUFFICES ASSUME NEW l \in b..(w.height - 1) PROVE Precedes(l)'
      OBVIOUS
    <3>1. l \in Levels /\ Precedes(l)
      BY <1>2 DEF Typed, Writer
    <3>2. w.prev[l] \in Linked /\ w.prev[l] < k /\ next_[w.prev[l]][l] # Uninit /\ k < next_[w.prev[l]][l]
      BY <3>1 DEF Precedes, Stored, k
    <3>3. next_'[w.prev[l]][l] = next_[w.prev[l]][l]
      BY <1>5, <1>9, <3>1, <3>2
    <3>4. QED  BY <1>8, <1>10, <3>2, <3>3 DEF Precedes, Stored
  <2>2. \A l \in Levels : (l < b => next_'[k][l] # Uninit) /\ (l > b => next_'[k][l] = Uninit)
    BY <1>2, <1>6 DEF Stored
  <2>3. next_'[k][b] = s /\ next_'[a][b] = s
    BY <1>2, <1>3, <1>5, <1>6 DEF s
  <2>4. \A n \in Keys \ Published, l \in Levels : n # k => next_'[n][l] = Uninit
    BY <1>6 DEF WriterInv, Stored, k
  <2>5. QED  BY <1>2, <1>8, <1>10, <2>1, <2>2, <2>3, <2>4 DEF WriterInv, Stored
<1>14. ReaderInv'
  BY <1>1, <1>5, <1>8, <1>9 DEF ReaderInv, Typed, Stored
<1>15. QED  BY <1>8, <1>11, <1>12, <1>13, <1>14

\* The key is published with its link of level 0, between two neighbours.
LEMMA PublishInv ==
  ASSUME ListsInv, Publish
  PROVE  /\ ListsInv'
         /\ Published' = Published \cup {w.key}
         /\ w'.pc # "idle" => w'.key = w.key
<1> USE Numbers DEF ListsInv
<1> DEFINE k == w.key
           b == w.level
           a == w.prev[w.level]
           s == next_[a][b]
<1>1. /\ UNCHANGED <<max_height_, r, node_>> /\ w.pc = "publish"
      /\ next_' = [next_ EXCEPT ![a][b] = k]
      /\ w' = IF b + 1 < w.height THEN [w EXCEPT !.pc = "link", !.level = @ + 1] ELSE WriterIdle
  BY DEF Publish
<1>2. /\ k \in Keys /\ b \in Levels /\ b < w.height /\ w.height <= Height /\ w.height \in Nat
      /\ (k \in Published <=> b > 0) /\ next_[k][b] = s /\ b \in b..(w.height - 1)
      /\ (\A l \in b..(w.height - 1) : Precedes(l))
      /\ (\A l \in Levels : l < b => Stored(k, l)) /\ \A l \in Levels : l > b => ~Stored(k, l)
  BY <1>1 DEF WriterInv, Typed, Writer
<1>3. a \in Linked /\ a < k /\ s # Uninit /\ k < s
  BY <1>2 DEF Precedes, Stored
<1>4. s \in Published \cup {Null} /\ (s # Null => Stored(s, b)) /\ \A j \in 0..b : Stored(a, j)
  BY <1>2, <1>3 DEF ListInv, Stored
<1>5. Published \subseteq Keys /\ Linked \subseteq Nodes /\ a \in Nodes /\ k \in Nodes /\ w \in Writer
  BY <1>2, <1>3 DEF Published, Linked, Typed
<1>6. \A n \in Nodes, l \in Levels : next_'[n][l] = IF n = a /\ l = b THEN k ELSE next_[n][l]
  BY <1>1, <1>2, <1>5 DEF Typed
<1>7. /\ b + 1 < w.height => /\ w'.pc = "link" /\ w'.key = k /\ w'.level = b + 1 /\ w'.height = w.height
                             /\ w'.prev = w.prev /\ w' \in Writer
      /\ b + 1 >= w.height => w' = WriterIdle
  <2>1. w.height <= kMaxHeight
    BY <1>5 DEF Writer
  <2>2. b + 1 < w.height => b + 1 \in Levels
    BY <1>2, <2>1
  <2>3. CASE b + 1 < w.height
    <3>1. w' = [w EXCEPT !.pc = "link", !.level = @ + 1] /\ b + 1 \in Levels
      BY <1>1, <2>2, <2>3
    <3>2. w' \in Writer
      BY <1>5, <3>1 DEF Writer
    <3>3. w'.pc = "link" /\ w'.key = k /\ w'.level = b + 1 /\ w'.height = w.height /\ w'.prev = w.prev
      BY <1>5, <3>1 DEF Writer
    <3>4. ~(b + 1 >= w.height)
      BY <1>2, <2>3
    <3>5. QED  BY <3>2, <3>3, <3>4
  <2>4. CASE b + 1 >= w.height
    BY <1>1, <1>2, <2>4
  <2>5. QED  BY <1>2, <2>3, <2>4
<1> HIDE DEF s, k, b, a
<1>8. \A x : x \in Published' <=> x \in Published \cup {k}
  <2>1. \A x : x \in Published' <=> x \in Keys /\ \E n \in Nodes : next_'[n][0] = x
    BY PublishedAre DEF Published
  <2>2. CASE b = 0
    <3>1. next_[a][0] = s /\ next_[k][0] = s /\ a # k
      BY <1>2, <1>3, <1>5, <2>2 DEF s
    <3>2. \A n \in Nodes : next_'[n][0] = IF n = a THEN k ELSE next_[n][0]
      BY <1>6, <2>2
    <3>3. QED  BY <1>2, <1>5, <2>1, <3>1, <3>2, PublishedAre
  <2>3. CASE b # 0
    <3>1. \A n \in Nodes : next_'[n][0] = next_[n][0]
      BY <1>6, <2>3
    <3>2. k \in Published
      BY <1>2, <2>3
    <3>3. QED  BY <2>1, <3>1, <3>2, PublishedAre
  <2>4. QED  BY <2>2, <2>3
<1>9. Published' = Published \cup {k} /\ Linked' = Linked \cup {k} /\ Height' = Height
  BY <1>1, <1>8 DEF Linked, Height
<1>10. \A n \in Nodes, l \in Levels : next_'[n][l] # Uninit <=> next_[n][l] # Uninit
  BY <1>2, <1>3, <1>6 DEF s
<1>11. Typed'
  <2>1. next_' \in [Nodes -> [Levels -> Keys \cup {Null, Uninit}]]
    BY <1>1, <1>2 DEF Typed
  <2>2. WriterIdle \in Writer
    <3>1. NoPrev \in [Levels -> Nodes \cup {Uninit}] /\ 0 \in 0..kMaxHeight
      BY DEF NoPrev
    <3>2. QED  BY <3>1 DEF WriterIdle, Writer
  <2>3. w' \in Writer
    BY <1>2, <1>7, <2>2
  <2>4. QED  BY <1>1, <2>1, <2>3 DEF Typed
<1>12. ListInv'
  <2>1. ASSUME NEW n \in Linked \cup {k}, NEW l \in Levels, next_'[n][l] # Uninit
        PROVE  /\ next_'[n][l] \in Published \cup {k, Null} /\ n < next_'[n][l]
               /\ next_'[n][l] # Null => next_'[next_'[n][l]][l] # Uninit
               /\ \A j \in 0..l : next_'[n][j] # Uninit
    <3>0. \A j \in 0..l : j \in Levels
      OBVIOUS
    <3>1. CASE n = a /\ l = b
      <4>1. next_'[n][l] = k /\ next_'[k][b] # Uninit
        BY <1>2, <1>3, <1>5, <1>6, <1>10, <3>1
      <4>2. \A j \in 0..b : next_'[a][j] # Uninit
        BY <1>4, <1>5, <1>10, <3>0, <3>1 DEF Stored
      <4>3. QED  BY <1>3, <3>1, <4>1, <4>2
    <3>2. CASE n \in Linked /\ ~(n = a /\ l = b)
      <4>1. next_'[n][l] = next_[n][l]
        BY <1>5, <1>6, <3>2
      <4>2. /\ next_[n][l] \in Published \cup {Null} /\ n < next_[n][l]
            /\ next_[n][l] # Null => Stored(next_[n][l], l)
            /\ \A j \in 0..l : Stored(n, j)
        BY <2>1, <3>2, <4>1 DEF ListInv, Stored
      <4>3. \A j \in 0..l : next_'[n][j] # Uninit
        BY <1>5, <1>10, <3>0, <3>2, <4>2 DEF Stored
      <4>4. \A m \in Published : next_[m][l] # Uninit => next_'[m][l] # Uninit
        BY <1>5, <1>10
      <4>5. QED  BY <4>1, <4>2, <4>3, <4>4 DEF Stored
    <3>3. CASE n = k /\ n \notin Linked
      <4>1. b = 0 /\ n # a
        BY <1>2, <1>3, <3>3 DEF Linked
      <4>2. l = 0 /\ next_'[n][l] = s
        BY <1>2, <1>5, <1>6, <1>10, <2>1, <3>3, <4>1 DEF Stored
      <4>3. s # Null => next_'[s][0] # Uninit
        BY <1>4, <1>5, <1>10, <4>1 DEF Stored
      <4>4. QED  BY <1>3, <1>4, <2>1, <3>3, <4>2, <4>3
    <3>4. QED  BY <3>1, <3>2, <3>3
  <2>2. \A n \in Linked \cup {k} : next_'[n][0] # Uninit
    <3>1. next_[k][0] # Uninit
      BY <1>2, <1>3 DEF Stored
    <3>2. QED  BY <1>5, <1>10, <3>1 DEF ListInv, Stored
  <2>3. ASSUME NEW n \in Linked \cup {k}, NEW m \in Published \cup {k}, n < m
        PROVE  next_'[n][0] <= m
    <3>1. n \in Nat /\ m \in Nat /\ k \in Nat /\ s \in Nat /\ a \in Nat
      BY <1>2, <1>4, <1>5, <2>3
    <3>2. CASE b # 0
      <4>1. k \in Published /\ next_'[n][0] = next_[n][0]
        BY <1>2, <1>5, <1>6, <2>3, <3>2
      <4>2. QED  BY <2>3, <4>1 DEF ListInv, Linked
    <3>3. CASE b = 0 /\ n = a
      <4>1. next_'[n][0] = k
        BY <1>5, <1>6, <3>3
      <4>2. m # k => s <= m
        BY <1>3, <2>3, <3>3 DEF ListInv, s
      <4>3. QED  BY <1>3, <3>1, <4>1, <4>2
    <3>4. CASE b = 0 /\ n = k
      <4>1. next_'[n][0] = s /\ a < m /\ m \in Published
        BY <1>2, <1>3, <1>5, <1>6, <2>3, <3>1, <3>4
      <4>2. s <= m
        BY <1>3, <3>4, <4>1 DEF ListInv, s
      <4>3. QED  BY <4>1, <4>2
    <3>5. CASE b = 0 /\ n # a /\ n # k
      <4>1. next_'[n][0] = next_[n][0] /\ n \in Linked
        BY <1>5, <1>6, <2>3, <3>5
      <4>2. CASE m \in Published
        BY <2>3, <4>1, <4>2 DEF ListInv
      <4>3. CASE m = k /\ n < a
        <5>1. a \in Published
          BY <1>3, <3>1, <4>3 DEF Linked
        <5>2. next_[n][0] <= a
          BY <4>1, <4>3, <5>1 DEF ListInv
        <5>3. next_[n][0] \in Nat
          BY <1>5, <4>1 DEF ListInv
        <5>4. QED  BY <1>3, <3>1, <4>1, <4>3, <5>2, <5>3
      <4>4. CASE m = k /\ a < n
        <5>1. n \in Published
          BY <3>1, <4>1, <4>4 DEF Linked
        <5>2. s <= n
          BY <1>3, <3>5, <4>4, <5>1 DEF ListInv, s
        <5>3. QED  BY <1>3, <2>3, <3>1, <4>4, <5>2
      <4>5. QED  BY <2>3, <3>1, <3>5, <4>2, <4>3, <4>4
    <3>6. QED  BY <3>2, <3>3, <3>4, <3>5
  <2>4. \A l \in Levels : next_'[head_][l] # Uninit /\ (l >= Height => next_'[head_][l] = Null)
    BY <1>2, <1>6, <1>10, HeightIs DEF ListInv, Stored
  <2>5. QED  BY <1>9, <2>1, <2>2, <2>3, <2>4 DEF ListInv, Stored
<1>13. \A n \in Keys \ Published', l \in Levels : next_'[n][l] = Uninit
  BY <1>1, <1>5, <1>6, <1>9, <1>3 DEF WriterInv, Stored, Linked, k
<1>14. WriterInv'
  <2>1. CASE b + 1 < w.height
    <3>1. \A l \in (b + 1)..(w.height - 1) : Precedes(l)'
      <4> SUFFICES ASSUME NEW l \in (b + 1)..(w.height - 1) PROVE Precedes(l)'
        OBVIOUS
      <4>1. l \in Levels /\ l # b /\ Precedes(l)
        BY <1>2, <1>5 DEF Writer
      <4>2. w.prev[l] \in Linked /\ w.prev[l] < k /\ next_[w.prev[l]][l] # Uninit /\ k < next_[w.prev[l]][l]
        BY <4>1 DEF Precedes, Stored, k
      <4>3. next_'[w.prev[l]][l] = next_[w.prev[l]][l]
        BY <1>5, <1>6, <4>1, <4>2
      <4>4. QED  BY <1>7, <1>9, <2>1, <4>2, <4>3 DEF Precedes, Stored
    <3>2. /\ \A l \in Levels : l < b + 1 => next_'[k][l] # Uninit
          /\ \A l \in Levels : l >= b + 1 => next_'[k][l] = Uninit
      BY <1>2, <1>3, <1>5, <1>10 DEF Stored
    <3>3. b + 1 \in Levels
      BY <1>2, <1>5, <2>1 DEF Writer
    <3>4. QED  BY <1>2, <1>7, <1>9, <1>13, <2>1, <3>1, <3>2, <3>3 DEF WriterInv, Stored
  <2>2. CASE b + 1 >= w.height
    BY <1>7, <1>13, <2>2 DEF WriterInv, WriterIdle, Stored
  <2>3. QED  BY <1>2, <2>1, <2>2
<1>15. ReaderInv'
  BY <1>1, <1>5, <1>9, <1>10 DEF ReaderInv, Typed, Stored
<1>16. w'.pc # "idle" => w'.key = w.key
  <2>1. WriterIdle.pc = "idle"
    BY DEF WriterIdle
  <2>2. k = w.key
    BY DEF k
  <2>3. CASE b + 1 < w.height
    BY <1>7, <2>2, <2>3
  <2>4. CASE b + 1 >= w.height
    <3>1. w' = WriterIdle
      BY <1>7, <2>4
    <3>2. w'.pc = "idle"
      BY <2>1, <3>1
    <3>3. QED  BY <3>2
  <2>5. QED  BY <1>2, <2>3, <2>4
<1>17. QED  BY <1>9, <1>11, <1>12, <1>14, <1>15, <1>16 DEF k

(***************************************************************************)
(* The walk of a reader.                                                   *)
(***************************************************************************)
LEMMA BeginInv ==
  ASSUME ListsInv, NEW m \in {"first", "next", "seek", "prev", "last"},
         NEW t \in Keys \cup {Null}, Begin(m, t), m = "seek" => t \in Keys
  PROVE  ListsInv' /\ Published' = Published
<1> USE Numbers DEF ListsInv
<1>1. /\ UNCHANGED <<next_, max_height_, w, node_>>
      /\ m \in {"next", "prev"} => node_ # Null /\ t = node_
  BY DEF Begin
<1>2. PICK h \in IF m \in OneLink THEN {1} ELSE max_height_ :
        r' = [move |-> m, target |-> t, level |-> h - 1, x |-> IF m = "next" THEN node_ ELSE head_]
  BY DEF Begin
<1>3. h - 1 \in Levels /\ (m \in OneLink => h - 1 = 0)
  BY <1>2 DEF Typed, OneLink
<1>4. Published' = Published /\ Linked' = Linked /\ Height' = Height /\ ListInv' /\ Published \subseteq Keys
  BY <1>1, ListStands DEF Published
<1>5. node_ \in Published \cup {Null} /\ (m \in {"next", "prev"} => node_ \in Published /\ t \in Keys)
  BY <1>1, <1>4 DEF ReaderInv
<1>6. Typed'
  BY <1>1, <1>2, <1>3, <1>4, <1>5 DEF Typed
<1>7. WriterInv'
  BY <1>1, <1>4 DEF WriterInv, Precedes, Stored
<1>8. ReaderInv'
  <2>1. (IF m = "next" THEN node_ ELSE head_) \in Linked
    BY <1>5 DEF Linked
  <2>2. next_[IF m = "next" THEN node_ ELSE head_][h - 1] # Uninit
    BY <1>3, <1>5 DEF ListInv, Linked, Stored, OneLink
  <2>3. m \in {"seek", "prev"} => t \in Keys /\ head_ < t
    BY <1>5
  <2>4. QED
    BY <1>1, <1>2, <1>3, <1>4, <1>5, <2>1, <2>2, <2>3 DEF ReaderInv, Stored, OneLink
<1>9. QED  BY <1>4, <1>6, <1>7, <1>8

\* What a walk returns: the node of the move, in the list as it is now.
Returned(v) ==
  CASE r.move = "first" -> /\ v \in Published \cup {Null}
                           /\ \A k \in Published : v <= k
    [] r.move = "seek"  -> /\ v \in {k \in Published : r.target <= k} \cup {Null}
                           /\ \A k \in Published : r.target <= k => v <= k
    [] r.move = "next"  -> /\ v \in {k \in Published : r.target < k} \cup {Null}
                           /\ \A k \in Published : r.target < k => v <= k
    [] r.move = "prev"  -> \/ v = Null /\ \A k \in Published : r.target <= k
                           \/ /\ v \in Published /\ v < r.target
                              /\ \A k \in Published : k < r.target => k <= v
    [] r.move = "last"  -> \/ v = Null /\ Published = {}
                           \/ v \in Published /\ \A k \in Published : k <= v

LEMMA GoesOnIs ==
  ASSUME NEW n
  PROVE  /\ r.move = "seek" => (GoesOn(n) <=> n # Null /\ n < r.target)
         /\ r.move = "prev" => (GoesOn(n) <=> ~(n = Null \/ n >= r.target))
         /\ r.move = "last" => (GoesOn(n) <=> n # Null)
         /\ r.move \in OneLink => ~GoesOn(n)
<1>1. ASSUME r.move = "seek" PROVE GoesOn(n) <=> n # Null /\ n < r.target
  BY <1>1 DEF GoesOn, KeyIsAfterNode, OneLink
<1>2. ASSUME r.move = "prev" PROVE GoesOn(n) <=> ~(n = Null \/ n >= r.target)
  BY <1>2 DEF GoesOn, OneLink
<1>3. ASSUME r.move = "last" PROVE GoesOn(n) <=> n # Null
  BY <1>3 DEF GoesOn, OneLink
<1>4. ASSUME r.move \in OneLink PROVE ~GoesOn(n)
  BY <1>4 DEF GoesOn, OneLink
<1>5. QED  BY <1>1, <1>2, <1>3, <1>4

LEMMA LoadInv ==
  ASSUME ListsInv, Load
  PROVE  /\ ListsInv' /\ Published' = Published
         /\ \/ node_' = node_ /\ r'.move = r.move /\ r'.target = r.target
            \/ Returned(node_') /\ r' = ReaderIdle
<1> USE Numbers DEF ListsInv
<1> DEFINE n == next_[r.x][r.level]
<1>1. UNCHANGED <<next_, max_height_, w>> /\ r.move # "none"
  BY DEF Load
<1>2. /\ r.x \in Linked /\ Stored(r.x, r.level) /\ r.level \in Levels /\ r.target \in Keys \cup {Null}
      /\ r.move \in {"first", "next", "seek", "prev", "last"}
      /\ r.move \in {"seek", "prev"} => r.target \in Keys /\ r.x < r.target
      /\ r.move \in OneLink => r.level = 0 /\ r.x = IF r.move = "next" THEN r.target ELSE head_
  BY <1>1 DEF ReaderInv, Typed
<1>3. /\ n \in Published \cup {Null} /\ r.x < n /\ (n # Null => Stored(n, r.level))
      /\ \A j \in 0..r.level : Stored(r.x, j)
  BY <1>2 DEF ListInv
<1>4. /\ Published' = Published /\ Linked' = Linked /\ Height' = Height /\ ListInv'
      /\ Published \subseteq Keys /\ Linked \subseteq Nodes
  BY <1>1, ListStands DEF Published, Linked
<1>5. WriterInv'
  BY <1>1, <1>4 DEF WriterInv, Precedes, Stored
<1>6. r \in [move : {"none", "first", "next", "seek", "prev", "last"}, target : Keys \cup {Null},
             x : Nodes, level : Levels]
  BY DEF Typed
<1>7. CASE GoesOn(n) /\ r' = [r EXCEPT !.x = n] /\ UNCHANGED node_
  <2>1. n # Null /\ r.move \notin OneLink /\ (r.move \in {"seek", "prev"} => n < r.target)
    <3>1. r.move \notin OneLink
      BY <1>7, GoesOnIs
    <3>2. r.move \in {"seek", "prev", "last"}
      BY <1>2, <3>1 DEF OneLink
    <3>3. n # Null
      BY <1>7, <3>2, GoesOnIs
    <3>4. r.move \in {"seek", "prev"} => n < r.target \/ ~(n >= r.target)
      BY <1>7, GoesOnIs
    <3>5. r.move \in {"seek", "prev"} => n \in Nat /\ r.target \in Nat
      BY <1>2, <1>3, <1>4, <3>3
    <3>6. QED  BY <3>1, <3>3, <3>4, <3>5
  <2>2. n \in Published /\ n \in Nodes /\ next_[n][r.level] # Uninit
    BY <1>3, <1>4, <2>1 DEF Stored
  <2>3. r'.move = r.move /\ r'.target = r.target /\ r'.level = r.level /\ r'.x = n
    BY <1>6, <1>7
  <2>4. Typed'
    BY <1>1, <1>6, <1>7, <2>2 DEF Typed
  <2>5. ReaderInv'
    BY <1>1, <1>2, <1>4, <1>7, <2>1, <2>2, <2>3 DEF ReaderInv, Linked, Stored
  <2>6. QED  BY <1>4, <1>5, <1>7, <2>3, <2>4, <2>5
<1>8. CASE ~GoesOn(n) /\ r.level > 0 /\ r' = [r EXCEPT !.level = @ - 1] /\ UNCHANGED node_
  <2>1. r.level - 1 \in Levels /\ r.level - 1 \in 0..r.level /\ r.move \notin OneLink
    BY <1>2, <1>8
  <2>2. r'.move = r.move /\ r'.target = r.target /\ r'.level = r.level - 1 /\ r'.x = r.x
    BY <1>6, <1>8
  <2>3. Typed'
    BY <1>1, <1>6, <1>8, <2>1 DEF Typed
  <2>4. next_[r.x][r.level - 1] # Uninit
    BY <1>3, <2>1 DEF Stored
  <2>5. ReaderInv'
    BY <1>1, <1>2, <1>4, <1>8, <2>1, <2>2, <2>4 DEF ReaderInv, Stored
  <2>6. QED  BY <1>4, <1>5, <1>8, <2>2, <2>3, <2>5
<1>9. CASE /\ ~GoesOn(n) /\ r.level = 0 /\ r' = ReaderIdle
           /\ node_' = IF r.move \in {"prev", "last"} THEN OrNull(r.x) ELSE n
  <2>1. /\ r.x \in Nat /\ n \in Nat /\ n = next_[r.x][0]
        /\ \A k \in Published : k \in Nat /\ k < Null /\ (r.x < k => n <= k)
    BY <1>2, <1>3, <1>4, <1>9 DEF ListInv
  <2>2. r.x = head_ \/ r.x \in Published
    BY <1>2 DEF Linked
  <2>3. node_' \in Published \cup {Null}
    BY <1>3, <1>9, <2>2 DEF OrNull
  <2>4. Typed' /\ ReaderInv'
    BY <1>1, <1>4, <1>9, <2>3 DEF Typed, ReaderInv, ReaderIdle, OneLink
  <2>5. Returned(node_')
    <3>1. CASE r.move = "first"
      <4>1. r.x = head_ /\ node_' = n
        BY <1>2, <1>9, <3>1 DEF OneLink
      <4>2. QED  BY <1>3, <1>4, <2>1, <3>1, <4>1 DEF Returned
    <3>2. CASE r.move = "next"
      <4>1. r.x = r.target /\ node_' = n
        BY <1>2, <1>9, <3>2 DEF OneLink
      <4>2. QED  BY <1>3, <2>1, <3>2, <4>1 DEF Returned
    <3>3. CASE r.move = "seek"
      <4>1. r.target \in Nat /\ r.x < r.target /\ node_' = n /\ (n = Null \/ r.target <= n)
        BY <1>2, <1>9, <2>1, <3>3, GoesOnIs
      <4>2. \A k \in Published : r.target <= k => n <= k
        BY <2>1, <4>1
      <4>3. n \in {k \in Published : r.target <= k} \cup {Null}
        BY <1>3, <4>1
      <4>4. QED  BY <3>3, <4>1, <4>2, <4>3 DEF Returned
    <3>4. CASE r.move = "prev"
      <4>1. r.target \in Nat /\ r.target < Null /\ r.x < r.target /\ node_' = OrNull(r.x) /\ r.target <= n
        BY <1>2, <1>9, <2>1, <3>4, GoesOnIs
      <4>2. \A k \in Published : k < r.target => k <= r.x
        BY <2>1, <4>1
      <4>3. CASE r.x = head_
        <5>1. \A k \in Published : r.target <= k
          BY <1>4, <2>1, <4>1, <4>2, <4>3
        <5>2. QED  BY <3>4, <4>1, <4>3, <5>1 DEF Returned, OrNull
      <4>4. CASE r.x \in Published
        BY <1>4, <3>4, <4>1, <4>2, <4>4 DEF Returned, OrNull
      <4>5. QED  BY <2>2, <4>3, <4>4
    <3>5. CASE r.move = "last"
      <4>1. n = Null /\ node_' = OrNull(r.x)
        BY <1>9, <3>5, GoesOnIs
      <4>2. \A k \in Published : k <= r.x
        BY <2>1, <4>1
      <4>3. CASE r.x = head_
        <5>1. Published = {}
          BY <1>4, <2>1, <4>2, <4>3
        <5>2. QED  BY <3>5, <4>1, <4>3, <5>1 DEF Returned, OrNull
      <4>4. CASE r.x \in Published
        BY <1>4, <3>5, <4>1, <4>2, <4>4 DEF Returned, OrNull
      <4>5. QED  BY <2>2, <4>3, <4>4
    <3>6. QED  BY <1>2, <3>1, <3>2, <3>3, <3>4, <3>5
  <2>6. QED  BY <1>4, <1>5, <1>9, <2>4, <2>5
<1>10. QED  BY <1>7, <1>8, <1>9 DEF Load

(***************************************************************************)
(* Every step, and the entries.                                            *)
(***************************************************************************)
LEMMA InsertGoesOn ==
  ASSUME w \in Writer
  PROVE  FindPrev \/ SetHeight \/ LinkNode =>
           w.pc # "idle" /\ w'.pc # "idle" /\ w'.key = w.key /\ UNCHANGED <<r, node_>>
<1>1. ASSUME FindPrev PROVE w.pc # "idle" /\ w'.pc # "idle" /\ w'.key = w.key /\ UNCHANGED <<r, node_>>
  BY <1>1 DEF FindPrev, Writer
<1>2. ASSUME SetHeight PROVE w.pc # "idle" /\ w'.pc # "idle" /\ w'.key = w.key /\ UNCHANGED <<r, node_>>
  <2>1. w.pc = "height" /\ UNCHANGED <<r, node_>>
    BY <1>2, Zenon DEF SetHeight
  <2>2. PICK h \in 1..kMaxHeight :
          w' = [w EXCEPT !.pc = "link", !.level = 0, !.height = h,
                         !.prev = [l \in Levels |-> IF l \in Height..(h - 1) THEN head_ ELSE @[l]]]
    BY <1>2, Zenon DEF SetHeight
  <2>3. w'.pc = "link" /\ w'.key = w.key
    BY <2>2 DEF Writer
  <2>4. QED  BY <2>1, <2>3
<1>3. ASSUME LinkNode PROVE w.pc # "idle" /\ w'.pc # "idle" /\ w'.key = w.key /\ UNCHANGED <<r, node_>>
  BY <1>3 DEF LinkNode, Writer
<1>4. QED  BY <1>1, <1>2, <1>3

\* What a step does: to the list, to the entries, and to the reader.
Quiet == UNCHANGED <<Published, written, last>> /\ w'.pc = w.pc /\ w'.key = w.key
MemMoves ==
  \/ \E u \in UserKeys :
       LET k == InternalKey(u, last + 1) IN
         /\ w.pc = "idle" /\ w'.pc # "idle" /\ w'.key = k /\ k \in Keys \ Published
         /\ Cardinality(written) = last /\ last < MaxSequence
         /\ written' = written \cup {k} /\ UNCHANGED <<Published, last, r, node_>>
  \/ /\ w.pc # "idle" /\ w'.pc # "idle" /\ w'.key = w.key
     /\ UNCHANGED <<Published, written, last, r, node_>>
  \/ /\ w.pc # "idle" /\ (w'.pc # "idle" => w'.key = w.key)
     /\ Published' = Published \cup {w.key} /\ UNCHANGED <<written, last, r, node_>>
  \/ /\ w.pc = "idle" /\ last < Cardinality(written) /\ last' = last + 1
     /\ UNCHANGED <<Published, w, r, node_, written>>
  \/ /\ Quiet /\ r.move = "none" /\ UNCHANGED node_
     /\ r'.move \in {"first", "next", "seek", "prev", "last"} /\ r'.target \in Keys \cup {Null}
     /\ r'.move \in {"next", "prev"} => node_ # Null /\ r'.target = node_
     /\ r'.move = "seek" => \E u \in UserKeys, s \in 1..last : r'.target = InternalKey(u, s)
  \/ Quiet /\ UNCHANGED node_ /\ r'.move = r.move /\ r'.target = r.target
  \/ Quiet /\ r.move # "none" /\ Returned(node_') /\ r' = ReaderIdle

LEMMA MemStep ==
  ASSUME ListsInv, last \in 0..MaxSequence, [MemNext]_memVars
  PROVE  ListsInv' /\ MemMoves
<1>1. CASE UNCHANGED memVars
  BY <1>1 DEF memVars, ListsInv, Typed, ListInv, WriterInv, ReaderInv, Published, Linked, Stored,
     Height, Precedes, MemMoves, Quiet
<1>2. CASE MemNext
  <2>1. ASSUME NEW u \in UserKeys, Add(u) PROVE ListsInv' /\ MemMoves
    <3> DEFINE k == InternalKey(u, last + 1)
    <3>1. /\ StartInsert(k) /\ k \in Keys \ Published /\ w.pc = "idle" /\ Cardinality(written) = last
          /\ last < MaxSequence /\ written' = written \cup {k} /\ UNCHANGED <<last, r, node_>>
      BY <2>1 DEF Add, StartInsert
    <3>2. w'.pc # "idle" /\ w'.key = k
      BY <3>1 DEF StartInsert, WriterIdle
    <3> HIDE DEF k
    <3>3. ListsInv' /\ Published' = Published
      BY <3>1, StartInsertInv
    <3>4. QED  BY <3>1, <3>2, <3>3 DEF MemMoves, k
  <2>2. CASE InsertStep
    <3>1. CASE FindPrev \/ SetHeight \/ LinkNode
      <4>1. ListsInv' /\ Published' = Published
        BY <3>1, FindPrevInv, SetHeightInv, LinkNodeInv
      <4>2. w.pc # "idle" /\ w'.pc # "idle" /\ w'.key = w.key /\ UNCHANGED <<written, last, r, node_>>
        BY <2>2, <3>1, InsertGoesOn DEF ListsInv, Typed, InsertStep
      <4>3. QED  BY <4>1, <4>2 DEF MemMoves
    <3>2. CASE Publish
      <4>1. /\ ListsInv' /\ Published' = Published \cup {w.key}
            /\ w'.pc # "idle" => w'.key = w.key
        BY <3>2, PublishInv
      <4>2. w.pc # "idle" /\ UNCHANGED <<written, last, r, node_>>
        BY <2>2, <3>2 DEF InsertStep, Publish
      <4>3. QED  BY <4>1, <4>2 DEF MemMoves
    <3>3. QED  BY <2>2, <3>1, <3>2 DEF InsertStep, Insert
  <2>3. CASE SetLastSequence
    BY <2>3 DEF SetLastSequence, ListsInv, Typed, ListInv, WriterInv, ReaderInv, Published, Linked,
       Stored, Height, Precedes, MemMoves
  <2>4. ASSUME NEW u \in UserKeys, NEW s \in Sequences, Get(u, s) PROVE ListsInv' /\ MemMoves
    <3> DEFINE k == InternalKey(u, s)
    <3>1. Begin("seek", k) /\ UNCHANGED <<last, written>> /\ s \in 1..last
      BY <2>4, MemTableAssumption DEF Get, Sequences
    <3>2. k \in Keys
      BY DEF Keys
    <3>3. r.move = "none" /\ UNCHANGED <<w, node_>> /\ r'.move = "seek" /\ r'.target = k
      BY <3>1 DEF Begin
    <3> HIDE DEF k
    <3>4. ListsInv' /\ Published' = Published
      BY <3>1, <3>2, BeginInv
    <3>5. \E v \in UserKeys, x \in 1..last : r'.target = InternalKey(v, x)
      BY <3>1, <3>3 DEF k
    <3>6. QED  BY <3>1, <3>2, <3>3, <3>4, <3>5 DEF MemMoves, Quiet
  <2>5. ASSUME NEW m \in {"first", "next", "prev", "last"}, Move(m) PROVE ListsInv' /\ MemMoves
    <3> DEFINE t == IF m \in {"next", "prev"} THEN node_ ELSE Null
    <3>1. Begin(m, t) /\ UNCHANGED <<last, written>> /\ t \in Keys \cup {Null}
      BY <2>5 DEF Move, ListsInv, Typed
    <3>2. /\ r.move = "none" /\ UNCHANGED <<w, node_>> /\ r'.move = m /\ r'.target = t
          /\ m \in {"next", "prev"} => node_ # Null /\ t = node_
      BY <3>1 DEF Begin
    <3> HIDE DEF t
    <3>3. ListsInv' /\ Published' = Published
      BY <3>1, BeginInv
    <3>4. QED  BY <3>1, <3>2, <3>3 DEF MemMoves, Quiet
  <2>6. CASE ReadStep
    <3>1. /\ ListsInv' /\ Published' = Published
          /\ \/ node_' = node_ /\ r'.move = r.move /\ r'.target = r.target
             \/ Returned(node_') /\ r' = ReaderIdle
      BY <2>6, LoadInv DEF ReadStep
    <3>2. r.move # "none" /\ UNCHANGED <<w, written, last>>
      BY <2>6 DEF ReadStep, Load
    <3>3. QED  BY <3>1, <3>2 DEF MemMoves, Quiet
  <2>7. QED  BY <1>2, <2>1, <2>2, <2>3, <2>4, <2>5, <2>6 DEF MemNext
<1>3. QED  BY <1>1, <1>2

LEMMA EntriesStep == EntriesInv /\ MemMoves => EntriesInv'
<1> SUFFICES ASSUME EntriesInv, MemMoves PROVE EntriesInv'
  OBVIOUS
<1> USE MemTableAssumption DEF EntriesInv
<1>1. ASSUME NEW u \in UserKeys, NEW k, k = InternalKey(u, last + 1), k \notin Published,
             w.pc = "idle", w'.pc # "idle", w'.key = k, Cardinality(written) = last,
             last < MaxSequence, written' = written \cup {k}, UNCHANGED <<Published, last, r>>
      PROVE  EntriesInv'
  <2>1. IsFiniteSet(written') /\ Cardinality(written') = last + 1
    BY <1>1, FS_AddElement
  <2>2. written' = Published' \cup {w'.key}
    BY <1>1
  <2>3. last' \in 0..MaxSequence /\ Cardinality(written') = last' + 1 /\ last' + 1 <= MaxSequence
    BY <1>1, <2>1
  <2>4. \E v \in UserKeys : w'.key = InternalKey(v, last' + 1)
    BY <1>1
  <2>5. r'.move = "seek" => \E v \in UserKeys, s \in 1..last' : r'.target = InternalKey(v, s)
    BY <1>1
  <2>6. QED  BY <1>1, <2>1, <2>2, <2>3, <2>4, <2>5
<1>2. CASE /\ w.pc # "idle" /\ w'.pc # "idle" /\ w'.key = w.key
           /\ UNCHANGED <<Published, written, last, r, node_>>
  BY <1>2
<1>3. CASE /\ w.pc # "idle" /\ (w'.pc # "idle" => w'.key = w.key)
           /\ Published' = Published \cup {w.key} /\ UNCHANGED <<written, last, r, node_>>
  BY <1>3
<1>4. CASE /\ w.pc = "idle" /\ last < Cardinality(written) /\ last' = last + 1
           /\ UNCHANGED <<Published, w, r, node_, written>>
  <2>1. Cardinality(written) = last + 1 /\ last + 1 \in 0..MaxSequence /\ 1..last \subseteq 1..last'
    BY <1>4
  <2>2. QED  BY <1>4, <2>1
<1>5. ASSUME Quiet, r'.move = "seek" => \E u \in UserKeys, s \in 1..last : r'.target = InternalKey(u, s)
      PROVE  EntriesInv'
  BY <1>5 DEF Quiet
<1>6. CASE \E u \in UserKeys :
             LET k == InternalKey(u, last + 1) IN
               /\ w.pc = "idle" /\ w'.pc # "idle" /\ w'.key = k /\ k \in Keys \ Published
               /\ Cardinality(written) = last /\ last < MaxSequence
               /\ written' = written \cup {k} /\ UNCHANGED <<Published, last, r, node_>>
  BY <1>1, <1>6
<1>7. ASSUME Quiet, r' = ReaderIdle PROVE EntriesInv'
  <2>1. r'.move = "none"
    BY <1>7 DEF ReaderIdle
  <2>2. QED  BY <1>5, <1>7, <2>1
<1>8. ASSUME Quiet, r'.move = r.move, r'.target = r.target PROVE EntriesInv'
  BY <1>5, <1>8
<1>9. QED  BY <1>2, <1>3, <1>4, <1>5, <1>6, <1>7, <1>8 DEF MemMoves

LEMMA Invariants == Spec => [](ListsInv /\ EntriesInv)
<1>1. ListsInv /\ EntriesInv /\ [MemNext]_memVars => (ListsInv /\ EntriesInv)'
  BY MemStep, EntriesStep DEF EntriesInv
<1>2. QED  BY <1>1, InitInv, PTL DEF Spec

\* No walk loads a link that was never stored: FindGreaterOrEqual, FindLessThan
\* and FindLast of a reader that runs beside Insert, for any height of the list
\* and whichever old max_height_ it loads.
THEOREM NoRawLink == Spec => []LinkIsStored
<1>1. ListsInv => LinkIsStored
  BY DEF ListsInv, ReaderInv, LinkIsStored, Stored
<1>2. QED  BY <1>1, Invariants, PTL

(***************************************************************************)
(* The sorted set.                                                         *)
(***************************************************************************)
LEMMA LeastIs ==
  ASSUME NEW S \in SUBSET Keys, NEW v \in S \cup {Null}, \A k \in S : v <= k
  PROVE  v = abs!Least(S)
<1>1. S \in SUBSET Int /\ Null \in Nat /\ \A k \in S : k \in Nat /\ k < Null
  BY Numbers
<1>2. CASE S = {}
  BY <1>2 DEF abs!Least
<1>3. CASE S # {}
  <2>0. PICK k \in S : TRUE
    BY <1>3
  <2>1. v \in S /\ \A x \in S : v =< x
    BY <1>1, <2>0
  <2>2. abs!Min(S) = v
    BY <1>1, <2>1, MinIs DEF abs!Min, Min
  <2>3. QED  BY <1>3, <2>2 DEF abs!Least
<1>4. QED  BY <1>2, <1>3

LEMMA GreatestIs ==
  ASSUME NEW S \in SUBSET Keys, NEW v,
         \/ v = Null /\ S = {}
         \/ v \in S /\ \A k \in S : k <= v
  PROVE  v = abs!Greatest(S)
<1>1. S \in SUBSET Int /\ \A k \in S : k \in Nat
  BY Numbers
<1>2. CASE v = Null /\ S = {}
  BY <1>2 DEF abs!Greatest
<1>3. CASE v \in S /\ \A k \in S : k <= v
  <2>1. v \in S /\ \A k \in S : v >= k
    BY <1>1, <1>3
  <2>2. abs!Max(S) = v
    BY <1>1, <2>1, MaxIs DEF abs!Max, Max
  <2>3. S # {}
    BY <1>3
  <2>4. QED  BY <2>2, <2>3 DEF abs!Greatest
<1>4. QED  BY <1>2, <1>3

LEMMA ReturnsAnswer ==
  ASSUME NEW v, Returned(v), Typed, r.move # "none", r.move \in {"seek", "prev"} => r.target \in Keys
  PROVE  v = abs!Answer([move |-> r.move, target |-> r.target])
<1> DEFINE c == [move |-> r.move, target |-> r.target]
<1>1. c.move = r.move /\ c.target = r.target /\ Published \subseteq Keys
  BY DEF Published
<1>2. r.move \in {"first", "next", "seek", "prev", "last"}
  BY DEF Typed
<1> HIDE DEF c
<1>3. CASE r.move = "first"
  <2>1. v = abs!Least(Published)
    BY <1>1, <1>3, LeastIs DEF Returned
  <2>2. QED  BY <1>1, <1>3, <2>1 DEF abs!Answer, c
<1>4. CASE r.move = "seek"
  <2>1. v = abs!Least({k \in Published : k >= r.target})
    <3> DEFINE S == {k \in Published : k >= r.target}
    <3>1. v \in S \cup {Null} /\ \A k \in S : v <= k
      BY <1>1, <1>4, Numbers DEF Returned, Typed
    <3>2. S \in SUBSET Keys
      BY <1>1
    <3> HIDE DEF S
    <3>3. v = abs!Least(S)
      BY <3>1, <3>2, LeastIs
    <3>4. QED  BY <3>3 DEF S
  <2>2. QED  BY <1>1, <1>4, <2>1 DEF abs!Answer, c
<1>5. CASE r.move = "next"
  <2>1. v = abs!Least({k \in Published : k > r.target})
    <3> DEFINE S == {k \in Published : k > r.target}
    <3>1. v \in S \cup {Null} /\ \A k \in S : v <= k
      BY <1>1, <1>5, Numbers DEF Returned, Typed
    <3>2. S \in SUBSET Keys
      BY <1>1
    <3> HIDE DEF S
    <3>3. v = abs!Least(S)
      BY <3>1, <3>2, LeastIs
    <3>4. QED  BY <3>3 DEF S
  <2>2. QED  BY <1>1, <1>5, <2>1 DEF abs!Answer, c
<1>6. CASE r.move = "prev"
  <2>1. v = abs!Greatest({k \in Published : k < r.target})
    <3> DEFINE S == {k \in Published : k < r.target}
    <3>1. (v = Null /\ S = {}) \/ (v \in S /\ \A k \in S : k <= v)
      BY <1>1, <1>6, Numbers DEF Returned
    <3>2. S \in SUBSET Keys
      BY <1>1
    <3> HIDE DEF S
    <3>3. v = abs!Greatest(S)
      BY <3>1, <3>2, GreatestIs
    <3>4. QED  BY <3>3 DEF S
  <2>2. QED  BY <1>1, <1>6, <2>1 DEF abs!Answer, c
<1>7. CASE r.move = "last"
  <2>1. v = abs!Greatest(Published)
    BY <1>1, <1>7, GreatestIs DEF Returned
  <2>2. QED  BY <1>1, <1>7, <2>1 DEF abs!Answer, c
<1>8. QED  BY <1>2, <1>3, <1>4, <1>5, <1>6, <1>7 DEF c

\* Each move of an iterator over the list is one of an iterator over a set of
\* keys that only grows: it takes effect at one moment between its call and
\* its return, for every height, and however the loads of the walk and the
\* stores of Insert interleave.
THEOREM ListIsSortedSet == Spec => ImplementsSortedSet
<1>1. MemInit => abs!Init
  <2> SUFFICES ASSUME MemInit PROVE abs!Init
    OBVIOUS
  <2>1. r = ReaderIdle /\ node_ = Null /\ Published \subseteq Keys
    BY DEF MemInit, Init, Published
  <2>2. QED  BY <2>1 DEF abs!Init, abs!Idle, ReaderIdle
<1>2. ListsInv /\ MemMoves => [abs!Next]_(abs!setVars)
  <2> SUFFICES ASSUME ListsInv, MemMoves PROVE [abs!Next]_(abs!setVars)
    OBVIOUS
  <2> DEFINE c == [move |-> r.move, target |-> r.target]
  <2>1. CASE UNCHANGED <<Published, r, node_>>
    BY <2>1 DEF abs!setVars
  <2>2. CASE w.pc # "idle" /\ Published' = Published \cup {w.key} /\ UNCHANGED <<r, node_>>
    <3>1. w.key \in Keys
      BY <2>2 DEF ListsInv, WriterInv
    <3>2. CASE w.key \in Published
      <4>1. Published' = Published
        BY <2>2, <3>2
      <4>2. QED  BY <2>1, <2>2, <4>1
    <3>3. CASE w.key \notin Published
      <4>1. abs!Insert(w.key)
        BY <2>2, <3>3 DEF abs!Insert
      <4>2. QED  BY <3>1, <4>1 DEF abs!Next
    <3>4. QED  BY <3>2, <3>3
  <2>3. CASE /\ Quiet /\ r.move = "none" /\ UNCHANGED node_
             /\ r'.move \in {"first", "next", "seek", "prev", "last"} /\ r'.target \in Keys \cup {Null}
             /\ r'.move \in {"next", "prev"} => node_ # Null /\ r'.target = node_
    <3>1. c = abs!Idle
      BY <2>3 DEF ListsInv, ReaderInv, ReaderIdle, abs!Idle
    <3>2. abs!Begin(r'.move, r'.target)
      BY <2>3, <3>1 DEF abs!Begin, Quiet
    <3>3. r'.move \in abs!Moves
      BY <2>3 DEF abs!Moves
    <3>4. QED  BY <2>3, <3>2, <3>3 DEF abs!Next
  <2>4. CASE Quiet /\ UNCHANGED node_ /\ r'.move = r.move /\ r'.target = r.target
    BY <2>4 DEF Quiet, abs!setVars
  <2>5. CASE Quiet /\ r.move # "none" /\ Returned(node_') /\ r' = ReaderIdle
    <3>1. c # abs!Idle
      <4>1. c.move # abs!Idle.move
        BY <2>5 DEF abs!Idle
      <4>2. QED  BY <4>1
    <3>2. r.move \in {"seek", "prev"} => r.target \in Keys
      BY DEF ListsInv, ReaderInv
    <3>3. node_' = abs!Answer(c)
      BY <2>5, <3>2, ReturnsAnswer DEF ListsInv
    <3>4. [move |-> r'.move, target |-> r'.target] = abs!Idle
      BY <2>5 DEF ReaderIdle, abs!Idle
    <3>5. Published' = Published
      BY <2>5 DEF Quiet
    <3>6. abs!Return
      BY <3>1, <3>3, <3>4, <3>5 DEF abs!Return
    <3>7. QED  BY <3>6 DEF abs!Next
  <2>6. QED  BY <2>1, <2>2, <2>3, <2>4, <2>5 DEF MemMoves
<1>3. ListsInv /\ EntriesInv /\ [MemNext]_memVars => [abs!Next]_(abs!setVars)
  BY <1>2, MemStep DEF EntriesInv
<1>4. QED
  BY <1>1, <1>3, Invariants, PTL DEF Spec, ImplementsSortedSet, abs!Spec

(***************************************************************************)
(* Get: a user key and a sequence in one number.                           *)
(***************************************************************************)
LEMMA Quotient ==
  ASSUME NEW u \in Nat, NEW n \in Nat \ {0}, NEW c \in 0..(n - 1)
  PROVE  (u * n + c) \div n = u
<1> DEFINE x == u * n + c
           q == x \div n
<1>1. x \in Nat /\ u * n \in Nat /\ u * n <= x /\ x < u * n + n
  OBVIOUS
<1>2. q \in Int /\ x = n * q + (x % n) /\ x % n \in 0..(n - 1)
  BY <1>1
<1> HIDE DEF q
<1>3. CASE q <= u - 1
  <2>1. n * q <= n * (u - 1)
    BY <1>2, <1>3
  <2>2. n * (u - 1) = u * n - n
    OBVIOUS
  <2>3. QED  BY <1>1, <1>2, <2>1, <2>2
<1>4. CASE q >= u + 1
  <2>1. n * q >= n * (u + 1)
    BY <1>2, <1>4
  <2>2. n * (u + 1) = u * n + n
    OBVIOUS
  <2>3. QED  BY <1>1, <1>2, <2>1, <2>2
<1>5. QED  BY <1>2, <1>3, <1>4 DEF q

LEMMA UserOfKey ==
  ASSUME NEW u \in UserKeys, NEW s \in Sequences
  PROVE  UserOf(InternalKey(u, s)) = u
<1>1. u \in Nat /\ MaxSequence + 1 \in Nat \ {0} /\ MaxSequence - s \in 0..(MaxSequence + 1 - 1)
  BY MemTableAssumption DEF Sequences
<1>2. u * (MaxSequence + 1) - s + MaxSequence = u * (MaxSequence + 1) + (MaxSequence - s)
  BY <1>1, MemTableAssumption DEF Sequences
<1> DEFINE n == MaxSequence + 1
           c == MaxSequence - s
<1>3. u \in Nat /\ n \in Nat \ {0} /\ c \in 0..(n - 1)
  BY MemTableAssumption DEF Sequences
<1> HIDE DEF n, c
<1>4. (u * n + c) \div n = u
  BY <1>3, Quotient
<1>5. QED  BY <1>2, <1>4 DEF UserOf, InternalKey, n, c

LEMMA KeyOrder ==
  ASSUME NEW u \in UserKeys, NEW s \in Sequences, NEW v \in UserKeys, NEW t \in Sequences
  PROVE  /\ u < v => InternalKey(u, s) < InternalKey(v, t)
         /\ s < t => InternalKey(u, t) < InternalKey(u, s)
<1> DEFINE n == MaxSequence + 1
<1>1. u \in Nat /\ v \in Nat /\ n \in Nat /\ s \in 1..(n - 1) /\ t \in 1..(n - 1)
  BY MemTableAssumption DEF Sequences
<1>2. u * n \in Nat /\ v * n \in Nat /\ InternalKey(u, s) = u * n - s /\ InternalKey(v, t) = v * n - t
      /\ InternalKey(u, t) = u * n - t
  BY <1>1 DEF InternalKey
<1> HIDE DEF n
<1>3. ASSUME u < v PROVE u * n + n <= v * n
  <2>1. (u + 1) * n <= v * n /\ (u + 1) * n = u * n + n
    BY <1>1, <1>3
  <2>2. QED  BY <2>1
<1>4. QED  BY <1>1, <1>2, <1>3

\* Get and Seek of the memory table's iterator return the newest entry of the
\* user key that the snapshot may see, exactly when there is one: not the entry
\* being inserted, which is newer than every sequence a reader has been given,
\* and not one of the next user key.
THEOREM GetIsExact == Spec => GetFindsNewest
<1> DEFINE A ==
      r.move = "seek" /\ r'.move = "none" =>
        LET u == UserOf(r.target)
            seen == {k \in written : UserOf(k) = u /\ k >= r.target}
        IN  IF seen = {} THEN node_' = Null \/ UserOf(node_') # u ELSE node_' = Min(seen)
<1>1. ListsInv /\ EntriesInv /\ MemMoves => A
  <2> SUFFICES ASSUME ListsInv, EntriesInv, MemMoves, r.move = "seek", r'.move = "none" PROVE A
    OBVIOUS
  <2> DEFINE v == node_'
             u == UserOf(r.target)
             seen == {k \in written : UserOf(k) = u /\ k >= r.target}
  <2>1. Returned(v)
    BY DEF MemMoves
  <2>2. /\ v \in {k \in Published : r.target <= k} \cup {Null}
        /\ \A k \in Published : r.target <= k => v <= k
    BY <2>1 DEF Returned
  <2>3. PICK z \in UserKeys, s \in 1..last : r.target = InternalKey(z, s)
    BY DEF EntriesInv
  <2>4. last \in Nat /\ last <= MaxSequence /\ s \in Sequences /\ MaxSequence \in Nat
    BY MemTableAssumption DEF EntriesInv, Sequences
  <2>5. u = z
    BY <2>3, <2>4, UserOfKey
  <2>6. Published \subseteq Keys /\ Published \subseteq written /\ r.target \in Nat
    BY <2>3, <2>4, Numbers DEF Published, EntriesInv, Keys
  <2>7. \A k \in Keys : \E y \in UserKeys, t \in Sequences : k = InternalKey(y, t) /\ UserOf(k) = y
    BY UserOfKey DEF Keys
  <2>8. seen \subseteq Published
    <3> SUFFICES ASSUME NEW k \in seen, k \notin Published PROVE FALSE
      OBVIOUS
    <3>1. w.pc # "idle" /\ k = w.key
      BY DEF EntriesInv
    <3>2. PICK y \in UserKeys : k = InternalKey(y, last + 1)
      BY <3>1 DEF EntriesInv
    <3>3. last + 1 \in Sequences
      BY <2>4, <3>1 DEF EntriesInv, Sequences
    <3>4. y = z
      BY <2>5, <3>2, <3>3, UserOfKey
    <3>5. k < r.target
      BY <2>3, <2>4, <3>2, <3>3, <3>4, KeyOrder DEF Sequences
    <3>6. k \in Nat /\ k >= r.target
      BY <3>2, <3>3, Numbers DEF Keys
    <3>7. QED  BY <2>6, <3>5, <3>6
  <2> HIDE DEF v, u
  <2>9. CASE seen = {}
    <3>1. ASSUME v # Null PROVE UserOf(v) # u
      <4>1. v \in Published /\ v >= r.target
        BY <2>2, <2>6, <3>1, Numbers
      <4>2. QED  BY <2>6, <2>9, <4>1
    <3>2. QED  BY <2>9, <3>1 DEF v, u
  <2>10. CASE seen # {}
    <3>1. PICK k \in seen : TRUE
      BY <2>10
    <3>2. k \in Published /\ k \in Keys /\ k \in Nat /\ r.target <= k /\ UserOf(k) = u /\ k < Null
      BY <2>6, <2>8, <3>1, Numbers
    <3>3. v <= k /\ v \in Published /\ r.target <= v /\ v \in Keys /\ v \in Nat
      BY <2>2, <2>6, <3>2, Numbers
    <3>4. PICK y \in UserKeys, t \in Sequences : v = InternalKey(y, t) /\ UserOf(v) = y
      BY <2>7, <3>3
    <3>5. PICK x \in UserKeys, p \in Sequences : k = InternalKey(x, p) /\ UserOf(k) = x
      BY <2>7, <3>2
    <3>6. y \in Nat /\ z \in Nat /\ x = z
      BY <2>5, <3>2, <3>4, <3>5, MemTableAssumption
    <3>7. ~(y < z)
      BY <2>3, <2>4, <2>6, <3>3, <3>4, KeyOrder
    <3>8. ~(z < y)
      BY <3>2, <3>3, <3>4, <3>5, <3>6, KeyOrder
    <3>9. UserOf(v) = u
      BY <2>5, <3>4, <3>6, <3>7, <3>8
    <3>10. v \in seen
      BY <2>6, <3>3, <3>9
    <3>11. seen \in SUBSET Int /\ \A e \in seen : v =< e
      <4>1. \A e \in seen : e \in Published /\ e \in Nat /\ r.target <= e
        BY <2>6, <2>8, Numbers
      <4>2. QED  BY <2>2, <4>1
    <3> HIDE DEF seen
    <3>12. Min(seen) = v
      BY <3>10, <3>11, MinIs
    <3>13. QED  BY <2>10, <3>12 DEF v, u, seen
  <2>11. QED  BY <2>9, <2>10
<1>2. ListsInv /\ EntriesInv /\ [MemNext]_memVars => [A]_memVars
  BY <1>1, MemStep DEF EntriesInv
<1>3. QED  BY <1>2, Invariants, PTL DEF Spec, GetFindsNewest

===============================================================================
