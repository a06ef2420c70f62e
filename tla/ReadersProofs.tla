----------------------------- MODULE ReadersProofs -----------------------------
(***************************************************************************)
(* What lives while it is used, for any number of readers, tables, memory  *)
(* tables and handles: references are exact, the cache agrees with itself, *)
(* files stay, no table outlives its file, and limiters lose nothing.      *)
(***************************************************************************)
EXTENDS Readers, FiniteSetTheorems, SequenceTheorems, WellFoundedInduction, TLAPS

(***************************************************************************)
(* One shard of the cache.  "held" says how many clients use each handle.  *)
(***************************************************************************)
Shard ==
  [refs : [Handles -> Int], in_cache : [Handles -> BOOLEAN], charge : [Handles -> Int],
   lru : Seq(Handles), in_use : SUBSET Handles, table : [CacheKeys -> Handles \cup {None}],
   usage : Int, dead : SUBSET Handles]

On(q, h) == \E i \in 1..Len(q) : q[i] = h
Once(q) == \A i, j \in 1..Len(q) : q[i] = q[j] => i = j
Cached(c) == {h \in Handles : c.in_cache[h]}

\* All is exact but that the table no longer has the entries of X.
ExactBut(c, held, X) ==
  /\ c \in Shard
  /\ \A h \in Handles : c.refs[h] = held[h] + (IF c.in_cache[h] THEN 1 ELSE 0)
  /\ \A h \in Handles : On(c.lru, h) <=> c.in_cache[h] /\ held[h] = 0
  /\ Once(c.lru)
  /\ \A h \in Handles : h \in c.in_use <=> c.in_cache[h] /\ held[h] > 0
  /\ \A k \in CacheKeys : c.table[k] # None =>
       c.in_cache[c.table[k]] /\ Key(c.table[k]) = k /\ c.table[k] \notin X
  /\ \A h \in Handles : c.in_cache[h] => c.charge[h] = 1 /\ (h \notin X => c.table[Key(h)] = h)
  /\ c.usage = Cardinality(Cached(c))
Exact(c, held) == ExactBut(c, held, {})

\* From c to d only the entries of X are new, and what went has been deleted.
Keeps(c, d, X) ==
  \A h \in Handles :
    /\ d.refs[h] > 0 => c.refs[h] > 0 \/ h \in X
    /\ c.refs[h] > 0 /\ d.refs[h] = 0 => h \in d.dead

\* One client more, or one less, uses h.
More(held, h) == [held EXCEPT ![h] = @ + 1]
Less(held, h) == [held EXCEPT ![h] = @ - 1]

Held == [h \in Handles |-> Cardinality({a \in Actors : h \in actor[a].handles})]

(***************************************************************************)
(* Types.                                                                  *)
(***************************************************************************)
PCs ==
  {"idle", "gone", "collect", "read", "end", "open", "table", "merge", "build", "verify",
   "verified", "built", "not_built", "flush_manifest", "create", "finished", "merged",
   "merge_failed"}
Hows == {"none", "mmap", "fd", "reopen"}
ActorState ==
  [pc : PCs, iterator : BOOLEAN, version : Nat, mem : Nat, imm : Nat, todo : SUBSET Files,
   file : Files \cup {0}, how : Hows, back : PCs, handles : SUBSET Handles]
VersionState == [refs : Int, level0 : SUBSET Files, level1 : SUBSET Files]

Typed ==
  /\ mutex_ \in Actors \cup {"free"} /\ bg_error_ \in BOOLEAN
  /\ disk \subseteq Files /\ files_to_delete \subseteq Files /\ pending_outputs_ \subseteq Files
  /\ actor \in [Actors -> ActorState]
  /\ versions \in Seq(VersionState) /\ versions # <<>>
  /\ memtables \in Seq(Int) /\ mem_ \in 1..Len(memtables) /\ imm_ \in 0..Len(memtables)
  /\ mem_ # imm_
  /\ next_file_number_ \in 1..(MaxFiles + 1)
  /\ flush \in [output : Files \cup {0}, base : Nat]
  /\ compact \in [version : Nat, outputs : SUBSET Files, builder : Files \cup {0}]
  /\ opened \in [Handles -> Hows]
  /\ mmap_allowed \in Int /\ fd_allowed \in Int

(***************************************************************************)
(* Where each actor is.                                                    *)
(***************************************************************************)
Finding(a) == actor[a].pc \in {"open", "table"}
Phase(a) == IF Finding(a) THEN actor[a].back ELSE actor[a].pc

ClientCall(a) ==
  /\ Phase(a) \in {"idle", "gone", "collect", "read", "end"}
  /\ Phase(a) \in {"idle", "gone"} =>
       actor[a].version = 0 /\ actor[a].mem = 0 /\ actor[a].imm = 0 /\ ~Finding(a)
  /\ Phase(a) = "end" => ~Finding(a)
  /\ Phase(a) = "collect" => actor[a].version = 0 /\ actor[a].iterator
  /\ Phase(a) \in {"read", "end"} => actor[a].version \in 1..Len(versions)
  /\ Phase(a) \in {"collect", "read", "end"} =>
       /\ actor[a].mem \in 1..Len(memtables) /\ actor[a].imm \in 0..Len(memtables)
       /\ actor[a].mem # actor[a].imm

FlushPhases == {"build", "verify", "verified", "built", "not_built", "flush_manifest"}
MergePhases == {"collect", "merge", "create", "finished", "merged", "merge_failed"}
BgCall ==
  /\ Phase(bg) \in {"idle"} \cup FlushPhases \cup MergePhases
  /\ Finding(bg) => Phase(bg) \in {"collect", "merge", "verified", "finished"}
  /\ actor[bg].version = 0 /\ actor[bg].mem = 0 /\ actor[bg].imm = 0
  /\ flush.output # 0 <=> Phase(bg) \in FlushPhases
  /\ flush.base \in 0..Len(versions) /\ compact.version \in 0..Len(versions)
  /\ Phase(bg) = "idle" \/ flush.output = 0 => flush.base = 0
  /\ flush.base # 0 <=> Phase(bg) \in FlushPhases \ {"flush_manifest"}
  /\ Phase(bg) \in MergePhases => compact.version # 0
  /\ Phase(bg) = "idle" => compact.version = 0
  /\ compact.version = 0 => compact = NoCompaction
  /\ compact.builder # 0 => compact.builder \in compact.outputs
  /\ Phase(bg) \in {"create", "finished"} => compact.builder # 0
  /\ Phase(bg) \in FlushPhases => imm_ # 0
  /\ files_to_delete # {} => Phase(bg) \in {"idle", "merge"} /\ ~Finding(bg)

CallOf(a) ==
  /\ Phase(a) = "collect" <=> mutex_ = a
  /\ Phase(a) # "collect" => actor[a].todo = {}
  /\ Finding(a) <=> actor[a].file # 0
  /\ actor[a].how # "none" <=> actor[a].pc = "table"
  /\ \A g, h \in actor[a].handles : Key(g) = Key(h) => g = h
  /\ \A h \in actor[a].handles : Key(h) # actor[a].file

CallsInv == (\A a \in Clients : ClientCall(a)) /\ BgCall /\ \A a \in Actors : CallOf(a)

(***************************************************************************)
(* Files.                                                                  *)
(***************************************************************************)
\* What an actor may open or have open.
Scope(a) ==
  IF a # bg
  THEN IF Phase(a) = "collect" THEN versions[current_].level0
       ELSE IF Phase(a) \in {"read", "end"} THEN FilesOf(actor[a].version) ELSE {}
  ELSE (IF compact.version # 0 THEN FilesOf(compact.version) ELSE {})
       \cup (IF Phase(bg) = "verified" THEN {flush.output} ELSE {})
       \cup (IF Phase(bg) = "finished" THEN {compact.builder} ELSE {})
InScope(a) ==
  /\ \A h \in actor[a].handles : Key(h) \in Scope(a)
  /\ actor[a].file \in Scope(a) \cup {0}
  /\ actor[a].todo \subseteq Scope(a)
  /\ Phase(a) = "verified" /\ Finding(a) => actor[a].file = flush.output
  /\ Phase(a) = "finished" /\ Finding(a) => actor[a].file = compact.builder
ScopeInv == \A a \in Actors : InScope(a)

Kept == disk \ files_to_delete
Unseen(f) == \A h \in Handles : cache_.refs[h] > 0 => Key(h) # f

FilesInv ==
  /\ files_to_delete \subseteq disk
  /\ \A f \in disk : f < next_file_number_
  /\ \A v \in 1..Len(versions) :
       /\ \A f \in FilesOf(v) : f < next_file_number_ /\ f # flush.output /\ f \notin compact.outputs
       /\ versions[v].refs > 0 => FilesOf(v) \subseteq Kept
  /\ \A f \in compact.outputs :
       /\ f < next_file_number_ /\ f # flush.output /\ f \in pending_outputs_
       /\ f \in Kept \/ (f = compact.builder /\ Phase(bg) \in {"create", "merge_failed"})
  /\ flush.output < next_file_number_
  /\ Phase(bg) \in {"verify", "verified", "built", "flush_manifest"} => flush.output \in disk
  /\ Phase(bg) \in {"build", "verify"} => Unseen(flush.output)
  /\ Phase(bg) = "verified" /\ HandleOf(bg, flush.output) = {} => Unseen(flush.output)
  /\ \A h \in Handles : cache_.refs[h] > 0 => Key(h) \in Kept

(***************************************************************************)
(* References and limiters.                                                *)
(***************************************************************************)
Readings(v) == {a \in Clients : actor[a].version = v}
One(p) == IF p THEN 1 ELSE 0
VersionRefs ==
  \A v \in 1..Len(versions) :
    versions[v].refs = Cardinality(Readings(v)) + One(v = current_) + One(flush.base = v)
                       + One(compact.version = v)
Using(m) == {a \in Clients : m \in {actor[a].mem, actor[a].imm}}
MemRefs ==
  \A m \in 1..Len(memtables) :
    memtables[m] = Cardinality(Using(m)) + One(m \in {mem_, imm_})
CacheInv == Exact(cache_, Held) /\ cache_.dead = {}

Opened(how) == {h \in Handles : opened[h] = how}
Opening(how) == {a \in Actors : actor[a].how = how}
LimitsInv ==
  /\ \A h \in Handles : opened[h] # "none" => cache_.refs[h] > 0
  /\ mmap_allowed + (Cardinality(Opened("mmap")) + Cardinality(Opening("mmap"))) = MmapLimit
  /\ fd_allowed + (Cardinality(Opened("fd")) + Cardinality(Opening("fd"))) = FdLimit
  /\ mmap_allowed >= 0 /\ fd_allowed >= 0

Inv ==
  /\ Typed /\ CallsInv /\ ScopeInv /\ FilesInv
  /\ VersionRefs /\ MemRefs /\ CacheInv /\ LimitsInv

(***************************************************************************)
(* Induction over numbers and sets, stated with sets.                      *)
(***************************************************************************)
LEMMA LeastNumber ==
  ASSUME NEW T \in SUBSET Nat, T # {}
  PROVE  \E m \in T : \A k \in T : m <= k
<1> DEFINE R == {p \in Nat \X Nat : p[1] < p[2]}
<1>1. IsWellFoundedOn(R, Nat)
  BY NatLessThanWellFounded DEF OpToRel
<1>2. \A i, j \in Nat : i < j => <<i, j>> \in R
  OBVIOUS
<1> HIDE DEF R
<1>3. PICK m \in T : \A k \in T : ~(<<k, m>> \in R)
  BY <1>1, WFMin
<1>4. \A k \in T : m <= k
  <2> SUFFICES ASSUME NEW k \in T PROVE ~(k < m)
    OBVIOUS
  <2>1. k \in Nat /\ m \in Nat /\ ~(<<k, m>> \in R)
    BY <1>3
  <2>2. QED  BY <1>2, <2>1
<1>5. QED  BY <1>4

LEMMA AllNumbers ==
  ASSUME NEW T, 0 \in T, \A n \in Nat : n \in T => n + 1 \in T
  PROVE  \A n \in Nat : n \in T
<1> SUFFICES ASSUME NEW x \in Nat, x \notin T PROVE FALSE
  OBVIOUS
<1> DEFINE S == {n \in Nat : n \notin T}
<1>1. S \in SUBSET Nat /\ S # {}
  OBVIOUS
<1>2. PICK m \in S : \A k \in S : m <= k
  BY <1>1, LeastNumber
<1>3. m \in Nat /\ m # 0
  BY <1>2
<1>4. m - 1 \in Nat /\ m - 1 \notin S /\ (m - 1) + 1 = m
  BY <1>2, <1>3
<1>5. QED  BY <1>2, <1>4

LEMMA GreatestOf ==
  ASSUME NEW n \in Nat, NEW S \in SUBSET (1..n), S # {}
  PROVE  Max(S) \in S /\ \A y \in S : Max(S) >= y
<1> DEFINE T == {k \in Nat : n - k \in S}
<1>1. \A y \in S : n - y \in Nat /\ n - (n - y) = y
  OBVIOUS
<1>2. \A y \in S : n - y \in T
  BY <1>1
<1>3. PICK m \in T : \A k \in T : m <= k
  <2>1. T \in SUBSET Nat /\ T # {}
    BY <1>2
  <2>2. QED  BY <2>1, LeastNumber
<1>4. n - m \in S /\ \A y \in S : n - m >= y
  BY <1>1, <1>2, <1>3
<1>5. \E c \in S : \A y \in S : c >= y
  BY <1>4
<1>6. QED  BY <1>5, Zenon DEF Max

(***************************************************************************)
(* The loop at the end of Insert, one entry of lru_ after the other.       *)
(***************************************************************************)
EvictIfFull(d, old) == IF d.usage > capacity_ THEN EvictOldest(d, old) ELSE d
EvictInOrder(i, q) ==
  FoldLeft(LAMBDA d, old : IF d.usage > capacity_ THEN EvictOldest(d, old) ELSE d, i, q)

LEMMA EvictionLoop ==
  ASSUME NEW i, NEW S, NEW q \in Seq(S)
  PROVE  \E e : /\ e[0] = i /\ e[Len(q)] = EvictInOrder(i, q)
                /\ \A n \in 1..Len(q) : e[n] = EvictIfFull(e[n - 1], q[n])
<1> DEFINE len == Len(q)
           Body(f, s) == IF s = {} THEN i ELSE EvictIfFull(f[s \ {Max(s)}], q[Max(s)])
           fold == CHOOSE f : f = [s \in SUBSET (1..len) |-> Body(f, s)]
           T == {n \in Nat : \E f : f = [s \in SUBSET (1..n) |-> Body(f, s)]}
<1>1. EvictInOrder(i, q) = fold[1..len]
  <2>1. DOMAIN q = 1..len
    OBVIOUS
  <2>2. QED  BY <2>1, Zenon DEF EvictInOrder, FoldLeft, MapThenFoldSet, EvictIfFull
<1>2. len \in Nat
  OBVIOUS
<1> HIDE DEF len
<1>3. 0 \in T
  <2>1. SUBSET (1..0) = {{}}
    OBVIOUS
  <2>2. [s \in SUBSET (1..0) |-> i] = [s \in SUBSET (1..0) |-> Body([x \in SUBSET (1..0) |-> i], s)]
    BY <2>1
  <2>3. QED  BY <2>2
<1>4. ASSUME NEW n \in Nat, n \in T PROVE n + 1 \in T
  <2>1. PICK f : f = [s \in SUBSET (1..n) |-> Body(f, s)]
    BY <1>4
  <2> DEFINE g == [s \in SUBSET (1..(n + 1)) |-> Body(f, s)]
  <2>2. \A s \in SUBSET (1..n) : g[s] = f[s]
    <3>1. \A s \in SUBSET (1..n) : s \in SUBSET (1..(n + 1))
      OBVIOUS
    <3>2. \A s \in SUBSET (1..n) : f[s] = Body(f, s)
      BY <2>1
    <3>3. QED  BY <3>1, <3>2
  <2>3. \A s \in SUBSET (1..(n + 1)) : s # {} => s \ {Max(s)} \in SUBSET (1..n)
    <3> SUFFICES ASSUME NEW s \in SUBSET (1..(n + 1)), s # {}, NEW x \in s, x # Max(s)
                 PROVE  x \in 1..n
      OBVIOUS
    <3>1. n + 1 \in Nat /\ s \in SUBSET (1..(n + 1)) /\ s # {}
      OBVIOUS
    <3>2. Max(s) \in s /\ Max(s) >= x
      BY <3>1, GreatestOf
    <3>3. x \in 1..(n + 1) /\ Max(s) \in 1..(n + 1)
      BY <3>2
    <3>4. QED  BY <3>2, <3>3
  <2>4. g = [s \in SUBSET (1..(n + 1)) |-> Body(g, s)]
    <3>1. \A s \in SUBSET (1..(n + 1)) : Body(f, s) = Body(g, s)
      BY <2>2, <2>3
    <3>2. QED  BY <3>1
  <2>5. n + 1 \in Nat
    OBVIOUS
  <2> HIDE DEF g
  <2>6. \E f2 : f2 = [s \in SUBSET (1..(n + 1)) |-> Body(f2, s)]
    BY <2>4
  <2>7. QED  BY <2>5, <2>6
<1>5. fold = [s \in SUBSET (1..len) |-> Body(fold, s)]
  <2>1. len \in T
    BY <1>2, <1>3, <1>4, AllNumbers
  <2>2. QED  BY <2>1
<1> HIDE DEF fold
<1> DEFINE e == [n \in 0..len |-> fold[1..n]]
<1>6. e[0] = i
  BY <1>2, <1>5
<1>7. ASSUME NEW n \in 1..len PROVE e[n] = EvictIfFull(e[n - 1], q[n])
  <2>1. 1..n \in SUBSET (1..len) /\ 1..n # {} /\ n - 1 \in 0..len /\ n \in 0..len /\ n \in Nat
    <3>1. n \in Nat /\ n \in 1..n /\ n - 1 \in 0..len /\ n \in 0..len
      BY <1>2
    <3>2. \A x \in 1..n : x \in 1..len
      BY <1>2
    <3>3. QED  BY <3>1, <3>2
  <2>2. Max(1..n) = n
    <3>1. Max(1..n) \in 1..n /\ \A y \in 1..n : Max(1..n) >= y
      BY <2>1, GreatestOf
    <3>2. QED  BY <2>1, <3>1
  <2>3. (1..n) \ {n} = 1..(n - 1)
    BY <2>1
  <2>4. fold[1..n] = EvictIfFull(fold[(1..n) \ {Max(1..n)}], q[Max(1..n)])
    BY <1>5, <2>1
  <2>5. e[n] = fold[1..n] /\ e[n - 1] = fold[1..(n - 1)]
    BY <2>1
  <2> HIDE DEF e
  <2>6. QED  BY <2>2, <2>3, <2>4, <2>5
<1>8. e[len] = EvictInOrder(i, q)
  BY <1>1, <1>2
<1>9. QED
  <2> HIDE DEF e
  <2>1. QED  BY <1>6, <1>7, <1>8 DEF len

(***************************************************************************)
(* Folds over sets, in the order that CHOOSE takes: the tables that        *)
(* RemoveObsoleteFiles evicts, and the charges of the entries.             *)
(***************************************************************************)
LEMMA AllSubsets ==
  ASSUME NEW S, IsFiniteSet(S), NEW T, {} \in T,
         \A s \in SUBSET S : s # {} /\ (\A x \in s : s \ {x} \in T) => s \in T
  PROVE  \A s \in SUBSET S : s \in T
<1> DEFINE N == {n \in Nat : \A s \in SUBSET S : Cardinality(s) = n => s \in T}
<1>1. \A s \in SUBSET S : IsFiniteSet(s) /\ Cardinality(s) \in Nat
  BY FS_Subset, FS_CardinalityType
<1>2. 0 \in N
  <2>1. \A s \in SUBSET S : Cardinality(s) = 0 => s = {}
    BY <1>1, FS_EmptySet
  <2>2. QED  BY <2>1
<1>3. ASSUME NEW n \in Nat, n \in N PROVE n + 1 \in N
  <2> SUFFICES ASSUME NEW s \in SUBSET S, Cardinality(s) = n + 1 PROVE s \in T
    OBVIOUS
  <2>1. s # {}
    <3>1. Cardinality({}) = 0 /\ n + 1 # 0
      BY FS_EmptySet
    <3>2. QED  BY <3>1
  <2>2. ASSUME NEW x \in s PROVE s \ {x} \in T
    <3>1. s \ {x} \in SUBSET S /\ Cardinality(s \ {x}) = Cardinality(s) - 1
      BY <1>1, FS_RemoveElement
    <3>2. Cardinality(s \ {x}) = n
      BY <3>1
    <3>3. QED  BY <1>3, <3>1, <3>2
  <2>3. QED  BY <2>1, <2>2
<1>4. \A n \in Nat : n \in N
  BY <1>2, <1>3, AllNumbers
<1>5. QED  BY <1>1, <1>4

LEMMA EvictionFold ==
  ASSUME NEW c, NEW S, IsFiniteSet(S)
  PROVE  \E e : /\ e[{}] = c /\ e[S] = Evicted(c, S)
                /\ \A s \in SUBSET S : s # {} => \E x \in s : e[s] = Erase(e[s \ {x}], x)
<1> DEFINE id == [x \in S |-> x]
           Upto(n) == {s \in SUBSET S : Cardinality(s) <= n}
           Some(s) == CHOOSE x \in s : TRUE
           Body(f, s) == IF s = {} THEN c ELSE Erase(f[s \ {Some(s)}], id[Some(s)])
           fold == CHOOSE f : f = [s \in SUBSET S |-> Body(f, s)]
           T == {n \in Nat : \E f : f = [s \in Upto(n) |-> Body(f, s)]}
<1>1. Evicted(c, S) = fold[S]
  <2>1. DOMAIN id = S
    OBVIOUS
  <2>2. QED  BY <2>1, Zenon DEF Evicted, FoldFunction, FoldFunctionOnSet, MapThenFoldSet
<1>2. \A s \in SUBSET S : s # {} =>
        /\ Some(s) \in s /\ IsFiniteSet(s) /\ Cardinality(s) \in Nat
        /\ Cardinality(s \ {Some(s)}) = Cardinality(s) - 1
  <2> SUFFICES ASSUME NEW s \in SUBSET S, s # {}
               PROVE  /\ Some(s) \in s /\ IsFiniteSet(s) /\ Cardinality(s) \in Nat
                      /\ Cardinality(s \ {Some(s)}) = Cardinality(s) - 1
    OBVIOUS
  <2>1. Some(s) \in s /\ IsFiniteSet(s)
    BY FS_Subset
  <2>2. QED  BY <2>1, FS_RemoveElement, FS_CardinalityType
<1> HIDE DEF Some
<1>10. \A x \in S : id[x] = x
  OBVIOUS
<1> HIDE DEF id
<1>3. 0 \in T
  <2>1. \A s \in Upto(0) : s = {}
    <3> SUFFICES ASSUME NEW s \in SUBSET S, Cardinality(s) <= 0 PROVE s = {}
      OBVIOUS
    <3>1. IsFiniteSet(s) /\ Cardinality(s) \in Nat
      BY FS_Subset, FS_CardinalityType
    <3>2. QED  BY <3>1, FS_EmptySet
  <2>2. [s \in Upto(0) |-> c] = [s \in Upto(0) |-> Body([x \in Upto(0) |-> c], s)]
    BY <2>1
  <2>3. QED  BY <2>2
<1>4. ASSUME NEW n \in Nat, n \in T PROVE n + 1 \in T
  <2>1. PICK f : f = [s \in Upto(n) |-> Body(f, s)]
    BY <1>4
  <2> DEFINE g == [s \in Upto(n + 1) |-> Body(f, s)]
  <2>2. \A s \in Upto(n) : s \in Upto(n + 1)
    <3> SUFFICES ASSUME NEW s \in SUBSET S, Cardinality(s) <= n PROVE Cardinality(s) <= n + 1
      OBVIOUS
    <3>1. Cardinality(s) \in Nat
      BY FS_Subset, FS_CardinalityType
    <3>2. QED  BY <3>1
  <2>3. \A s \in Upto(n) : g[s] = f[s]
    <3>1. \A s \in Upto(n) : f[s] = Body(f, s)
      BY <2>1
    <3> HIDE DEF Upto
    <3>2. QED  BY <2>2, <3>1
  <2>4. \A s \in Upto(n + 1) : s # {} => s \ {Some(s)} \in Upto(n)
    <3> SUFFICES ASSUME NEW s \in SUBSET S, Cardinality(s) <= n + 1, s # {}
                 PROVE  s \ {Some(s)} \in Upto(n)
      OBVIOUS
    <3>1. Cardinality(s) \in Nat /\ Cardinality(s \ {Some(s)}) = Cardinality(s) - 1
      BY <1>2
    <3>2. QED  BY <3>1
  <2> HIDE DEF Upto
  <2>5. g = [s \in Upto(n + 1) |-> Body(g, s)]
    <3>1. \A s \in Upto(n + 1) : Body(f, s) = Body(g, s)
      BY <2>3, <2>4
    <3>2. QED  BY <3>1
  <2>6. n + 1 \in Nat
    OBVIOUS
  <2> HIDE DEF g
  <2>7. \E h : h = [s \in Upto(n + 1) |-> Body(h, s)]
    BY <2>5
  <2>8. QED  BY <2>6, <2>7
<1>5. fold = [s \in SUBSET S |-> Body(fold, s)]
  <2>1. Cardinality(S) \in Nat /\ Cardinality(S) \in T
    BY <1>3, <1>4, AllNumbers, FS_CardinalityType
  <2>2. Upto(Cardinality(S)) = SUBSET S
    BY <2>1, FS_Subset
  <2>3. PICK f : f = [s \in Upto(Cardinality(S)) |-> Body(f, s)]
    BY <2>1
  <2> HIDE DEF Upto
  <2>4. QED  BY <2>2, <2>3
<1> HIDE DEF fold
<1>6. fold[{}] = c
  BY <1>5
<1>7. ASSUME NEW s \in SUBSET S, s # {} PROVE \E x \in s : fold[s] = Erase(fold[s \ {x}], x)
  <2>1. fold[s] = Erase(fold[s \ {Some(s)}], id[Some(s)])
    BY <1>5, <1>7
  <2>2. Some(s) \in s /\ id[Some(s)] = Some(s)
    BY <1>2, <1>7, <1>10
  <2>3. QED  BY <2>1, <2>2
<1>8. QED  BY <1>1, <1>6, <1>7

LEMMA ChargeSum ==
  ASSUME NEW c, NEW S, IsFiniteSet(S)
  PROVE  \E e : /\ e[{}] = 0 /\ e[S] = MapThenSumSet(LAMBDA h : c.charge[h], S)
                /\ \A s \in SUBSET S : s # {} => \E x \in s : e[s] = c.charge[x] + e[s \ {x}]
<1> DEFINE Upto(n) == {s \in SUBSET S : Cardinality(s) <= n}
           Some(s) == CHOOSE x \in s : TRUE
           Body(f, s) == IF s = {} THEN 0 ELSE c.charge[Some(s)] + f[s \ {Some(s)}]
           fold == CHOOSE f : f = [s \in SUBSET S |-> Body(f, s)]
           T == {n \in Nat : \E f : f = [s \in Upto(n) |-> Body(f, s)]}
<1>1. MapThenSumSet(LAMBDA h : c.charge[h], S) = fold[S]
  BY Zenon DEF MapThenSumSet, MapThenFoldSet
<1>2. \A s \in SUBSET S : s # {} =>
        /\ Some(s) \in s /\ IsFiniteSet(s) /\ Cardinality(s) \in Nat
        /\ Cardinality(s \ {Some(s)}) = Cardinality(s) - 1
  <2> SUFFICES ASSUME NEW s \in SUBSET S, s # {}
               PROVE  /\ Some(s) \in s /\ IsFiniteSet(s) /\ Cardinality(s) \in Nat
                      /\ Cardinality(s \ {Some(s)}) = Cardinality(s) - 1
    OBVIOUS
  <2>1. Some(s) \in s /\ IsFiniteSet(s)
    BY FS_Subset
  <2>2. QED  BY <2>1, FS_RemoveElement, FS_CardinalityType
<1> HIDE DEF Some
<1>3. 0 \in T
  <2>1. \A s \in Upto(0) : s = {}
    <3> SUFFICES ASSUME NEW s \in SUBSET S, Cardinality(s) <= 0 PROVE s = {}
      OBVIOUS
    <3>1. IsFiniteSet(s) /\ Cardinality(s) \in Nat
      BY FS_Subset, FS_CardinalityType
    <3>2. QED  BY <3>1, FS_EmptySet
  <2>2. [s \in Upto(0) |-> 0] = [s \in Upto(0) |-> Body([x \in Upto(0) |-> 0], s)]
    BY <2>1
  <2>3. QED  BY <2>2
<1>4. ASSUME NEW n \in Nat, n \in T PROVE n + 1 \in T
  <2>1. PICK f : f = [s \in Upto(n) |-> Body(f, s)]
    BY <1>4
  <2> DEFINE g == [s \in Upto(n + 1) |-> Body(f, s)]
  <2>2. \A s \in Upto(n) : s \in Upto(n + 1)
    <3> SUFFICES ASSUME NEW s \in SUBSET S, Cardinality(s) <= n PROVE Cardinality(s) <= n + 1
      OBVIOUS
    <3>1. Cardinality(s) \in Nat
      BY FS_Subset, FS_CardinalityType
    <3>2. QED  BY <3>1
  <2>3. \A s \in Upto(n) : g[s] = f[s]
    <3>1. \A s \in Upto(n) : f[s] = Body(f, s)
      BY <2>1
    <3> HIDE DEF Upto
    <3>2. QED  BY <2>2, <3>1
  <2>4. \A s \in Upto(n + 1) : s # {} => s \ {Some(s)} \in Upto(n)
    <3> SUFFICES ASSUME NEW s \in SUBSET S, Cardinality(s) <= n + 1, s # {}
                 PROVE  s \ {Some(s)} \in Upto(n)
      OBVIOUS
    <3>1. Cardinality(s) \in Nat /\ Cardinality(s \ {Some(s)}) = Cardinality(s) - 1
      BY <1>2
    <3>2. QED  BY <3>1
  <2> HIDE DEF Upto
  <2>5. g = [s \in Upto(n + 1) |-> Body(g, s)]
    <3>1. \A s \in Upto(n + 1) : Body(f, s) = Body(g, s)
      BY <2>3, <2>4
    <3>2. QED  BY <3>1
  <2>6. n + 1 \in Nat
    OBVIOUS
  <2> HIDE DEF g
  <2>7. \E h : h = [s \in Upto(n + 1) |-> Body(h, s)]
    BY <2>5
  <2>8. QED  BY <2>6, <2>7
<1>5. fold = [s \in SUBSET S |-> Body(fold, s)]
  <2>1. Cardinality(S) \in Nat /\ Cardinality(S) \in T
    BY <1>3, <1>4, AllNumbers, FS_CardinalityType
  <2>2. Upto(Cardinality(S)) = SUBSET S
    BY <2>1, FS_Subset
  <2>3. PICK f : f = [s \in Upto(Cardinality(S)) |-> Body(f, s)]
    BY <2>1
  <2> HIDE DEF Upto
  <2>4. QED  BY <2>2, <2>3
<1> HIDE DEF fold
<1>6. fold[{}] = 0
  BY <1>5
<1>7. ASSUME NEW s \in SUBSET S, s # {} PROVE \E x \in s : fold[s] = c.charge[x] + fold[s \ {x}]
  BY <1>2, <1>5, <1>7
<1>8. QED  BY <1>1, <1>6, <1>7

(***************************************************************************)
(* The list lru_.                                                          *)
(***************************************************************************)
\* Unlinking an entry, which may be on the list or not.
LEMMA Unlinked ==
  ASSUME NEW S, NEW q \in Seq(S), NEW h, Once(q)
  PROVE  /\ RemoveFirst(q, h) \in Seq(S) /\ Once(RemoveFirst(q, h))
         /\ \A x : On(RemoveFirst(q, h), x) <=> On(q, x) /\ x # h
<1>1. CASE ~On(q, h)
  <2>1. RemoveFirst(q, h) = q
    BY <1>1 DEF RemoveFirst, On
  <2>2. QED  BY <1>1, <2>1
<1>2. CASE On(q, h)
  <2> DEFINE I == {i \in 1..Len(q) : q[i] = h}
             at == Min(I)
  <2>1. RemoveFirst(q, h) = SubSeq(q, 1, at - 1) \o SubSeq(q, at + 1, Len(q))
    BY <1>2 DEF RemoveFirst, RemoveAt, SelectInSeq, On
  <2>2. PICK n \in 1..Len(q) : q[n] = h
    BY <1>2 DEF On
  <2>3. I = {n}
    BY <2>2 DEF Once
  <2>4. at = n
    <3>1. Min({n}) = n
      <4>1. \E c \in {n} : \A y \in {n} : c =< y
        BY <2>2
      <4>2. QED  BY <4>1, Zenon DEF Min
    <3>2. QED  BY <2>3, <3>1
  <2> HIDE DEF at
  <2> DEFINE s == SubSeq(q, 1, n - 1)
             t == SubSeq(q, n + 1, Len(q))
             r == s \o t
  <2>5. /\ s \in Seq(S) /\ Len(s) = n - 1 /\ \A i \in 1..(n - 1) : s[i] = q[i]
        /\ t \in Seq(S) /\ Len(t) = Len(q) - n /\ \A i \in 1..(Len(q) - n) : t[i] = q[n + i]
    <3>1. n \in Nat /\ Len(q) \in Nat /\ n >= 1 /\ n <= Len(q) /\ n - 1 \in Int /\ n + 1 \in Int
      BY <2>2
    <3>2. \A i \in 1..Len(q) : q[i] \in S
      OBVIOUS
    <3>3. \A i \in 1..(n - 1) : q[i] \in S
      BY <3>1, <3>2
    <3>4. \A i \in (n + 1)..Len(q) : q[i] \in S
      BY <3>1, <3>2
    <3>5. /\ s \in Seq(S) /\ Len(s) = IF 1 <= n - 1 THEN (n - 1) - 1 + 1 ELSE 0
          /\ \A i \in 1..((n - 1) - 1 + 1) : s[i] = q[1 + i - 1]
      BY <3>1, <3>3, SubSeqProperties
    <3>6. /\ t \in Seq(S) /\ Len(t) = IF n + 1 <= Len(q) THEN Len(q) - (n + 1) + 1 ELSE 0
          /\ \A i \in 1..(Len(q) - (n + 1) + 1) : t[i] = q[(n + 1) + i - 1]
      BY <3>1, <3>4, SubSeqProperties
    <3> HIDE DEF s, t
    <3>7. Len(s) = n - 1 /\ Len(t) = Len(q) - n
      BY <3>1, <3>5, <3>6
    <3>8. \A i \in 1..(n - 1) : s[i] = q[i]
      <4> SUFFICES ASSUME NEW i \in 1..(n - 1) PROVE s[i] = q[i]
        OBVIOUS
      <4>1. i \in 1..((n - 1) - 1 + 1) /\ 1 + i - 1 = i
        BY <3>1
      <4>2. QED  BY <3>5, <4>1
    <3>9. \A i \in 1..(Len(q) - n) : t[i] = q[n + i]
      <4> SUFFICES ASSUME NEW i \in 1..(Len(q) - n) PROVE t[i] = q[n + i]
        OBVIOUS
      <4>1. i \in 1..(Len(q) - (n + 1) + 1) /\ (n + 1) + i - 1 = n + i
        BY <3>1
      <4>2. QED  BY <3>6, <4>1
    <3>10. QED  BY <3>5, <3>6, <3>7, <3>8, <3>9
  <2> HIDE DEF s, t
  <2>6. /\ r \in Seq(S) /\ Len(r) = Len(q) - 1
        /\ \A i \in 1..Len(r) : r[i] = IF i < n THEN q[i] ELSE q[i + 1]
    BY <2>2, <2>5
  <2>7. RemoveFirst(q, h) = r
    BY <2>1, <2>4 DEF s, t
  <2> HIDE DEF r
  <2>8. Once(r)
    BY <2>2, <2>6 DEF Once
  <2>9. ASSUME NEW x PROVE On(r, x) <=> On(q, x) /\ x # h
    <3>1. ASSUME On(r, x) PROVE On(q, x) /\ x # h
      <4>1. PICK i \in 1..Len(r) : r[i] = x
        BY <3>1 DEF On
      <4>2. CASE i < n
        BY <2>2, <2>6, <4>1, <4>2 DEF On, Once
      <4>3. CASE i >= n
        <5>1. i + 1 \in 1..Len(q) /\ i + 1 # n /\ q[i + 1] = x
          BY <2>2, <2>6, <4>1, <4>3
        <5>2. QED  BY <2>2, <5>1 DEF On, Once
      <4>4. QED  BY <2>2, <4>1, <4>2, <4>3
    <3>2. ASSUME On(q, x), x # h PROVE On(r, x)
      <4>1. PICK i \in 1..Len(q) : q[i] = x
        BY <3>2 DEF On
      <4>2. CASE i < n
        <5>1. i \in 1..Len(r) /\ r[i] = x
          BY <2>2, <2>6, <4>1, <4>2
        <5>2. QED  BY <5>1 DEF On
      <4>3. CASE i > n
        <5>1. i - 1 \in 1..Len(r) /\ r[i - 1] = q[(i - 1) + 1] /\ (i - 1) + 1 = i
          BY <2>2, <2>6, <4>1, <4>3
        <5>2. QED  BY <4>1, <5>1 DEF On
      <4>4. i # n
        BY <2>2, <3>2, <4>1
      <4>5. QED  BY <2>2, <4>1, <4>2, <4>3, <4>4
    <3>3. QED  BY <3>1, <3>2
  <2>10. QED  BY <2>6, <2>7, <2>8, <2>9
<1>3. QED  BY <1>1, <1>2

\* Linking one behind the others.
LEMMA Linked ==
  ASSUME NEW S, NEW q \in Seq(S), NEW h \in S, Once(q), ~On(q, h)
  PROVE  /\ Append(q, h) \in Seq(S) /\ Once(Append(q, h))
         /\ \A x : On(Append(q, h), x) <=> On(q, x) \/ x = h
<1> DEFINE r == Append(q, h)
<1>1. /\ r \in Seq(S) /\ Len(r) = Len(q) + 1 /\ r[Len(q) + 1] = h
      /\ \A i \in 1..Len(q) : r[i] = q[i]
  OBVIOUS
<1> HIDE DEF r
<1>2. Once(r)
  <2> SUFFICES ASSUME NEW i \in 1..Len(r), NEW j \in 1..Len(r), r[i] = r[j] PROVE i = j
    BY DEF Once
  <2>1. CASE i \in 1..Len(q) /\ j \in 1..Len(q)
    BY <1>1, <2>1 DEF Once
  <2>2. CASE i = Len(q) + 1 /\ j \in 1..Len(q)
    BY <1>1, <2>2 DEF On
  <2>3. CASE j = Len(q) + 1 /\ i \in 1..Len(q)
    BY <1>1, <2>3 DEF On
  <2>4. QED  BY <1>1, <2>1, <2>2, <2>3
<1>3. ASSUME NEW x PROVE On(r, x) <=> On(q, x) \/ x = h
  <2>1. ASSUME NEW i \in 1..Len(r), r[i] = x PROVE On(q, x) \/ x = h
    BY <1>1, <2>1 DEF On
  <2>2. ASSUME NEW i \in 1..Len(q), q[i] = x PROVE On(r, x)
    <3>1. i \in 1..Len(r) /\ r[i] = x
      BY <1>1, <2>2
    <3>2. QED  BY <3>1 DEF On
  <2>3. On(r, h)
    <3>1. Len(q) + 1 \in 1..Len(r)
      BY <1>1
    <3>2. QED  BY <1>1, <3>1 DEF On
  <2>4. QED  BY <2>1, <2>2, <2>3 DEF On
<1>4. QED  BY <1>1, <1>2, <1>3 DEF r

(***************************************************************************)
(* The operations of the cache.                                            *)
(***************************************************************************)
LEMMA HandlesFinite ==
  /\ IsFiniteSet(Handles) /\ None \notin Handles
  /\ \A S \in SUBSET Handles : IsFiniteSet(S) /\ Cardinality(S) \in Nat
<1>1. IsFiniteSet(CacheKeys) /\ IsFiniteSet(1..MaxEntries)
  BY ReadersAssumption, FS_Interval DEF Files
<1>2. IsFiniteSet(Handles)
  BY <1>1, FS_Product DEF Handles
<1>3. None \notin Handles
  BY ReadersAssumption DEF Handles, None
<1>4. QED  BY <1>2, <1>3, FS_Subset, FS_CardinalityType

LEMMA KeyOfHandle == \A h \in Handles : Key(h) \in CacheKeys
BY DEF Handles, Key

LEMMA RemovedFields ==
  ASSUME NEW c \in Shard, NEW h, Once(c.lru)
  PROVE  LET r == LRU_Remove(c, h) IN
         /\ r \in Shard /\ r.refs = c.refs /\ r.in_cache = c.in_cache /\ r.charge = c.charge
         /\ r.table = c.table /\ r.usage = c.usage /\ r.dead = c.dead
         /\ r.in_use = c.in_use \ {h}
         /\ Once(r.lru) /\ \A x : On(r.lru, x) <=> On(c.lru, x) /\ x # h
<1>1. /\ RemoveFirst(c.lru, h) \in Seq(Handles) /\ Once(RemoveFirst(c.lru, h))
      /\ \A x : On(RemoveFirst(c.lru, h), x) <=> On(c.lru, x) /\ x # h
  <2>1. c.lru \in Seq(Handles)
    BY DEF Shard
  <2>2. QED  BY <2>1, Unlinked
<1> DEFINE r == LRU_Remove(c, h)
<1>2. /\ r \in Shard /\ r.refs = c.refs /\ r.in_cache = c.in_cache /\ r.charge = c.charge
      /\ r.table = c.table /\ r.usage = c.usage /\ r.dead = c.dead
      /\ r.in_use = c.in_use \ {h} /\ r.lru = RemoveFirst(c.lru, h)
  BY <1>1 DEF LRU_Remove, Shard
<1>3. QED  BY <1>1, <1>2

\* An entry leaves the cache: it is on no list, and gone unless somebody uses it.
LEMMA FinishEraseFields ==
  ASSUME NEW held \in [Handles -> Nat], NEW h \in Handles, NEW c,
         ExactBut(c, held, {h}), c.in_cache[h]
  PROVE  LET r == FinishErase(c, h) IN
         /\ r \in Shard
         /\ r.refs = [c.refs EXCEPT ![h] = @ - 1] /\ r.in_cache = [c.in_cache EXCEPT ![h] = FALSE]
         /\ \A x \in Handles \ {h} : r.charge[x] = c.charge[x]
         /\ r.table = c.table /\ r.usage = c.usage - 1
         /\ r.dead = c.dead \cup (IF held[h] = 0 THEN {h} ELSE {})
         /\ r.in_use = c.in_use \ {h}
         /\ Once(r.lru) /\ \A x : On(r.lru, x) <=> On(c.lru, x) /\ x # h
<1> DEFINE m == LRU_Remove(c, h)
           e == [m EXCEPT !.in_cache[h] = FALSE, !.usage = @ - c.charge[h]]
           d == [e EXCEPT !.refs[h] = @ - 1]
           r == FinishErase(c, h)
<1>1. c \in Shard /\ Once(c.lru) /\ c.refs[h] = held[h] + 1 /\ c.charge[h] = 1
  BY DEF ExactBut
<1>2. /\ m \in Shard /\ m.refs = c.refs /\ m.in_cache = c.in_cache /\ m.charge = c.charge
      /\ m.table = c.table /\ m.usage = c.usage /\ m.dead = c.dead
      /\ m.in_use = c.in_use \ {h}
      /\ Once(m.lru) /\ \A x : On(m.lru, x) <=> On(c.lru, x) /\ x # h
  BY <1>1, RemovedFields
<1> HIDE DEF m
<1>3. /\ d \in Shard /\ d.refs = [c.refs EXCEPT ![h] = @ - 1] /\ d.in_use = m.in_use
      /\ d.in_cache = [c.in_cache EXCEPT ![h] = FALSE] /\ d.charge = c.charge
      /\ d.table = c.table /\ d.usage = c.usage - 1 /\ d.dead = c.dead /\ d.lru = m.lru
  <2>1. /\ [m.in_cache EXCEPT ![h] = FALSE] \in [Handles -> BOOLEAN] /\ m.usage - c.charge[h] \in Int
        /\ [m.refs EXCEPT ![h] = @ - 1] \in [Handles -> Int]
    BY <1>1, <1>2 DEF Shard
  <2>2. /\ e \in Shard /\ e.refs = m.refs /\ e.in_use = m.in_use
        /\ e.in_cache = [m.in_cache EXCEPT ![h] = FALSE] /\ e.charge = m.charge
        /\ e.table = m.table /\ e.usage = m.usage - c.charge[h] /\ e.dead = m.dead /\ e.lru = m.lru
    BY <1>2, <2>1 DEF Shard
  <2> HIDE DEF e
  <2>3. /\ d \in Shard /\ d.refs = [e.refs EXCEPT ![h] = @ - 1] /\ d.in_use = e.in_use
        /\ d.in_cache = e.in_cache /\ d.charge = e.charge
        /\ d.table = e.table /\ d.usage = e.usage /\ d.dead = e.dead /\ d.lru = e.lru
    BY <2>1, <2>2 DEF Shard
  <2>4. QED  BY <1>1, <1>2, <2>2, <2>3
<1>4. d.refs[h] = held[h] /\ ~d.in_cache[h] /\ held[h] \in Nat
  <2>1. h \in DOMAIN c.refs /\ h \in DOMAIN c.in_cache
    BY <1>1 DEF Shard
  <2>2. QED  BY <1>1, <1>3, <2>1
<1>5. h # None
  BY HandlesFinite
<1>6. r = Unref(e, h)
  BY <1>5, Zenon DEF FinishErase, m
<1> HIDE DEF r
<1>7. CASE held[h] = 0
  <2>1. r = [d EXCEPT !.dead = @ \cup {h}, !.charge[h] = 0]
    BY <1>4, <1>6, <1>7 DEF Unref
  <2> HIDE DEF d, e
  <2>2. /\ r \in Shard /\ r.refs = d.refs /\ r.in_use = d.in_use /\ r.in_cache = d.in_cache
        /\ \A x \in Handles \ {h} : r.charge[x] = d.charge[x]
        /\ r.table = d.table /\ r.usage = d.usage /\ r.dead = d.dead \cup {h} /\ r.lru = d.lru
    <3>1. [d.charge EXCEPT ![h] = 0] \in [Handles -> Int] /\ d.dead \cup {h} \in SUBSET Handles
      BY <1>3 DEF Shard
    <3>2. /\ r \in Shard /\ r.refs = d.refs /\ r.in_use = d.in_use /\ r.in_cache = d.in_cache
          /\ r.charge = [d.charge EXCEPT ![h] = 0]
          /\ r.table = d.table /\ r.usage = d.usage /\ r.dead = d.dead \cup {h} /\ r.lru = d.lru
      BY <1>3, <2>1, <3>1 DEF Shard
    <3>3. QED  BY <1>3, <3>2 DEF Shard
  <2>3. QED  BY <1>2, <1>3, <1>7, <2>2 DEF r
<1>8. CASE held[h] # 0
  <2>1. r = d
    BY <1>4, <1>6, <1>8 DEF Unref
  <2> HIDE DEF d, e
  <2>2. QED  BY <1>2, <1>3, <1>8, <2>1 DEF r
<1>9. QED  BY <1>7, <1>8

LEMMA FinishEraseExact ==
  ASSUME NEW held \in [Handles -> Nat], NEW h \in Handles, NEW c,
         ExactBut(c, held, {h}), c.in_cache[h]
  PROVE  LET r == FinishErase(c, h) IN
         /\ Exact(r, held) /\ Keeps(c, r, {}) /\ c.dead \subseteq r.dead
         /\ \A x \in Handles : r.in_cache[x] <=> c.in_cache[x] /\ x # h
         /\ r.table = c.table
         /\ Once(r.lru) /\ \A x : On(r.lru, x) <=> On(c.lru, x) /\ x # h
<1> DEFINE r == FinishErase(c, h)
<1>1. /\ r \in Shard
      /\ r.refs = [c.refs EXCEPT ![h] = @ - 1] /\ r.in_cache = [c.in_cache EXCEPT ![h] = FALSE]
      /\ \A x \in Handles \ {h} : r.charge[x] = c.charge[x]
      /\ r.table = c.table /\ r.usage = c.usage - 1
      /\ r.dead = c.dead \cup (IF held[h] = 0 THEN {h} ELSE {})
      /\ r.in_use = c.in_use \ {h}
      /\ Once(r.lru) /\ \A x : On(r.lru, x) <=> On(c.lru, x) /\ x # h
  BY FinishEraseFields
<1> HIDE DEF r
<1>2. /\ c \in Shard /\ h \in DOMAIN c.refs /\ h \in DOMAIN c.in_cache
  BY DEF ExactBut, Shard
<1>3. \A x \in Handles : r.in_cache[x] <=> c.in_cache[x] /\ x # h
  BY <1>1, <1>2 DEF Shard
<1>4. \A x \in Handles : r.refs[x] = c.refs[x] - (IF x = h THEN 1 ELSE 0)
  <2>1. c.refs \in [Handles -> Int] /\ r.refs = [c.refs EXCEPT ![h] = @ - 1]
    BY <1>1, <1>2 DEF Shard
  <2>2. QED  BY <2>1
<1>5. \A x \in Handles : r.refs[x] = held[x] + (IF r.in_cache[x] THEN 1 ELSE 0)
  BY <1>3, <1>4 DEF ExactBut
<1>6. r.usage = Cardinality(Cached(r))
  <2>1. Cached(r) = Cached(c) \ {h} /\ h \in Cached(c)
    BY <1>3 DEF Cached
  <2>2. Cardinality(Cached(r)) = Cardinality(Cached(c)) - 1
    <3>1. IsFiniteSet(Cached(c))
      BY HandlesFinite, FS_Subset DEF Cached
    <3>2. QED  BY <2>1, <3>1, FS_RemoveElement
  <2>3. QED  BY <1>1, <2>2 DEF ExactBut
<1>7. Exact(r, held)
  <2>1. \A x \in Handles : On(r.lru, x) <=> r.in_cache[x] /\ held[x] = 0
    BY <1>1, <1>3 DEF ExactBut
  <2>2. \A x \in Handles : x \in r.in_use <=> r.in_cache[x] /\ held[x] > 0
    BY <1>1, <1>3 DEF ExactBut
  <2>3. \A k \in CacheKeys : r.table[k] # None =>
          r.in_cache[r.table[k]] /\ Key(r.table[k]) = k /\ r.table[k] \notin {}
    <3> SUFFICES ASSUME NEW k \in CacheKeys, r.table[k] # None
                 PROVE  r.in_cache[r.table[k]] /\ Key(r.table[k]) = k
      OBVIOUS
    <3>1. c.table[k] \in Handles /\ c.table[k] # None
      BY <1>1, <1>2 DEF Shard
    <3>2. c.in_cache[c.table[k]] /\ Key(c.table[k]) = k /\ c.table[k] # h
      BY <3>1 DEF ExactBut
    <3>3. QED  BY <1>1, <1>3, <3>1, <3>2
  <2>4. \A x \in Handles : r.in_cache[x] => r.charge[x] = 1 /\ (x \notin {} => r.table[Key(x)] = x)
    BY <1>1, <1>3 DEF ExactBut
  <2>5. QED  BY <1>1, <1>5, <1>6, <2>1, <2>2, <2>3, <2>4 DEF Exact, ExactBut
<1>8. Keeps(c, r, {})
  BY <1>1, <1>4, <1>5, <1>3 DEF Keeps, ExactBut
<1>9. QED  BY <1>1, <1>3, <1>7, <1>8 DEF r
\* What holds of two operations one after the other.
LEMMA KeepsBoth ==
  ASSUME NEW held \in [Handles -> Nat], NEW X, NEW c, NEW d, NEW e,
         Exact(d, held), Keeps(c, d, X), Keeps(d, e, {}), d.dead \subseteq e.dead
  PROVE  Keeps(c, e, X)
<1>1. \A h \in Handles : d.refs[h] \in Nat
  <2>1. \A h \in Handles : held[h] \in Nat /\ d.refs[h] = held[h] + (IF d.in_cache[h] THEN 1 ELSE 0)
    BY DEF Exact, ExactBut
  <2>2. QED  BY <2>1
<1> SUFFICES ASSUME NEW h \in Handles
             PROVE  /\ e.refs[h] > 0 => c.refs[h] > 0 \/ h \in X
                    /\ c.refs[h] > 0 /\ e.refs[h] = 0 => h \in e.dead
  BY DEF Keeps
<1>2. e.refs[h] > 0 => d.refs[h] > 0
  BY DEF Keeps
<1>3. d.refs[h] > 0 => c.refs[h] > 0 \/ h \in X
  BY DEF Keeps
<1>4. c.refs[h] > 0 /\ d.refs[h] = 0 => h \in e.dead
  BY DEF Keeps
<1>5. d.refs[h] > 0 /\ e.refs[h] = 0 => h \in e.dead
  BY DEF Keeps
<1>6. d.refs[h] > 0 \/ d.refs[h] = 0
  BY <1>1
<1>7. QED  BY <1>2, <1>3, <1>4, <1>5, <1>6

\* An entry has its place in the table.
LEMMA KeyOnce ==
  ASSUME NEW held, NEW c, Exact(c, held), NEW g \in Handles, NEW h \in Handles,
         c.in_cache[g], c.in_cache[h]
  PROVE  /\ Key(g) = Key(h) => g = h
         /\ c.table[Key(h)] = h
BY DEF Exact, ExactBut

LEMMA EraseExact ==
  ASSUME NEW held \in [Handles -> Nat], NEW k \in CacheKeys, NEW c, Exact(c, held)
  PROVE  LET r == Erase(c, k) IN
         /\ Exact(r, held) /\ Keeps(c, r, {}) /\ c.dead \subseteq r.dead
         /\ \A x \in Handles : r.in_cache[x] <=> c.in_cache[x] /\ Key(x) # k
         /\ \A x \in Handles : On(r.lru, x) <=> On(c.lru, x) /\ Key(x) # k
<1> DEFINE h == c.table[k]
           t == TableRemove(c, k)
           r == Erase(c, k)
<1>1. c \in Shard /\ h \in Handles \cup {None} /\ k \in DOMAIN c.table
  BY DEF Exact, ExactBut, Shard
<1>2. /\ t \in Shard /\ t.refs = c.refs /\ t.in_cache = c.in_cache /\ t.charge = c.charge
      /\ t.lru = c.lru /\ t.in_use = c.in_use /\ t.usage = c.usage /\ t.dead = c.dead
      /\ t.table = [c.table EXCEPT ![k] = None]
  <2>1. [c.table EXCEPT ![k] = None] \in [CacheKeys -> Handles \cup {None}]
    BY <1>1 DEF Shard
  <2>2. QED  BY <1>1, <2>1 DEF TableRemove, Shard
<1>3. \A x \in Handles : c.in_cache[x] => (Key(x) = k <=> x = h)
  <2> SUFFICES ASSUME NEW x \in Handles, c.in_cache[x] PROVE Key(x) = k <=> x = h
    OBVIOUS
  <2>1. c.table[Key(x)] = x
    BY KeyOnce
  <2>2. x # None
    BY HandlesFinite
  <2>3. h # None => Key(h) = k
    BY DEF Exact, ExactBut
  <2>4. QED  BY <2>1, <2>2, <2>3
<1>4. \A x \in Handles : On(c.lru, x) => c.in_cache[x]
  BY DEF Exact, ExactBut
<1>5. r = FinishErase(t, h)
  BY DEF Erase
<1> HIDE DEF t, r
<1>6. \A j \in CacheKeys : t.table[j] = IF j = k THEN None ELSE c.table[j]
  BY <1>1, <1>2
<1>7. CASE h = None
  <2>1. r = t
    BY <1>5, <1>7 DEF FinishErase
  <2>2. \A x \in Handles : c.in_cache[x] => Key(x) # k
    BY <1>3, <1>7, HandlesFinite
  <2>3. Exact(t, held)
    <3>1. \A j \in CacheKeys : t.table[j] = c.table[j]
      BY <1>6, <1>7
    <3>2. \A x \in Handles : Key(x) \in CacheKeys
      BY KeyOfHandle
    <3>3. Cached(t) = Cached(c)
      BY <1>2 DEF Cached
    <3>4. \A j \in CacheKeys : t.table[j] # None =>
            t.in_cache[t.table[j]] /\ Key(t.table[j]) = j /\ t.table[j] \notin {}
      BY <1>2, <3>1 DEF Exact, ExactBut
    <3>5. \A x \in Handles : t.in_cache[x] => t.charge[x] = 1 /\ (x \notin {} => t.table[Key(x)] = x)
      BY <1>2, <3>1, <3>2 DEF Exact, ExactBut
    <3>6. QED  BY <1>2, <3>3, <3>4, <3>5 DEF Exact, ExactBut
  <2>4. Keeps(c, t, {})
    BY <1>2 DEF Keeps
  <2>5. QED  BY <1>2, <1>4, <2>1, <2>2, <2>3, <2>4 DEF r
<1>8. CASE h # None
  <2>1. h \in Handles /\ c.in_cache[h] /\ Key(h) = k
    BY <1>1, <1>8 DEF Exact, ExactBut
  <2>2. ExactBut(t, held, {h})
    <3>1. \A x \in Handles : Key(x) \in CacheKeys
      BY KeyOfHandle
    <3>2. Cached(t) = Cached(c)
      BY <1>2 DEF Cached
    <3>3. \A j \in CacheKeys : t.table[j] # None =>
            t.in_cache[t.table[j]] /\ Key(t.table[j]) = j /\ t.table[j] \notin {h}
      <4> SUFFICES ASSUME NEW j \in CacheKeys, t.table[j] # None
                   PROVE  t.in_cache[t.table[j]] /\ Key(t.table[j]) = j /\ t.table[j] \notin {h}
        OBVIOUS
      <4>1. j # k /\ t.table[j] = c.table[j]
        BY <1>6
      <4>2. c.in_cache[c.table[j]] /\ Key(c.table[j]) = j
        BY <4>1 DEF Exact, ExactBut
      <4>3. QED  BY <1>2, <2>1, <4>1, <4>2
    <3>4. \A x \in Handles : t.in_cache[x] => t.charge[x] = 1 /\ (x \notin {h} => t.table[Key(x)] = x)
      BY <1>2, <1>3, <1>6, <3>1 DEF Exact, ExactBut
    <3>5. QED  BY <1>2, <3>2, <3>3, <3>4 DEF Exact, ExactBut
  <2>3. t.in_cache[h]
    BY <1>2, <2>1
  <2>4. /\ Exact(r, held) /\ Keeps(t, r, {}) /\ t.dead \subseteq r.dead
        /\ \A x \in Handles : r.in_cache[x] <=> t.in_cache[x] /\ x # h
        /\ \A x : On(r.lru, x) <=> On(t.lru, x) /\ x # h
    <3> HIDE DEF h
    <3> DEFINE f == FinishErase(t, h)
    <3>1. /\ Exact(f, held) /\ Keeps(t, f, {}) /\ t.dead \subseteq f.dead
          /\ \A x \in Handles : f.in_cache[x] <=> t.in_cache[x] /\ x # h
          /\ \A x : On(f.lru, x) <=> On(t.lru, x) /\ x # h
      BY <2>1, <2>2, <2>3, FinishEraseExact
    <3>2. QED  BY <1>5, <3>1
  <2>5. Keeps(c, r, {})
    BY <1>2, <2>4 DEF Keeps
  <2>6. QED  BY <1>2, <1>3, <1>4, <2>4, <2>5 DEF r
<1>9. QED  BY <1>7, <1>8
LEMMA EvictInOrderExact ==
  ASSUME NEW held \in [Handles -> Nat], NEW c, Exact(c, held)
  PROVE  LET r == EvictInOrder(c, c.lru) IN
         Exact(r, held) /\ Keeps(c, r, {}) /\ c.dead \subseteq r.dead
<1> DEFINE q == c.lru
           len == Len(q)
<1>1. q \in Seq(Handles) /\ len \in Nat /\ \A n \in 1..len : q[n] \in Handles
  BY DEF Exact, ExactBut, Shard
<1>2. Once(q)
  BY DEF Exact, ExactBut
<1> HIDE DEF q
<1>3. PICK e : /\ e[0] = c /\ e[len] = EvictInOrder(c, q)
               /\ \A n \in 1..len : e[n] = EvictIfFull(e[n - 1], q[n])
  <2> DEFINE Loop(i, p) == \E e : /\ e[0] = i /\ e[Len(p)] = EvictInOrder(i, p)
                                  /\ \A n \in 1..Len(p) : e[n] = EvictIfFull(e[n - 1], p[n])
  <2>1. \A i : \A S : \A p \in Seq(S) : Loop(i, p)
    BY EvictionLoop
  <2>2. q \in Seq(Handles)
    BY <1>1
  <2> HIDE DEF Loop
  <2>3. Loop(c, q)
    BY <2>1, <2>2
  <2>4. QED  BY <2>3 DEF Loop
<1> HIDE DEF len
<1> DEFINE Good(n) == /\ Exact(e[n], held) /\ Keeps(c, e[n], {}) /\ c.dead \subseteq e[n].dead
                      /\ \A m \in 1..len : m > n => On(e[n].lru, q[m])
           T == {n \in Nat : n <= len => Good(n)}
<1>4. 0 \in T
  <2>1. Keeps(c, c, {})
    BY DEF Keeps, Exact, ExactBut
  <2>2. \A m \in 1..len : On(c.lru, q[m])
    BY DEF On, q, len
  <2>3. QED  BY <1>3, <2>1, <2>2
<1>5. ASSUME NEW n \in Nat, n \in T PROVE n + 1 \in T
  <2> SUFFICES ASSUME n + 1 <= len PROVE Good(n + 1)
    OBVIOUS
  <2> DEFINE d == e[n]
             h == q[n + 1]
  <2>1. Good(n) /\ n + 1 \in 1..len /\ e[n + 1] = EvictIfFull(d, h) /\ h \in Handles
    <3>1. n + 1 \in 1..len /\ (n + 1) - 1 = n
      BY <1>1
    <3>2. QED  BY <1>1, <1>3, <1>5, <3>1
  <2>2. On(d.lru, h)
    BY <2>1
  <2>3. d.in_cache[h]
    BY <2>1, <2>2 DEF Exact, ExactBut
  <2>4. d.table[Key(h)] = h /\ Key(h) \in CacheKeys
    BY <2>1, <2>3, KeyOnce, KeyOfHandle
  <2>5. EvictOldest(d, h) = Erase(d, Key(h))
    BY <2>4 DEF EvictOldest, Erase
  <2> DEFINE r == Erase(d, Key(h))
  <2>6. CASE e[n + 1] = d
    BY <2>1, <2>6
  <2>7. CASE e[n + 1] = r
    <3>1. /\ Exact(r, held) /\ Keeps(d, r, {}) /\ d.dead \subseteq r.dead
          /\ \A x \in Handles : On(r.lru, x) <=> On(d.lru, x) /\ Key(x) # Key(h)
      <4> HIDE DEF d, h
      <4>1. Exact(d, held)
        BY <2>1 DEF d
      <4>2. QED  BY <2>4, <4>1, EraseExact
    <3>2. Keeps(c, r, {})
      <4> HIDE DEF d, r
      <4>1. Exact(d, held) /\ Keeps(c, d, {})
        BY <2>1 DEF d
      <4>2. QED  BY <3>1, <4>1, KeepsBoth
    <3>3. ASSUME NEW m \in 1..len, m > n + 1 PROVE On(r.lru, q[m])
      <4>1. q[m] \in Handles /\ On(d.lru, q[m]) /\ q[m] # h
        BY <1>1, <1>2, <2>1, <3>3 DEF Once, q, len
      <4>2. d.in_cache[q[m]]
        BY <2>1, <4>1 DEF Exact, ExactBut
      <4>3. Key(q[m]) # Key(h)
        BY <2>1, <2>3, <4>1, <4>2, KeyOnce
      <4>4. QED  BY <3>1, <4>1, <4>3
    <3>4. c.dead \subseteq r.dead
      BY <2>1, <3>1
    <3> HIDE DEF r
    <3>5. QED  BY <2>7, <3>1, <3>2, <3>3, <3>4
  <2>8. QED  BY <2>1, <2>5, <2>6, <2>7 DEF EvictIfFull
<1>6. len \in T
  BY <1>1, <1>4, <1>5, AllNumbers
<1>7. QED  BY <1>1, <1>3, <1>6 DEF q

\* The cache after RemoveObsoleteFiles.
LEMMA EvictedExact ==
  ASSUME NEW held \in [Handles -> Nat], NEW c, Exact(c, held), NEW S \in SUBSET CacheKeys
  PROVE  LET r == Evicted(c, S) IN
         /\ Exact(r, held) /\ Keeps(c, r, {}) /\ c.dead \subseteq r.dead
         /\ \A x \in Handles : r.in_cache[x] => Key(x) \notin S
<1>1. IsFiniteSet(S)
  <2>1. IsFiniteSet(CacheKeys)
    BY ReadersAssumption, FS_Interval DEF Files
  <2>2. QED  BY <2>1, FS_Subset
<1>2. PICK e : /\ e[{}] = c /\ e[S] = Evicted(c, S)
               /\ \A s \in SUBSET S : s # {} => \E x \in s : e[s] = Erase(e[s \ {x}], x)
  <2> DEFINE Fold(d, A) == \E e : /\ e[{}] = d /\ e[A] = Evicted(d, A)
                                  /\ \A s \in SUBSET A : s # {} =>
                                       \E x \in s : e[s] = Erase(e[s \ {x}], x)
  <2>1. \A d : \A A : IsFiniteSet(A) => Fold(d, A)
    BY EvictionFold
  <2> HIDE DEF Fold
  <2>2. Fold(c, S)
    BY <1>1, <2>1
  <2>3. QED  BY <2>2 DEF Fold
<1> DEFINE Good(s) == /\ Exact(e[s], held) /\ Keeps(c, e[s], {}) /\ c.dead \subseteq e[s].dead
                      /\ \A x \in Handles : e[s].in_cache[x] => Key(x) \notin s
           T == {s \in SUBSET S : Good(s)}
<1>3. {} \in T
  <2>1. Keeps(c, c, {})
    BY DEF Keeps, Exact, ExactBut
  <2>2. QED  BY <1>2, <2>1
<1>4. ASSUME NEW s \in SUBSET S, s # {} /\ \A x \in s : s \ {x} \in T PROVE s \in T
  <2>1. PICK x \in s : e[s] = Erase(e[s \ {x}], x)
    BY <1>2, <1>4
  <2> DEFINE d == e[s \ {x}]
             r == Erase(d, x)
  <2>2. Good(s \ {x}) /\ x \in CacheKeys
    BY <1>4
  <2>3. Exact(d, held) /\ Keeps(c, d, {}) /\ c.dead \subseteq d.dead
    BY <2>2
  <2> HIDE DEF d
  <2>4. /\ Exact(r, held) /\ Keeps(d, r, {}) /\ d.dead \subseteq r.dead
        /\ \A y \in Handles : r.in_cache[y] <=> d.in_cache[y] /\ Key(y) # x
    BY <2>2, <2>3, EraseExact
  <2> HIDE DEF r
  <2>5. Keeps(c, r, {})
    BY <2>3, <2>4, KeepsBoth
  <2>6. \A y \in Handles : r.in_cache[y] => Key(y) \notin s
    BY <2>2, <2>4 DEF d
  <2>7. QED  BY <2>1, <2>3, <2>4, <2>5, <2>6 DEF d, r
<1>5. S \in T
  <2> HIDE DEF T
  <2>1. S \in SUBSET S
    OBVIOUS
  <2>2. QED  BY <1>1, <1>3, <1>4, <2>1, AllSubsets
<1>6. QED  BY <1>2, <1>5
\* A hit: one client more uses the entry.
LEMMA RefExact ==
  ASSUME NEW held \in [Handles -> Nat], NEW h \in Handles, NEW c, Exact(c, held), c.in_cache[h]
  PROVE  LET r == Ref(c, h) IN
         Exact(r, More(held, h)) /\ Keeps(c, r, {}) /\ c.dead \subseteq r.dead
<1> DEFINE g == More(held, h)
           l == LRU_Remove(c, h)
           m == IF c.refs[h] = 1 /\ c.in_cache[h] THEN [l EXCEPT !.in_use = @ \cup {h}] ELSE c
           r == Ref(c, h)
<1>1. c \in Shard /\ Once(c.lru) /\ c.refs[h] = held[h] + 1 /\ h \in DOMAIN c.refs
  BY DEF Exact, ExactBut, Shard
<1>2. /\ l \in Shard /\ l.refs = c.refs /\ l.in_cache = c.in_cache /\ l.charge = c.charge
      /\ l.table = c.table /\ l.usage = c.usage /\ l.dead = c.dead
      /\ l.in_use = c.in_use \ {h}
      /\ Once(l.lru) /\ \A x : On(l.lru, x) <=> On(c.lru, x) /\ x # h
  BY <1>1, RemovedFields
<1> HIDE DEF l
<1>3. /\ m \in Shard /\ m.refs = c.refs /\ m.in_cache = c.in_cache /\ m.charge = c.charge
      /\ m.table = c.table /\ m.usage = c.usage /\ m.dead = c.dead
      /\ Once(m.lru)
      /\ \A x \in Handles : x \in m.in_use <=> c.in_cache[x] /\ (held[x] > 0 \/ x = h)
      /\ \A x \in Handles : On(m.lru, x) <=> c.in_cache[x] /\ held[x] = 0 /\ x # h
  <2>1. \A x \in Handles : /\ x \in c.in_use <=> c.in_cache[x] /\ held[x] > 0
                           /\ On(c.lru, x) <=> c.in_cache[x] /\ held[x] = 0
                           /\ held[x] \in Nat
    BY DEF Exact, ExactBut
  <2>2. CASE held[h] = 0
    <3>1. m = [l EXCEPT !.in_use = @ \cup {h}]
      BY <1>1, <2>2
    <3> HIDE DEF m
    <3>2. /\ m \in Shard /\ m.refs = l.refs /\ m.in_cache = l.in_cache /\ m.charge = l.charge
          /\ m.table = l.table /\ m.usage = l.usage /\ m.dead = l.dead
          /\ m.lru = l.lru /\ m.in_use = l.in_use \cup {h}
      BY <1>2, <3>1 DEF Shard
    <3>3. QED  BY <1>2, <2>1, <3>2
  <2>3. CASE held[h] # 0
    <3>1. m = c
      BY <1>1, <2>1, <2>3
    <3> HIDE DEF m
    <3>2. QED  BY <1>1, <2>1, <2>3, <3>1
  <2>4. QED  BY <2>2, <2>3
<1>4. r = [m EXCEPT !.refs[h] = @ + 1]
  BY DEF Ref, l
<1> HIDE DEF m, r
<1>5. /\ r \in Shard /\ r.refs = [c.refs EXCEPT ![h] = @ + 1] /\ r.in_cache = c.in_cache
      /\ r.charge = c.charge /\ r.table = c.table /\ r.usage = c.usage /\ r.dead = c.dead
      /\ r.in_use = m.in_use /\ r.lru = m.lru
  <2>1. [m.refs EXCEPT ![h] = @ + 1] \in [Handles -> Int]
    BY <1>3 DEF Shard
  <2>2. /\ r \in Shard /\ r.refs = [m.refs EXCEPT ![h] = @ + 1] /\ r.in_cache = m.in_cache
        /\ r.charge = m.charge /\ r.table = m.table /\ r.usage = m.usage /\ r.dead = m.dead
        /\ r.in_use = m.in_use /\ r.lru = m.lru
    BY <1>3, <1>4, <2>1 DEF Shard
  <2>3. QED  BY <1>3, <2>2
<1>6. /\ g \in [Handles -> Nat]
      /\ \A x \in Handles : g[x] = held[x] + (IF x = h THEN 1 ELSE 0)
      /\ \A x \in Handles : r.refs[x] = c.refs[x] + (IF x = h THEN 1 ELSE 0)
  BY <1>1, <1>5 DEF Shard, More
<1> HIDE DEF g
<1>7. Exact(r, g)
  <2>1. \A x \in Handles : c.refs[x] = held[x] + (IF c.in_cache[x] THEN 1 ELSE 0)
    BY DEF Exact, ExactBut
  <2>2. \A x \in Handles : r.refs[x] = g[x] + (IF r.in_cache[x] THEN 1 ELSE 0)
    BY <1>5, <1>6, <2>1
  <2>3. \A x \in Handles : On(r.lru, x) <=> r.in_cache[x] /\ g[x] = 0
    BY <1>3, <1>5, <1>6
  <2>4. \A x \in Handles : x \in r.in_use <=> r.in_cache[x] /\ g[x] > 0
    BY <1>3, <1>5, <1>6
  <2>5. Cached(r) = Cached(c)
    BY <1>5 DEF Cached
  <2>6. QED  BY <1>3, <1>5, <2>2, <2>3, <2>4, <2>5 DEF Exact, ExactBut
<1>8. Keeps(c, r, {})
  BY <1>1, <1>5, <1>6 DEF Keeps
<1>9. QED  BY <1>5, <1>7, <1>8 DEF g, r

\* A release: the entry goes back to lru_, or goes if the cache does not have it.
LEMMA UnrefExact ==
  ASSUME NEW held \in [Handles -> Nat], NEW h \in Handles, NEW c, Exact(c, held), held[h] > 0
  PROVE  LET r == Unref(c, h) IN
         Exact(r, Less(held, h)) /\ Keeps(c, r, {}) /\ c.dead \subseteq r.dead
<1> DEFINE g == Less(held, h)
           d == [c EXCEPT !.refs[h] = @ - 1]
           l == LRU_Remove(d, h)
           r == Unref(c, h)
<1>1. /\ c \in Shard /\ Once(c.lru) /\ h \in DOMAIN c.refs
      /\ c.refs[h] = held[h] + (IF c.in_cache[h] THEN 1 ELSE 0)
      /\ \A x \in Handles : /\ x \in c.in_use <=> c.in_cache[x] /\ held[x] > 0
                            /\ On(c.lru, x) <=> c.in_cache[x] /\ held[x] = 0
                            /\ held[x] \in Nat
                            /\ c.refs[x] = held[x] + (IF c.in_cache[x] THEN 1 ELSE 0)
                            /\ c.in_cache[x] \in BOOLEAN
  BY DEF Exact, ExactBut, Shard
<1>2. /\ d \in Shard /\ d.refs = [c.refs EXCEPT ![h] = @ - 1] /\ d.in_cache = c.in_cache
      /\ d.charge = c.charge /\ d.table = c.table /\ d.usage = c.usage /\ d.dead = c.dead
      /\ d.in_use = c.in_use /\ d.lru = c.lru
  <2>1. [c.refs EXCEPT ![h] = @ - 1] \in [Handles -> Int]
    BY <1>1 DEF Shard
  <2>2. QED  BY <1>1, <2>1 DEF Shard
<1>3. d.refs[h] = held[h] - 1 + (IF c.in_cache[h] THEN 1 ELSE 0)
  BY <1>1, <1>2
<1>4. r = CASE d.refs[h] = 0 -> [d EXCEPT !.dead = @ \cup {h}, !.charge[h] = 0]
            [] d.refs[h] = 1 /\ d.in_cache[h] -> [l EXCEPT !.lru = Append(@, h)]
            [] OTHER -> d
  BY DEF Unref
<1>5. /\ l \in Shard /\ l.refs = d.refs /\ l.in_cache = d.in_cache /\ l.charge = d.charge
      /\ l.table = d.table /\ l.usage = d.usage /\ l.dead = d.dead
      /\ l.in_use = d.in_use \ {h}
      /\ Once(l.lru) /\ \A x : On(l.lru, x) <=> On(d.lru, x) /\ x # h
  <2> HIDE DEF d
  <2>1. Once(d.lru)
    BY <1>1, <1>2
  <2>2. QED  BY <1>2, <2>1, RemovedFields
<1> HIDE DEF d, l, r
<1>6. /\ r \in Shard /\ r.refs = d.refs /\ r.in_cache = c.in_cache
      /\ \A x \in Handles : c.in_cache[x] => r.charge[x] = c.charge[x]
      /\ r.table = c.table /\ r.usage = c.usage
      /\ r.dead = c.dead \cup (IF d.refs[h] = 0 THEN {h} ELSE {})
      /\ Once(r.lru)
      /\ \A x \in Handles : x \in r.in_use <=> c.in_cache[x] /\ held[x] > (IF x = h THEN 1 ELSE 0)
      /\ \A x \in Handles : On(r.lru, x) <=> c.in_cache[x] /\ held[x] = (IF x = h THEN 1 ELSE 0)
  <2>1. CASE d.refs[h] = 0
    <3>1. r = [d EXCEPT !.dead = @ \cup {h}, !.charge[h] = 0]
      BY <1>4, <2>1
    <3>2. ~c.in_cache[h] /\ held[h] = 1
      BY <1>1, <1>3, <2>1
    <3>3. [d.charge EXCEPT ![h] = 0] \in [Handles -> Int] /\ d.dead \cup {h} \in SUBSET Handles
      BY <1>2 DEF Shard
    <3>4. /\ r \in Shard /\ r.refs = d.refs /\ r.in_cache = d.in_cache
          /\ r.charge = [d.charge EXCEPT ![h] = 0]
          /\ r.table = d.table /\ r.usage = d.usage /\ r.dead = d.dead \cup {h}
          /\ r.in_use = d.in_use /\ r.lru = d.lru
      BY <1>2, <3>1, <3>3 DEF Shard
    <3>5. \A x \in Handles : c.in_cache[x] => x # h /\ r.charge[x] = c.charge[x]
      BY <1>2, <3>2, <3>4 DEF Shard
    <3>6. QED  BY <1>1, <1>2, <2>1, <3>2, <3>4, <3>5
  <2>2. CASE d.refs[h] = 1 /\ d.in_cache[h]
    <3>1. r = [l EXCEPT !.lru = Append(@, h)]
      BY <1>4, <2>2
    <3>2. c.in_cache[h] /\ held[h] = 1
      BY <1>1, <1>2, <1>3, <2>2
    <3>3. /\ Append(l.lru, h) \in Seq(Handles) /\ Once(Append(l.lru, h))
          /\ \A x : On(Append(l.lru, h), x) <=> On(l.lru, x) \/ x = h
      <4>1. l.lru \in Seq(Handles) /\ Once(l.lru) /\ ~On(l.lru, h)
        BY <1>5 DEF Shard
      <4>2. QED  BY <4>1, Linked
    <3>4. /\ r \in Shard /\ r.refs = l.refs /\ r.in_cache = l.in_cache /\ r.charge = l.charge
          /\ r.table = l.table /\ r.usage = l.usage /\ r.dead = l.dead
          /\ r.in_use = l.in_use /\ r.lru = Append(l.lru, h)
      BY <1>5, <3>1, <3>3 DEF Shard
    <3>5. QED  BY <1>1, <1>2, <1>5, <2>2, <3>2, <3>3, <3>4
  <2>3. CASE d.refs[h] # 0 /\ ~(d.refs[h] = 1 /\ d.in_cache[h])
    <3>1. r = d
      BY <1>4, <2>3
    <3>2. ~c.in_cache[h] \/ held[h] > 1
      BY <1>1, <1>2, <1>3, <2>3
    <3>3. QED  BY <1>1, <1>2, <2>3, <3>1, <3>2
  <2>4. QED  BY <2>1, <2>2, <2>3
<1>7. /\ g \in [Handles -> Nat]
      /\ \A x \in Handles : g[x] = held[x] - (IF x = h THEN 1 ELSE 0)
      /\ \A x \in Handles : r.refs[x] = c.refs[x] - (IF x = h THEN 1 ELSE 0)
  <2>1. g \in [Handles -> Nat] /\ \A x \in Handles : g[x] = held[x] - (IF x = h THEN 1 ELSE 0)
    BY <1>1 DEF Less
  <2>2. c.refs \in [Handles -> Int] /\ r.refs = [c.refs EXCEPT ![h] = @ - 1]
    BY <1>1, <1>2, <1>6 DEF Shard
  <2> HIDE DEF g, r
  <2>3. \A x \in Handles : r.refs[x] = c.refs[x] - (IF x = h THEN 1 ELSE 0)
    BY <2>2
  <2>4. QED  BY <2>1, <2>3
<1> HIDE DEF g
<1>8. Exact(r, g)
  <2>1. \A x \in Handles : r.refs[x] = g[x] + (IF r.in_cache[x] THEN 1 ELSE 0)
    BY <1>1, <1>6, <1>7
  <2>2. \A x \in Handles : On(r.lru, x) <=> r.in_cache[x] /\ g[x] = 0
    BY <1>1, <1>6, <1>7
  <2>3. \A x \in Handles : x \in r.in_use <=> r.in_cache[x] /\ g[x] > 0
    BY <1>1, <1>6, <1>7
  <2>4. Cached(r) = Cached(c)
    BY <1>6 DEF Cached
  <2>5. QED  BY <1>6, <2>1, <2>2, <2>3, <2>4 DEF Exact, ExactBut
<1>9. Keeps(c, r, {}) /\ c.dead \subseteq r.dead
  BY <1>1, <1>2, <1>6, <1>7 DEF Keeps
<1>10. QED  BY <1>8, <1>9 DEF g, r
LEMMA NewHandleIsFree ==
  ASSUME NEW k \in CacheKeys, NEW c, CanInsert(c, k)
  PROVE  NewHandle(c, k) \in Handles /\ Key(NewHandle(c, k)) = k /\ c.refs[NewHandle(c, k)] = 0
<1> DEFINE I == {i \in 1..MaxEntries : c.refs[<<k, i>>] = 0}
<1>1. I \in SUBSET Nat /\ I # {}
  BY DEF CanInsert
<1>2. \E m \in I : \A j \in I : m <= j
  <2> HIDE DEF I
  <2>1. QED  BY <1>1, LeastNumber
<1>3. Min(I) \in I
  <2> HIDE DEF I
  <2>1. QED  BY <1>2, Zenon DEF Min
<1>4. NewHandle(c, k) = <<k, Min(I)>>
  BY DEF NewHandle
<1>5. Min(I) \in 1..MaxEntries /\ c.refs[<<k, Min(I)>>] = 0
  BY <1>3
<1> HIDE DEF I
<1>6. QED  BY <1>4, <1>5 DEF Handles, Key

\* The new entry, which its client uses, before the one it replaces goes; and
\* the one that the cache does not keep because its capacity is 0.
InCache(c, k, h) ==
  [[c EXCEPT !.charge[h] = 1] EXCEPT !.refs[h] = 2, !.in_cache[h] = TRUE, !.in_use = @ \cup {h},
                                     !.usage = @ + 1, !.table[k] = h]
NotInCache(c, h) == [[c EXCEPT !.charge[h] = 1] EXCEPT !.refs[h] = 1, !.in_cache[h] = FALSE]

LEMMA InsertedExact ==
  ASSUME NEW held \in [Handles -> Nat], NEW k \in CacheKeys, NEW c, Exact(c, held),
         NEW h \in Handles, Key(h) = k, c.refs[h] = 0
  PROVE  LET m == InCache(c, k, h)
             n == NotInCache(c, h)
             g == More(held, h)
         IN  /\ g \in [Handles -> Nat]
             /\ ExactBut(m, g, {c.table[k]}) /\ Keeps(c, m, {h}) /\ c.dead \subseteq m.dead
             /\ c.table[k] # None => c.table[k] \in Handles /\ m.in_cache[c.table[k]]
             /\ Exact(n, g) /\ Keeps(c, n, {h}) /\ c.dead \subseteq n.dead
<1> DEFINE old == c.table[k]
           e == [c EXCEPT !.charge[h] = 1]
           m == [e EXCEPT !.refs[h] = 2, !.in_cache[h] = TRUE, !.in_use = @ \cup {h},
                          !.usage = @ + 1, !.table[k] = h]
           n == [e EXCEPT !.refs[h] = 1, !.in_cache[h] = FALSE]
           g == More(held, h)
<1>1. /\ c \in Shard /\ old \in Handles \cup {None} /\ c.usage = Cardinality(Cached(c)) /\ Once(c.lru)
      /\ \A x \in Handles : /\ x \in c.in_use <=> c.in_cache[x] /\ held[x] > 0
                            /\ On(c.lru, x) <=> c.in_cache[x] /\ held[x] = 0
                            /\ held[x] \in Nat
                            /\ c.refs[x] = held[x] + (IF c.in_cache[x] THEN 1 ELSE 0)
                            /\ c.in_cache[x] \in BOOLEAN
                            /\ c.in_cache[x] => c.charge[x] = 1 /\ c.table[Key(x)] = x
      /\ \A j \in CacheKeys : c.table[j] # None =>
           c.table[j] \in Handles /\ c.in_cache[c.table[j]] /\ Key(c.table[j]) = j
  BY DEF Exact, ExactBut, Shard
<1>2. held[h] = 0 /\ ~c.in_cache[h] /\ old # h
  <2>1. held[h] = 0 /\ ~c.in_cache[h]
    BY <1>1
  <2>2. QED  BY <1>1, <2>1, HandlesFinite
<1>3. /\ e \in Shard /\ e.refs = c.refs /\ e.in_cache = c.in_cache
      /\ e.charge = [c.charge EXCEPT ![h] = 1]
      /\ e.table = c.table /\ e.usage = c.usage /\ e.dead = c.dead
      /\ e.in_use = c.in_use /\ e.lru = c.lru
  <2>1. [c.charge EXCEPT ![h] = 1] \in [Handles -> Int]
    BY <1>1 DEF Shard
  <2>2. QED  BY <1>1, <2>1 DEF Shard
<1> HIDE DEF e
<1>4. /\ g \in [Handles -> Nat]
      /\ \A x \in Handles : g[x] = IF x = h THEN 1 ELSE held[x]
  BY <1>1, <1>2 DEF More
<1>5. \A x \in Handles : e.charge[x] = IF x = h THEN 1 ELSE c.charge[x]
  BY <1>1, <1>3 DEF Shard
<1>6. /\ n \in Shard /\ n.refs = [c.refs EXCEPT ![h] = 1]
      /\ n.in_cache = [c.in_cache EXCEPT ![h] = FALSE] /\ n.charge = e.charge
      /\ n.table = c.table /\ n.usage = c.usage /\ n.dead = c.dead
      /\ n.in_use = c.in_use /\ n.lru = c.lru
  <2>1. [e.refs EXCEPT ![h] = 1] \in [Handles -> Int] /\ [e.in_cache EXCEPT ![h] = FALSE] \in [Handles -> BOOLEAN]
    BY <1>3 DEF Shard
  <2>2. /\ n \in Shard /\ n.refs = [e.refs EXCEPT ![h] = 1]
        /\ n.in_cache = [e.in_cache EXCEPT ![h] = FALSE] /\ n.charge = e.charge
        /\ n.table = e.table /\ n.usage = e.usage /\ n.dead = e.dead
        /\ n.in_use = e.in_use /\ n.lru = e.lru
    BY <1>3, <2>1 DEF Shard
  <2>3. QED  BY <1>3, <2>2
<1>7. /\ m \in Shard /\ m.refs = [c.refs EXCEPT ![h] = 2]
      /\ m.in_cache = [c.in_cache EXCEPT ![h] = TRUE] /\ m.charge = e.charge
      /\ m.table = [c.table EXCEPT ![k] = h] /\ m.usage = c.usage + 1 /\ m.dead = c.dead
      /\ m.in_use = c.in_use \cup {h} /\ m.lru = c.lru
  <2>1. /\ [e.refs EXCEPT ![h] = 2] \in [Handles -> Int]
        /\ [e.in_cache EXCEPT ![h] = TRUE] \in [Handles -> BOOLEAN]
        /\ [e.table EXCEPT ![k] = h] \in [CacheKeys -> Handles \cup {None}]
        /\ e.in_use \cup {h} \in SUBSET Handles /\ e.usage + 1 \in Int
    BY <1>3 DEF Shard
  <2>2. /\ m \in Shard /\ m.refs = [e.refs EXCEPT ![h] = 2]
        /\ m.in_cache = [e.in_cache EXCEPT ![h] = TRUE] /\ m.charge = e.charge
        /\ m.table = [e.table EXCEPT ![k] = h] /\ m.usage = e.usage + 1 /\ m.dead = e.dead
        /\ m.in_use = e.in_use \cup {h} /\ m.lru = e.lru
    BY <1>3, <2>1 DEF Shard
  <2>3. QED  BY <1>3, <2>2
<1> HIDE DEF m, n, g, old
<1>11. c.refs \in [Handles -> Int] /\ c.in_cache \in [Handles -> BOOLEAN] /\ c.refs[h] = 0
  BY <1>1 DEF Shard
<1>8. Exact(n, g) /\ Keeps(c, n, {h})
  <2>1. \A x \in Handles : /\ n.in_cache[x] = c.in_cache[x]
                           /\ n.refs[x] = c.refs[x] + (IF x = h THEN 1 ELSE 0)
    <3>1. \A x \in Handles : n.in_cache[x] = c.in_cache[x]
      <4>1. n.in_cache = [c.in_cache EXCEPT ![h] = FALSE]
        BY <1>6
      <4>2. c.in_cache[h] = FALSE
        BY <1>2, <1>11
      <4>3. QED  BY <1>11, <4>1, <4>2
    <3>2. \A x \in Handles : n.refs[x] = c.refs[x] + (IF x = h THEN 1 ELSE 0)
      BY <1>6, <1>11
    <3>3. QED  BY <3>1, <3>2
  <2>2. \A x \in Handles : /\ n.refs[x] = g[x] + (IF n.in_cache[x] THEN 1 ELSE 0)
                           /\ On(n.lru, x) <=> n.in_cache[x] /\ g[x] = 0
                           /\ x \in n.in_use <=> n.in_cache[x] /\ g[x] > 0
    <3> SUFFICES ASSUME NEW x \in Handles
                 PROVE  /\ n.refs[x] = g[x] + (IF n.in_cache[x] THEN 1 ELSE 0)
                        /\ On(n.lru, x) <=> n.in_cache[x] /\ g[x] = 0
                        /\ x \in n.in_use <=> n.in_cache[x] /\ g[x] > 0
      OBVIOUS
    <3>1. n.lru = c.lru /\ n.in_use = c.in_use
      BY <1>6
    <3>2. CASE x = h
      BY <1>1, <1>2, <1>4, <2>1, <3>1, <3>2
    <3>3. CASE x # h
      <4>1. g[x] = held[x] /\ n.in_cache[x] = c.in_cache[x] /\ n.refs[x] = c.refs[x]
        BY <1>4, <1>11, <2>1, <3>3
      <4>2. QED  BY <1>1, <3>1, <4>1
    <3>4. QED  BY <3>2, <3>3
  <2>3. Cached(n) = Cached(c)
    BY <2>1 DEF Cached
  <2>4. \A x \in Handles : n.in_cache[x] => n.charge[x] = 1 /\ n.table[Key(x)] = x
    BY <1>1, <1>5, <1>6, <2>1
  <2>5. \A j \in CacheKeys : n.table[j] # None =>
          n.in_cache[n.table[j]] /\ Key(n.table[j]) = j
    BY <1>1, <1>6, <2>1
  <2>6. Exact(n, g)
    BY <1>1, <1>6, <2>2, <2>3, <2>4, <2>5 DEF Exact, ExactBut
  <2>7. Keeps(c, n, {h})
    BY <1>1, <2>1 DEF Keeps
  <2>8. QED  BY <2>6, <2>7
<1>9. /\ ExactBut(m, g, {old}) /\ Keeps(c, m, {h})
      /\ old # None => old \in Handles /\ m.in_cache[old]
  <2>1. \A x \in Handles : /\ m.in_cache[x] <=> c.in_cache[x] \/ x = h
                           /\ m.refs[x] = c.refs[x] + (IF x = h THEN 2 ELSE 0)
    <3>1. \A x \in Handles : m.in_cache[x] <=> c.in_cache[x] \/ x = h
      BY <1>7, <1>11
    <3>2. \A x \in Handles : m.refs[x] = c.refs[x] + (IF x = h THEN 2 ELSE 0)
      BY <1>7, <1>11
    <3>3. QED  BY <3>1, <3>2
  <2>2. \A j \in CacheKeys : m.table[j] = IF j = k THEN h ELSE c.table[j]
    BY <1>1, <1>7 DEF Shard
  <2>3. \A x \in Handles : /\ m.refs[x] = g[x] + (IF m.in_cache[x] THEN 1 ELSE 0)
                           /\ On(m.lru, x) <=> m.in_cache[x] /\ g[x] = 0
                           /\ x \in m.in_use <=> m.in_cache[x] /\ g[x] > 0
    BY <1>1, <1>2, <1>4, <1>7, <2>1
  <2>4. m.usage = Cardinality(Cached(m))
    <3>1. Cached(m) = Cached(c) \cup {h} /\ h \notin Cached(c) /\ Cached(c) \in SUBSET Handles
      BY <1>2, <2>1 DEF Cached
    <3>2. Cardinality(Cached(m)) = Cardinality(Cached(c)) + 1
      BY <3>1, HandlesFinite, FS_AddElement
    <3>3. QED  BY <1>1, <1>7, <3>2
  <2>5. \A x \in Handles : m.in_cache[x] => m.charge[x] = 1 /\ (x \notin {old} => m.table[Key(x)] = x)
    <3> SUFFICES ASSUME NEW x \in Handles, m.in_cache[x]
                 PROVE  m.charge[x] = 1 /\ (x # old => m.table[Key(x)] = x)
      OBVIOUS
    <3>1. CASE x = h
      BY <1>5, <1>7, <2>2, <3>1
    <3>2. CASE x # h
      <4>1. c.in_cache[x] /\ Key(x) \in CacheKeys
        BY <2>1, <3>2, KeyOfHandle
      <4>2. c.charge[x] = 1 /\ c.table[Key(x)] = x
        BY <1>1, <4>1
      <4>3. QED  BY <1>5, <1>7, <2>2, <3>2, <4>1, <4>2 DEF old
    <3>3. QED  BY <3>1, <3>2
  <2>6. \A j \in CacheKeys : m.table[j] # None =>
          m.in_cache[m.table[j]] /\ Key(m.table[j]) = j /\ m.table[j] \notin {old}
    <3> SUFFICES ASSUME NEW j \in CacheKeys, m.table[j] # None
                 PROVE  m.in_cache[m.table[j]] /\ Key(m.table[j]) = j /\ m.table[j] # old
      OBVIOUS
    <3>1. CASE j = k
      BY <1>2, <2>1, <2>2, <3>1
    <3>2. CASE j # k
      <4>1. m.table[j] = c.table[j] /\ c.table[j] # None
        BY <2>2, <3>2
      <4>2. c.table[j] \in Handles /\ c.in_cache[c.table[j]] /\ Key(c.table[j]) = j
        BY <1>1, <4>1
      <4>3. old # c.table[j]
        BY <1>1, <3>2, <4>1, <4>2 DEF old
      <4>4. QED  BY <2>1, <4>1, <4>2, <4>3
    <3>3. QED  BY <3>1, <3>2
  <2>7. ExactBut(m, g, {old})
    BY <1>1, <1>7, <2>3, <2>4, <2>5, <2>6 DEF ExactBut
  <2>8. Keeps(c, m, {h})
    BY <1>1, <2>1 DEF Keeps
  <2>9. old # None => old \in Handles /\ m.in_cache[old]
    BY <1>1, <2>1 DEF old
  <2>10. QED  BY <2>7, <2>8, <2>9
<1>10. m = InCache(c, k, h) /\ n = NotInCache(c, h)
  BY Zenon DEF m, n, e, InCache, NotInCache
<1>12. QED  BY <1>4, <1>6, <1>7, <1>8, <1>9, <1>10 DEF g, old
LEMMA InsertExact ==
  ASSUME NEW held \in [Handles -> Nat], NEW k \in CacheKeys, NEW c, Exact(c, held), CanInsert(c, k)
  PROVE  LET h == NewHandle(c, k)
             r == Insert(c, k, 1)
         IN  /\ h \in Handles /\ Key(h) = k /\ c.refs[h] = 0
             /\ Exact(r, More(held, h)) /\ Keeps(c, r, {h}) /\ c.dead \subseteq r.dead
<1> DEFINE h == NewHandle(c, k)
           old == c.table[k]
           m == InCache(c, k, h)
           n == NotInCache(c, h)
           g == More(held, h)
           i == IF capacity_ > 0 THEN FinishErase(m, old) ELSE n
           r == Insert(c, k, 1)
<1>1. h \in Handles /\ Key(h) = k /\ c.refs[h] = 0
  BY NewHandleIsFree
<1>2. r = EvictInOrder(i, i.lru)
  BY Zenon DEF Insert, EvictInOrder, InCache, NotInCache
<1> HIDE DEF h
<1>3. /\ g \in [Handles -> Nat]
      /\ ExactBut(m, g, {old}) /\ Keeps(c, m, {h}) /\ c.dead \subseteq m.dead
      /\ old # None => old \in Handles /\ m.in_cache[old]
      /\ Exact(n, g) /\ Keeps(c, n, {h}) /\ c.dead \subseteq n.dead
  <2>1. QED  BY <1>1, InsertedExact
<1> HIDE DEF m, n, g, r, old
<1>4. Exact(i, g) /\ Keeps(c, i, {h}) /\ c.dead \subseteq i.dead
  <2>1. CASE capacity_ > 0 /\ old = None
    <3>1. FinishErase(m, old) = m
      BY <2>1 DEF FinishErase
    <3>2. Exact(m, g)
      <4>1. \A x \in Handles : x # old
        BY <2>1, HandlesFinite
      <4>2. \A x \in Handles : m.in_cache[x] => m.charge[x] = 1 /\ m.table[Key(x)] = x
        BY <1>3, <4>1 DEF ExactBut
      <4>3. QED  BY <1>3, <4>2 DEF Exact, ExactBut
    <3>3. QED  BY <1>3, <2>1, <3>1, <3>2
  <2>2. CASE capacity_ > 0 /\ old # None
    <3> DEFINE f == FinishErase(m, old)
    <3>1. old \in Handles /\ m.in_cache[old]
      BY <1>3, <2>2
    <3>2. Exact(f, g) /\ Keeps(m, f, {}) /\ m.dead \subseteq f.dead
      BY <1>3, <3>1, FinishEraseExact
    <3>3. i = f
      BY <2>2
    <3> HIDE DEF f, i
    <3>4. Keeps(c, f, {h})
      <4>1. \A x \in Handles : m.refs[x] \in Nat
        <5>1. \A x \in Handles : g[x] \in Nat /\ m.refs[x] = g[x] + (IF m.in_cache[x] THEN 1 ELSE 0)
          BY <1>3 DEF ExactBut
        <5>2. QED  BY <5>1
      <4>2. \A x \in Handles : m.refs[x] > 0 \/ m.refs[x] = 0
        BY <4>1
      <4>3. QED  BY <1>3, <3>2, <4>2 DEF Keeps
    <3>5. QED  BY <1>3, <3>2, <3>3, <3>4
  <2>3. CASE ~(capacity_ > 0)
    BY <1>3, <2>3
  <2>4. QED  BY <2>1, <2>2, <2>3
<1> HIDE DEF i
<1>5. Exact(r, g) /\ Keeps(i, r, {}) /\ i.dead \subseteq r.dead
  BY <1>2, <1>3, <1>4, EvictInOrderExact
<1>6. Keeps(c, r, {h})
  BY <1>3, <1>4, <1>5, KeepsBoth
<1>7. QED  BY <1>1, <1>4, <1>5, <1>6 DEF h, g, r

\* What the model calls exact.
LEMMA ExactMeans ==
  ASSUME NEW held \in [Handles -> Nat], NEW c, Exact(c, held)
  PROVE  CacheIsExact(c)
<1> DEFINE cached == {h \in Handles : c.in_cache[h]}
<1>1. /\ c \in Shard /\ Once(c.lru)
      /\ \A x \in Handles : /\ x \in c.in_use <=> c.in_cache[x] /\ held[x] > 0
                            /\ On(c.lru, x) <=> c.in_cache[x] /\ held[x] = 0
                            /\ held[x] \in Nat
                            /\ c.refs[x] = held[x] + (IF c.in_cache[x] THEN 1 ELSE 0)
  BY DEF Exact, ExactBut, Shard
<1>2. \A x \in cached : /\ x \in c.in_use <=> c.refs[x] > 1
                        /\ On(c.lru, x) <=> c.refs[x] = 1
  BY <1>1
<1>3. ToSet(c.lru) = {h \in cached : c.refs[h] = 1} /\ IsInjective(c.lru)
  <2>1. c.lru \in Seq(Handles)
    BY <1>1 DEF Shard
  <2>2. \A x : x \in ToSet(c.lru) <=> On(c.lru, x)
    <3>1. DOMAIN c.lru = 1..Len(c.lru)
      BY <2>1
    <3>2. QED  BY <3>1 DEF ToSet, On
  <2>3. \A x : On(c.lru, x) => x \in Handles
    BY <2>1 DEF On
  <2>4. \A x \in Handles : On(c.lru, x) => c.in_cache[x]
    BY <1>1
  <2>5. IsInjective(c.lru)
    BY <1>1, <2>1 DEF IsInjective, Once
  <2>6. QED  BY <1>2, <2>2, <2>3, <2>4, <2>5
<1>4. c.in_use = {h \in cached : c.refs[h] > 1}
  <2>1. c.in_use \subseteq Handles /\ \A x \in c.in_use : x \in cached
    BY <1>1 DEF Shard
  <2>2. QED  BY <1>2, <2>1
<1>5. /\ \A k \in CacheKeys : c.table[k] # None => c.table[k] \in cached /\ Key(c.table[k]) = k
      /\ \A h \in cached : c.table[Key(h)] = h
  BY <1>1 DEF Exact, ExactBut, Shard
<1>6. c.usage = MapThenSumSet(LAMBDA h : c.charge[h], cached)
  <2>1. IsFiniteSet(cached) /\ Cached(c) = cached
    BY HandlesFinite DEF Cached
  <2> HIDE DEF cached
  <2> DEFINE Sum(d, S) == \E e : /\ e[{}] = 0 /\ e[S] = MapThenSumSet(LAMBDA h : d.charge[h], S)
                                 /\ \A s \in SUBSET S : s # {} =>
                                      \E x \in s : e[s] = d.charge[x] + e[s \ {x}]
  <2>2. \A d : \A S : IsFiniteSet(S) => Sum(d, S)
    BY ChargeSum
  <2> HIDE DEF Sum
  <2>3. Sum(c, cached)
    BY <2>1, <2>2
  <2>4. PICK e : /\ e[{}] = 0 /\ e[cached] = MapThenSumSet(LAMBDA h : c.charge[h], cached)
                 /\ \A s \in SUBSET cached : s # {} =>
                      \E x \in s : e[s] = c.charge[x] + e[s \ {x}]
    BY <2>3 DEF Sum
  <2> DEFINE T == {s \in SUBSET cached : e[s] = Cardinality(s)}
  <2>5. {} \in T
    BY <2>4, FS_EmptySet
  <2>6. ASSUME NEW s \in SUBSET cached, s # {} /\ \A x \in s : s \ {x} \in T PROVE s \in T
    <3>1. PICK x \in s : e[s] = c.charge[x] + e[s \ {x}]
      BY <2>4, <2>6
    <3>2. c.charge[x] = 1
      BY <2>1 DEF Exact, ExactBut, Cached
    <3>3. e[s \ {x}] = Cardinality(s \ {x})
      BY <2>6
    <3>4. Cardinality(s \ {x}) = Cardinality(s) - 1 /\ Cardinality(s) \in Nat
      BY <2>1, FS_Subset, FS_RemoveElement, FS_CardinalityType
    <3>5. e[s] = Cardinality(s)
      BY <3>1, <3>2, <3>3, <3>4
    <3>6. QED  BY <3>5
  <2>7. cached \in T
    <3> HIDE DEF T
    <3>1. cached \in SUBSET cached
      OBVIOUS
    <3>2. IsFiniteSet(cached)
      BY <2>1
    <3>3. QED  BY <2>5, <2>6, <3>1, <3>2, AllSubsets
  <2>8. e[cached] = Cardinality(cached)
    BY <2>7
  <2>9. c.usage = Cardinality(cached)
    BY <2>1 DEF Exact, ExactBut
  <2>10. QED  BY <2>4, <2>8, <2>9, Zenon
<1>7. QED  BY <1>3, <1>4, <1>5, <1>6, Zenon DEF CacheIsExact
(***************************************************************************)
(* Versions and memory tables.                                             *)
(***************************************************************************)
LEMMA RefVersionIs ==
  ASSUME NEW vs \in Seq(VersionState), NEW v \in 1..Len(vs)
  PROVE  LET r == RefVersion(vs, v) IN
         /\ r \in Seq(VersionState) /\ Len(r) = Len(vs)
         /\ \A w \in 1..Len(vs) : /\ r[w].refs = vs[w].refs + One(w = v)
                                  /\ r[w].level0 = vs[w].level0 /\ r[w].level1 = vs[w].level1
<1> DEFINE r == RefVersion(vs, v)
           z == vs[v]
           s == [z EXCEPT !.refs = @ + 1]
<1>1. \A w \in 1..Len(vs) : vs[w] \in VersionState
  OBVIOUS
<1>2. z \in VersionState /\ z.refs + 1 \in Int
  BY <1>1 DEF VersionState
<1>3. s \in VersionState /\ s.refs = vs[v].refs + 1 /\ s.level0 = vs[v].level0 /\ s.level1 = vs[v].level1
  <2> HIDE DEF z
  <2>1. s \in VersionState /\ s.refs = z.refs + 1 /\ s.level0 = z.level0 /\ s.level1 = z.level1
    BY <1>2 DEF VersionState
  <2>2. QED  BY <2>1 DEF z
<1>4. r = [vs EXCEPT ![v] = s]
  BY DEF RefVersion
<1> HIDE DEF r, s
<1>5. /\ r \in Seq(VersionState) /\ Len(r) = Len(vs)
      /\ \A w \in 1..Len(vs) : r[w] = IF w = v THEN s ELSE vs[w]
  BY <1>3, <1>4
<1>6. \A w \in 1..Len(vs) : vs[w].refs \in Int
  BY <1>1 DEF VersionState
<1>7. QED  BY <1>3, <1>5, <1>6 DEF r, One

\* A version that is deleted lists no file.
LEMMA UnrefVersionIs ==
  ASSUME NEW vs \in Seq(VersionState), NEW v \in 1..Len(vs)
  PROVE  LET r == UnrefVersion(vs, v) IN
         /\ r \in Seq(VersionState) /\ Len(r) = Len(vs)
         /\ \A w \in 1..Len(vs) :
              /\ r[w].refs = vs[w].refs - One(w = v)
              /\ r[w].level0 \subseteq vs[w].level0 /\ r[w].level1 \subseteq vs[w].level1
              /\ r[w].refs # 0 \/ w # v => r[w].level0 = vs[w].level0 /\ r[w].level1 = vs[w].level1
<1> DEFINE r == UnrefVersion(vs, v)
           z == vs[v]
           s == IF z.refs = 1 THEN DeletedVersion ELSE [z EXCEPT !.refs = @ - 1]
<1>1. \A w \in 1..Len(vs) : vs[w] \in VersionState
  OBVIOUS
<1>2. z \in VersionState /\ z.refs - 1 \in Int
  BY <1>1 DEF VersionState
<1>8. r = [vs EXCEPT ![v] = s]
  BY DEF UnrefVersion
<1> HIDE DEF z
<1>3. /\ s \in VersionState /\ s.refs = z.refs - 1
      /\ s.level0 \subseteq z.level0 /\ s.level1 \subseteq z.level1
      /\ s.refs # 0 => s.level0 = z.level0 /\ s.level1 = z.level1
  <2>1. CASE z.refs = 1
    BY <2>1 DEF DeletedVersion, VersionState
  <2>2. CASE z.refs # 1
    BY <1>2, <2>2 DEF VersionState
  <2>3. QED  BY <2>1, <2>2
<1> HIDE DEF r, s
<1>5. /\ r \in Seq(VersionState) /\ Len(r) = Len(vs)
      /\ \A w \in 1..Len(vs) : r[w] = IF w = v THEN s ELSE vs[w]
  BY <1>3, <1>8
<1>6. \A w \in 1..Len(vs) : vs[w].refs \in Int
  BY <1>1 DEF VersionState
<1>7. QED  BY <1>3, <1>5, <1>6 DEF r, One, z

LEMMA AppendVersionIs ==
  ASSUME NEW vs \in Seq(VersionState), vs # <<>>, NEW f0 \in SUBSET Files, NEW f1 \in SUBSET Files
  PROVE  LET r == AppendVersion(vs, f0, f1)
             u == UnrefVersion(vs, Len(vs))
         IN  /\ r \in Seq(VersionState) /\ Len(r) = Len(vs) + 1
             /\ \A w \in 1..Len(vs) : r[w] = u[w]
             /\ r[Len(r)].refs = 1 /\ r[Len(r)].level0 = f0 /\ r[Len(r)].level1 = f1
<1> DEFINE u == UnrefVersion(vs, Len(vs))
           n == [refs |-> 1, level0 |-> f0, level1 |-> f1]
<1>1. Len(vs) \in 1..Len(vs)
  OBVIOUS
<1>2. u \in Seq(VersionState) /\ Len(u) = Len(vs)
  BY <1>1, UnrefVersionIs
<1>3. n \in VersionState /\ n.refs = 1 /\ n.level0 = f0 /\ n.level1 = f1
  BY DEF VersionState
<1>4. AppendVersion(vs, f0, f1) = Append(u, n)
  BY DEF AppendVersion
<1> HIDE DEF u, n
<1>5. QED  BY <1>2, <1>3, <1>4 DEF u

LEMMA RefMemIs ==
  ASSUME NEW ms \in Seq(Int), NEW m \in 0..Len(ms)
  PROVE  /\ RefMem(ms, m) \in Seq(Int) /\ Len(RefMem(ms, m)) = Len(ms)
         /\ \A n \in 1..Len(ms) : RefMem(ms, m)[n] = ms[n] + One(n = m)
         /\ UnrefMem(ms, m) \in Seq(Int) /\ Len(UnrefMem(ms, m)) = Len(ms)
         /\ \A n \in 1..Len(ms) : UnrefMem(ms, m)[n] = ms[n] - One(n = m)
<1>1. \A n \in 1..Len(ms) : ms[n] \in Int
  OBVIOUS
<1>2. CASE m = 0
  BY <1>1, <1>2 DEF RefMem, UnrefMem, One
<1>3. CASE m # 0
  <2>1. m \in 1..Len(ms) /\ ms[m] \in Int
    BY <1>3
  <2>2. RefMem(ms, m) = [ms EXCEPT ![m] = @ + 1] /\ UnrefMem(ms, m) = [ms EXCEPT ![m] = @ - 1]
    BY <1>3 DEF RefMem, UnrefMem
  <2>3. QED  BY <1>1, <2>1, <2>2 DEF One
<1>4. QED  BY <1>2, <1>3
(***************************************************************************)
(* Steps of one actor.                                                     *)
(***************************************************************************)
Only(a) == actor' \in [Actors -> ActorState] /\ \A b \in Actors \ {a} : actor'[b] = actor[b]
SameCall(a) ==
  /\ actor'[a].iterator = actor[a].iterator /\ actor'[a].version = actor[a].version
  /\ actor'[a].mem = actor[a].mem /\ actor'[a].imm = actor[a].imm
SameSearch(a) ==
  actor'[a].file = actor[a].file /\ actor'[a].how = actor[a].how /\ actor'[a].back = actor[a].back

LEMMA ActorFields ==
  ASSUME actor \in [Actors -> ActorState], NEW a \in Actors
  PROVE  /\ actor[a] \in ActorState /\ actor[a].pc \in PCs /\ actor[a].iterator \in BOOLEAN
         /\ actor[a].version \in Nat /\ actor[a].mem \in Nat /\ actor[a].imm \in Nat
         /\ actor[a].todo \subseteq Files /\ actor[a].file \in Files \cup {0}
         /\ actor[a].how \in Hows /\ actor[a].back \in PCs /\ actor[a].handles \subseteq Handles
<1>1. actor[a] \in ActorState
  OBVIOUS
<1>2. QED  BY <1>1 DEF ActorState

LEMMA OnlyIs ==
  ASSUME actor \in [Actors -> ActorState], NEW a \in Actors, NEW s \in ActorState,
         actor' = [actor EXCEPT ![a] = s]
  PROVE  actor'[a] = s /\ Only(a)
BY DEF Only

LEMMA GotoIs ==
  ASSUME actor \in [Actors -> ActorState], NEW a \in Actors, NEW pc \in PCs, Goto(a, pc)
  PROVE  /\ Only(a) /\ SameCall(a) /\ SameSearch(a) /\ actor'[a].pc = pc
         /\ actor'[a].todo = actor[a].todo /\ actor'[a].handles = actor[a].handles
<1> DEFINE z == actor[a]
           s == [z EXCEPT !.pc = pc]
<1>1. z \in ActorState /\ actor' = [actor EXCEPT ![a] = s]
  BY DEF Goto
<1> HIDE DEF z
<1>2. s \in ActorState /\ s = [z EXCEPT !.pc = pc]
  BY <1>1 DEF ActorState
<1>3. actor'[a] = s /\ Only(a)
  <2> HIDE DEF s
  <2>1. QED  BY <1>1, <1>2, OnlyIs
<1>4. QED  BY <1>1, <1>3 DEF SameCall, SameSearch, ActorState, z

\* Lookup: the table is in the cache.
LEMMA HitIs ==
  ASSUME actor \in [Actors -> ActorState], NEW a \in Actors, NEW f, NEW back \in PCs,
         NEW h \in Handles,
         actor' = [actor EXCEPT ![a].pc = back, ![a].todo = @ \ {f}, ![a].handles = @ \cup {h}]
  PROVE  /\ Only(a) /\ SameCall(a) /\ SameSearch(a) /\ actor'[a].pc = back
         /\ actor'[a].todo = actor[a].todo \ {f} /\ actor'[a].handles = actor[a].handles \cup {h}
<1> DEFINE z == actor[a]
           s == [[[z EXCEPT !.pc = back] EXCEPT !.todo = @ \ {f}] EXCEPT !.handles = @ \cup {h}]
<1>1. z \in ActorState /\ actor' = [actor EXCEPT ![a] = s]
  OBVIOUS
<1> HIDE DEF z
<1>2. s \in ActorState
  BY <1>1 DEF ActorState
<1>3. actor'[a] = s /\ Only(a)
  <2> HIDE DEF s
  <2>1. QED  BY <1>1, <1>2, OnlyIs
<1>4. QED  BY <1>1, <1>3 DEF SameCall, SameSearch, ActorState, z
\* Lookup: it is not.
LEMMA MissIs ==
  ASSUME actor \in [Actors -> ActorState], NEW a \in Actors, NEW f \in Files, NEW back \in PCs,
         actor' = [actor EXCEPT ![a].pc = "open", ![a].todo = @ \ {f}, ![a].file = f, ![a].back = back]
  PROVE  /\ Only(a) /\ SameCall(a) /\ actor'[a].pc = "open"
         /\ actor'[a].file = f /\ actor'[a].how = actor[a].how
         /\ actor'[a].back = back /\ actor'[a].todo = actor[a].todo \ {f}
         /\ actor'[a].handles = actor[a].handles
<1> DEFINE z == actor[a]
           s == [[[[z EXCEPT !.pc = "open"] EXCEPT !.todo = @ \ {f}] EXCEPT !.file = f] EXCEPT !.back = back]
<1>1. z \in ActorState /\ actor' = [actor EXCEPT ![a] = s]
  OBVIOUS
<1> HIDE DEF z
<1>2. s \in ActorState
  BY <1>1 DEF ActorState, PCs, Hows
<1>3. actor'[a] = s /\ Only(a)
  <2> HIDE DEF s
  <2>1. QED  BY <1>1, <1>2, OnlyIs
<1>4. QED  BY <1>1, <1>3 DEF SameCall, SameSearch, ActorState, z

\* NewRandomAccessFile
LEMMA OpenIs ==
  ASSUME actor \in [Actors -> ActorState], NEW a \in Actors, NEW how \in Hows,
         actor' = [actor EXCEPT ![a].pc = "table", ![a].how = how]
  PROVE  /\ Only(a) /\ SameCall(a) /\ actor'[a].pc = "table"
         /\ actor'[a].file = actor[a].file /\ actor'[a].how = how
         /\ actor'[a].back = actor[a].back /\ actor'[a].todo = actor[a].todo
         /\ actor'[a].handles = actor[a].handles
<1> DEFINE z == actor[a]
           s == [[z EXCEPT !.pc = "table"] EXCEPT !.how = how]
<1>1. z \in ActorState /\ actor' = [actor EXCEPT ![a] = s]
  OBVIOUS
<1> HIDE DEF z
<1>2. s \in ActorState
  BY <1>1 DEF ActorState, PCs, Hows
<1>3. actor'[a] = s /\ Only(a)
  <2> HIDE DEF s
  <2>1. QED  BY <1>1, <1>2, OnlyIs
<1>4. QED  BY <1>1, <1>3 DEF SameCall, SameSearch, ActorState, z

\* A release, where the actor is
LEMMA ReleaseIs ==
  ASSUME actor \in [Actors -> ActorState], NEW a \in Actors, NEW h,
         actor' = [actor EXCEPT ![a].handles = @ \ {h}]
  PROVE  /\ Only(a) /\ SameCall(a) /\ SameSearch(a)
         /\ actor'[a].pc = actor[a].pc /\ actor'[a].todo = actor[a].todo
         /\ actor'[a].handles = actor[a].handles \ {h}
<1> DEFINE z == actor[a]
           s == [z EXCEPT !.handles = @ \ {h}]
<1>1. z \in ActorState /\ actor' = [actor EXCEPT ![a] = s]
  OBVIOUS
<1> HIDE DEF z
<1>2. s \in ActorState
  BY <1>1 DEF ActorState, PCs, Hows
<1>3. actor'[a] = s /\ Only(a)
  <2> HIDE DEF s
  <2>1. QED  BY <1>1, <1>2, OnlyIs
<1>4. QED  BY <1>1, <1>3 DEF SameCall, SameSearch, ActorState, z

\* and on the way to pc.
LEMMA ReleaseToIs ==
  ASSUME actor \in [Actors -> ActorState], NEW a \in Actors, NEW pc \in PCs, NEW h,
         actor' = [actor EXCEPT ![a].pc = pc, ![a].handles = @ \ {h}]
  PROVE  /\ Only(a) /\ SameCall(a) /\ SameSearch(a) /\ actor'[a].pc = pc
         /\ actor'[a].todo = actor[a].todo
         /\ actor'[a].handles = actor[a].handles \ {h}
<1> DEFINE z == actor[a]
           s == [[z EXCEPT !.pc = pc] EXCEPT !.handles = @ \ {h}]
<1>1. z \in ActorState /\ actor' = [actor EXCEPT ![a] = s]
  OBVIOUS
<1> HIDE DEF z
<1>2. s \in ActorState
  BY <1>1 DEF ActorState, PCs, Hows
<1>3. actor'[a] = s /\ Only(a)
  <2> HIDE DEF s
  <2>1. QED  BY <1>1, <1>2, OnlyIs
<1>4. QED  BY <1>1, <1>3 DEF SameCall, SameSearch, ActorState, z

\* BeginGet
LEMMA GetIs ==
  ASSUME actor \in [Actors -> ActorState], NEW a \in Actors, NEW v \in Nat, NEW m \in Nat, NEW i \in Nat,
         actor' = [actor EXCEPT ![a].pc = "read", ![a].version = v, ![a].mem = m, ![a].imm = i]
  PROVE  /\ Only(a) /\ SameSearch(a) /\ actor'[a].pc = "read"
         /\ actor'[a].iterator = actor[a].iterator /\ actor'[a].version = v
         /\ actor'[a].mem = m /\ actor'[a].imm = i
         /\ actor'[a].todo = actor[a].todo
         /\ actor'[a].handles = actor[a].handles
<1> DEFINE z == actor[a]
           s == [[[[z EXCEPT !.pc = "read"] EXCEPT !.version = v] EXCEPT !.mem = m] EXCEPT !.imm = i]
<1>1. z \in ActorState /\ actor' = [actor EXCEPT ![a] = s]
  OBVIOUS
<1> HIDE DEF z
<1>2. s \in ActorState
  BY <1>1 DEF ActorState, PCs, Hows
<1>3. actor'[a] = s /\ Only(a)
  <2> HIDE DEF s
  <2>1. QED  BY <1>1, <1>2, OnlyIs
<1>4. QED  BY <1>1, <1>3 DEF SameCall, SameSearch, ActorState, z

\* BeginIterator
LEMMA IteratorIs ==
  ASSUME actor \in [Actors -> ActorState], NEW a \in Actors, NEW m \in Nat, NEW i \in Nat, NEW todo \in SUBSET Files,
         actor' = [actor EXCEPT ![a].pc = "collect", ![a].iterator = TRUE, ![a].mem = m, ![a].imm = i, ![a].todo = todo]
  PROVE  /\ Only(a) /\ SameSearch(a) /\ actor'[a].pc = "collect"
         /\ actor'[a].iterator = TRUE /\ actor'[a].version = actor[a].version
         /\ actor'[a].mem = m /\ actor'[a].imm = i /\ actor'[a].todo = todo
         /\ actor'[a].handles = actor[a].handles
<1> DEFINE z == actor[a]
           s == [[[[[z EXCEPT !.pc = "collect"] EXCEPT !.iterator = TRUE] EXCEPT !.mem = m] EXCEPT !.imm = i] EXCEPT !.todo = todo]
<1>1. z \in ActorState /\ actor' = [actor EXCEPT ![a] = s]
  OBVIOUS
<1> HIDE DEF z
<1>2. s \in ActorState
  BY <1>1 DEF ActorState, PCs, Hows
<1>3. actor'[a] = s /\ Only(a)
  <2> HIDE DEF s
  <2>1. QED  BY <1>1, <1>2, OnlyIs
<1>4. QED  BY <1>1, <1>3 DEF SameCall, SameSearch, ActorState, z

\* IteratorMade
LEMMA MadeIs ==
  ASSUME actor \in [Actors -> ActorState], NEW a \in Actors, NEW v \in Nat,
         actor' = [actor EXCEPT ![a].pc = "read", ![a].version = v]
  PROVE  /\ Only(a) /\ SameSearch(a) /\ actor'[a].pc = "read"
         /\ actor'[a].iterator = actor[a].iterator /\ actor'[a].version = v
         /\ actor'[a].mem = actor[a].mem /\ actor'[a].imm = actor[a].imm
         /\ actor'[a].todo = actor[a].todo
         /\ actor'[a].handles = actor[a].handles
<1> DEFINE z == actor[a]
           s == [[z EXCEPT !.pc = "read"] EXCEPT !.version = v]
<1>1. z \in ActorState /\ actor' = [actor EXCEPT ![a] = s]
  OBVIOUS
<1> HIDE DEF z
<1>2. s \in ActorState
  BY <1>1 DEF ActorState, PCs, Hows
<1>3. actor'[a] = s /\ Only(a)
  <2> HIDE DEF s
  <2>1. QED  BY <1>1, <1>2, OnlyIs
<1>4. QED  BY <1>1, <1>3 DEF SameCall, SameSearch, ActorState, z

\* BeginCompaction
LEMMA CollectIs ==
  ASSUME actor \in [Actors -> ActorState], NEW a \in Actors, NEW todo \in SUBSET Files,
         actor' = [actor EXCEPT ![a].pc = "collect", ![a].todo = todo]
  PROVE  /\ Only(a) /\ SameCall(a) /\ SameSearch(a) /\ actor'[a].pc = "collect"
         /\ actor'[a].todo = todo /\ actor'[a].handles = actor[a].handles
<1> DEFINE z == actor[a]
           s == [[z EXCEPT !.pc = "collect"] EXCEPT !.todo = todo]
<1>1. z \in ActorState /\ actor' = [actor EXCEPT ![a] = s]
  OBVIOUS
<1> HIDE DEF z
<1>2. s \in ActorState
  BY <1>1 DEF ActorState, PCs, Hows
<1>3. actor'[a] = s /\ Only(a)
  <2> HIDE DEF s
  <2>1. QED  BY <1>1, <1>2, OnlyIs
<1>4. QED  BY <1>1, <1>3 DEF SameCall, SameSearch, ActorState, z

\* FindTable returns.
LEMMA ReturnIs ==
  ASSUME actor \in [Actors -> ActorState], NEW a \in Actors, NEW H \in SUBSET Handles, Return(a, H)
  PROVE  /\ Only(a) /\ SameCall(a) /\ actor'[a].pc = actor[a].back /\ actor'[a].back = "idle"
         /\ actor'[a].file = 0 /\ actor'[a].how = "none" /\ actor'[a].todo = actor[a].todo
         /\ actor'[a].handles = actor[a].handles \cup H
<1> DEFINE z == actor[a]
           s == [[[[[z EXCEPT !.pc = z.back] EXCEPT !.back = "idle"] EXCEPT !.file = 0]
                  EXCEPT !.how = "none"] EXCEPT !.handles = @ \cup H]
<1>1. z \in ActorState /\ actor' = [actor EXCEPT ![a] = s]
  BY DEF Return
<1> HIDE DEF z
<1>2. s \in ActorState
  BY <1>1 DEF ActorState, PCs, Hows
<1>3. actor'[a] = s /\ Only(a)
  <2> HIDE DEF s
  <2>1. QED  BY <1>1, <1>2, OnlyIs
<1>4. QED  BY <1>1, <1>3 DEF SameCall, ActorState, z

LEMMA EndIs ==
  ASSUME actor \in [Actors -> ActorState], NEW a \in Actors, actor' = [actor EXCEPT ![a] = NoCall]
  PROVE  /\ Only(a) /\ actor'[a].pc = "idle" /\ actor'[a].iterator = FALSE /\ actor'[a].version = 0
         /\ actor'[a].mem = 0 /\ actor'[a].imm = 0 /\ actor'[a].todo = {} /\ actor'[a].file = 0
         /\ actor'[a].how = "none" /\ actor'[a].back = "idle" /\ actor'[a].handles = {}
<1>1. NoCall \in ActorState
  BY DEF NoCall, ActorState, PCs, Hows
<1>2. actor'[a] = NoCall /\ Only(a)
  BY <1>1 DEF Only
<1>3. QED  BY <1>2 DEF NoCall
(***************************************************************************)
(* Counting who uses what.                                                 *)
(***************************************************************************)
LEMMA ActorsFinite ==
  /\ IsFiniteSet(Clients) /\ IsFiniteSet(Actors) /\ bg \in Actors /\ bg \notin Clients
  /\ "free" \notin Actors
  /\ \A S : S \subseteq Actors => IsFiniteSet(S) /\ Cardinality(S) \in Nat
<1>1. IsFiniteSet(Actors)
  BY ReadersAssumption, FS_AddElement DEF Actors
<1>2. QED  BY <1>1, ReadersAssumption, FS_Subset, FS_CardinalityType DEF Actors

\* A set that takes x in, or leaves it out.
LEMMA CountMoves ==
  ASSUME NEW U, IsFiniteSet(U), NEW P \in SUBSET U, NEW Q \in SUBSET U, NEW x \in U,
         \A y \in U \ {x} : y \in P <=> y \in Q
  PROVE  /\ Cardinality(P) \in Nat /\ Cardinality(Q) \in Nat
         /\ Cardinality(Q) = Cardinality(P) + One(x \in Q) - One(x \in P)
<1>1. IsFiniteSet(P) /\ IsFiniteSet(Q) /\ Cardinality(P) \in Nat /\ Cardinality(Q) \in Nat
  BY FS_Subset, FS_CardinalityType
<1>2. CASE x \in P <=> x \in Q
  <2>1. P = Q
    BY <1>2
  <2>2. QED  BY <1>1, <1>2, <2>1 DEF One
<1>3. CASE x \in Q /\ x \notin P
  <2>1. Q = P \cup {x}
    BY <1>3
  <2>2. Cardinality(Q) = Cardinality(P) + 1
    BY <1>1, <1>3, <2>1, FS_AddElement
  <2>3. QED  BY <1>1, <1>3, <2>2 DEF One
<1>4. CASE x \in P /\ x \notin Q
  <2>1. P = Q \cup {x}
    BY <1>4
  <2>2. Cardinality(P) = Cardinality(Q) + 1
    BY <1>1, <1>4, <2>1, FS_AddElement
  <2>3. QED  BY <1>1, <1>4, <2>2 DEF One
<1>5. QED  BY <1>2, <1>3, <1>4

\* Readers of a version, when a goes on to another.
LEMMA ReadingsMove ==
  ASSUME NEW a \in Clients, \A b \in Actors \ {a} : actor'[b] = actor[b]
  PROVE  \A v : /\ Cardinality(Readings(v)) \in Nat /\ Cardinality(Readings(v))' \in Nat
                /\ Cardinality(Readings(v))' =
                     Cardinality(Readings(v)) + One(actor'[a].version = v) - One(actor[a].version = v)
<1> SUFFICES ASSUME NEW v
             PROVE  /\ Cardinality(Readings(v)) \in Nat /\ Cardinality(Readings(v))' \in Nat
                    /\ Cardinality(Readings(v))' =
                         Cardinality(Readings(v)) + One(actor'[a].version = v) - One(actor[a].version = v)
  OBVIOUS
<1> DEFINE P == Readings(v)
           Q == {b \in Clients : actor'[b].version = v}
<1>1. P \in SUBSET Clients /\ Q \in SUBSET Clients
  BY DEF Readings
<1>2. \A b \in Clients \ {a} : b \in P <=> b \in Q
  BY DEF Readings, Actors
<1>3. (a \in P <=> actor[a].version = v) /\ (a \in Q <=> actor'[a].version = v)
  BY DEF Readings
<1>4. Readings(v)' = Q
  BY DEF Readings
<1> HIDE DEF P, Q
<1>5. /\ Cardinality(P) \in Nat /\ Cardinality(Q) \in Nat
      /\ Cardinality(Q) = Cardinality(P) + One(a \in Q) - One(a \in P)
  BY <1>1, <1>2, CountMoves, ActorsFinite
<1>6. QED  BY <1>3, <1>4, <1>5 DEF P, One

LEMMA ReadingsStay ==
  ASSUME \A b \in Clients : actor'[b].version = actor[b].version
  PROVE  \A v : /\ Cardinality(Readings(v)) \in Nat
                /\ Cardinality(Readings(v))' = Cardinality(Readings(v))
<1> SUFFICES ASSUME NEW v
             PROVE  /\ Cardinality(Readings(v)) \in Nat
                    /\ Cardinality(Readings(v))' = Cardinality(Readings(v))
  OBVIOUS
<1>1. Readings(v) \subseteq Actors /\ Readings(v)' = Readings(v)
  BY DEF Readings, Actors
<1>2. QED  BY <1>1, ActorsFinite

\* Users of a memory table.
LEMMA UsingMove ==
  ASSUME NEW a \in Clients, \A b \in Actors \ {a} : actor'[b] = actor[b]
  PROVE  \A m : /\ Cardinality(Using(m)) \in Nat /\ Cardinality(Using(m))' \in Nat
                /\ Cardinality(Using(m))' =
                     Cardinality(Using(m)) + One(m \in {actor'[a].mem, actor'[a].imm})
                     - One(m \in {actor[a].mem, actor[a].imm})
<1> SUFFICES ASSUME NEW m
             PROVE  /\ Cardinality(Using(m)) \in Nat /\ Cardinality(Using(m))' \in Nat
                    /\ Cardinality(Using(m))' =
                         Cardinality(Using(m)) + One(m \in {actor'[a].mem, actor'[a].imm})
                         - One(m \in {actor[a].mem, actor[a].imm})
  OBVIOUS
<1> DEFINE P == Using(m)
           Q == {b \in Clients : m \in {actor'[b].mem, actor'[b].imm}}
<1>1. P \in SUBSET Clients /\ Q \in SUBSET Clients
  BY DEF Using
<1>2. \A b \in Clients \ {a} : b \in P <=> b \in Q
  BY DEF Using, Actors
<1>3. /\ a \in P <=> m \in {actor[a].mem, actor[a].imm}
      /\ a \in Q <=> m \in {actor'[a].mem, actor'[a].imm}
  BY DEF Using
<1>4. Using(m)' = Q
  BY DEF Using
<1> HIDE DEF P, Q
<1>5. /\ Cardinality(P) \in Nat /\ Cardinality(Q) \in Nat
      /\ Cardinality(Q) = Cardinality(P) + One(a \in Q) - One(a \in P)
  BY <1>1, <1>2, CountMoves, ActorsFinite
<1>6. QED  BY <1>3, <1>4, <1>5 DEF P, One

LEMMA UsingStay ==
  ASSUME \A b \in Clients : actor'[b].mem = actor[b].mem /\ actor'[b].imm = actor[b].imm
  PROVE  \A m : /\ Cardinality(Using(m)) \in Nat
                /\ Cardinality(Using(m))' = Cardinality(Using(m))
<1> SUFFICES ASSUME NEW m
             PROVE  /\ Cardinality(Using(m)) \in Nat
                    /\ Cardinality(Using(m))' = Cardinality(Using(m))
  OBVIOUS
<1>1. Using(m) \subseteq Actors /\ Using(m)' = Using(m)
  BY DEF Using, Actors
<1>2. QED  BY <1>1, ActorsFinite

\* Users of a table.
LEMMA HeldIs ==
  /\ Held \in [Handles -> Nat]
  /\ \A h \in Handles : Held[h] > 0 <=> \E a \in Actors : h \in actor[a].handles
<1>1. ASSUME NEW h \in Handles
      PROVE  LET S == {a \in Actors : h \in actor[a].handles} IN
             Cardinality(S) \in Nat /\ (Cardinality(S) > 0 <=> S # {})
  <2> DEFINE S == {a \in Actors : h \in actor[a].handles}
  <2>1. IsFiniteSet(S) /\ Cardinality(S) \in Nat
    BY ActorsFinite
  <2> HIDE DEF S
  <2>2. Cardinality(S) = 0 <=> S = {}
    BY <2>1, FS_EmptySet
  <2>3. QED  BY <2>1, <2>2 DEF S
<1>2. QED  BY <1>1 DEF Held

LEMMA HeldNext == Held' \in [Handles -> Nat]
<1>1. ASSUME NEW h \in Handles PROVE Cardinality({a \in Actors : h \in actor'[a].handles}) \in Nat
  BY ActorsFinite
<1>2. QED  BY <1>1 DEF Held

LEMMA HeldMoves ==
  ASSUME NEW a \in Actors, \A b \in Actors \ {a} : actor'[b] = actor[b]
  PROVE  /\ Held' \in [Handles -> Nat]
         /\ \A h \in Handles : Held'[h] = Held[h] + One(h \in actor'[a].handles)
                                          - One(h \in actor[a].handles)
<1>1. ASSUME NEW h \in Handles
      PROVE  LET P == {b \in Actors : h \in actor[b].handles}
                 Q == {b \in Actors : h \in actor'[b].handles}
             IN  /\ Cardinality(P) \in Nat /\ Cardinality(Q) \in Nat
                 /\ Cardinality(Q) = Cardinality(P) + One(h \in actor'[a].handles)
                                     - One(h \in actor[a].handles)
  <2> DEFINE P == {b \in Actors : h \in actor[b].handles}
             Q == {b \in Actors : h \in actor'[b].handles}
  <2>1. P \in SUBSET Actors /\ Q \in SUBSET Actors
    OBVIOUS
  <2>2. \A b \in Actors \ {a} : b \in P <=> b \in Q
    OBVIOUS
  <2>3. (a \in P <=> h \in actor[a].handles) /\ (a \in Q <=> h \in actor'[a].handles)
    OBVIOUS
  <2> HIDE DEF P, Q
  <2>4. /\ Cardinality(P) \in Nat /\ Cardinality(Q) \in Nat
        /\ Cardinality(Q) = Cardinality(P) + One(a \in Q) - One(a \in P)
    BY <2>1, <2>2, CountMoves, ActorsFinite
  <2>5. QED  BY <2>3, <2>4 DEF One, P, Q
<1>2. QED  BY <1>1 DEF Held
LEMMA HeldMore ==
  ASSUME NEW a \in Actors, \A b \in Actors \ {a} : actor'[b] = actor[b],
         NEW h \in Handles, h \notin actor[a].handles, actor'[a].handles = actor[a].handles \cup {h}
  PROVE  Held' = More(Held, h)
<1>1. /\ Held' \in [Handles -> Nat] /\ Held \in [Handles -> Nat]
      /\ \A x \in Handles : Held'[x] = Held[x] + One(x \in actor'[a].handles)
                                       - One(x \in actor[a].handles)
  BY HeldMoves, HeldIs
<1>2. \A x \in Handles : Held'[x] = IF x = h THEN Held[x] + 1 ELSE Held[x]
  <2> SUFFICES ASSUME NEW x \in Handles PROVE Held'[x] = IF x = h THEN Held[x] + 1 ELSE Held[x]
    OBVIOUS
  <2>1. CASE x = h
    BY <1>1, <2>1 DEF One
  <2>2. CASE x # h
    <3>1. x \in actor'[a].handles <=> x \in actor[a].handles
      BY <2>2
    <3>2. QED  BY <1>1, <2>2, <3>1 DEF One
  <2>3. QED  BY <2>1, <2>2
<1> HIDE DEF Held
<1>3. QED  BY <1>1, <1>2 DEF More

LEMMA HeldLess ==
  ASSUME NEW a \in Actors, \A b \in Actors \ {a} : actor'[b] = actor[b],
         NEW h \in Handles, h \in actor[a].handles, actor'[a].handles = actor[a].handles \ {h}
  PROVE  Held' = Less(Held, h) /\ Held[h] > 0
<1>1. /\ Held' \in [Handles -> Nat] /\ Held \in [Handles -> Nat]
      /\ \A x \in Handles : Held'[x] = Held[x] + One(x \in actor'[a].handles)
                                       - One(x \in actor[a].handles)
      /\ Held[h] > 0
  BY HeldMoves, HeldIs
<1>2. \A x \in Handles : Held'[x] = IF x = h THEN Held[x] - 1 ELSE Held[x]
  <2> SUFFICES ASSUME NEW x \in Handles PROVE Held'[x] = IF x = h THEN Held[x] - 1 ELSE Held[x]
    OBVIOUS
  <2>1. CASE x = h
    BY <1>1, <2>1 DEF One
  <2>2. CASE x # h
    <3>1. x \in actor'[a].handles <=> x \in actor[a].handles
      BY <2>2
    <3>2. QED  BY <1>1, <2>2, <3>1 DEF One
  <2>3. QED  BY <2>1, <2>2
<1> HIDE DEF Held
<1>3. QED  BY <1>1, <1>2 DEF Less

LEMMA HeldStays ==
  ASSUME \A b \in Actors : actor'[b].handles = actor[b].handles
  PROVE  Held' = Held
BY DEF Held
(***************************************************************************)
(* Mappings and descriptors.                                               *)
(***************************************************************************)
LEMMA OpeningMoves ==
  ASSUME NEW a \in Actors, \A b \in Actors \ {a} : actor'[b] = actor[b]
  PROVE  \A how : /\ Cardinality(Opening(how)) \in Nat /\ Cardinality(Opening(how))' \in Nat
                  /\ Cardinality(Opening(how))' =
                       Cardinality(Opening(how)) + One(actor'[a].how = how) - One(actor[a].how = how)
<1> SUFFICES ASSUME NEW how
             PROVE  /\ Cardinality(Opening(how)) \in Nat /\ Cardinality(Opening(how))' \in Nat
                    /\ Cardinality(Opening(how))' =
                         Cardinality(Opening(how)) + One(actor'[a].how = how) - One(actor[a].how = how)
  OBVIOUS
<1> DEFINE P == Opening(how)
           Q == {b \in Actors : actor'[b].how = how}
<1>1. P \in SUBSET Actors /\ Q \in SUBSET Actors
  BY DEF Opening
<1>2. \A b \in Actors \ {a} : b \in P <=> b \in Q
  BY DEF Opening
<1>3. (a \in P <=> actor[a].how = how) /\ (a \in Q <=> actor'[a].how = how)
  BY DEF Opening
<1>4. Opening(how)' = Q
  BY DEF Opening
<1> HIDE DEF P, Q
<1>5. /\ Cardinality(P) \in Nat /\ Cardinality(Q) \in Nat
      /\ Cardinality(Q) = Cardinality(P) + One(a \in Q) - One(a \in P)
  BY <1>1, <1>2, CountMoves, ActorsFinite
<1>6. QED  BY <1>3, <1>4, <1>5 DEF P, One

LEMMA OpeningStays ==
  ASSUME \A b \in Actors : actor'[b].how = actor[b].how
  PROVE  \A how : /\ Cardinality(Opening(how)) \in Nat
                  /\ Cardinality(Opening(how))' = Cardinality(Opening(how))
<1> SUFFICES ASSUME NEW how
             PROVE  /\ Cardinality(Opening(how)) \in Nat
                    /\ Cardinality(Opening(how))' = Cardinality(Opening(how))
  OBVIOUS
<1>1. Opening(how) \subseteq Actors /\ Opening(how)' = Opening(how)
  BY DEF Opening
<1>2. QED  BY <1>1, ActorsFinite

\* The files of the handles of D are closed.
Gone(D, how) == {h \in D : opened[h] = how}

LEMMA FilesClose ==
  ASSUME NEW D \in SUBSET Handles, NEW how, how # "none",
         opened' = [h \in Handles |-> IF h \in D THEN "none" ELSE opened[h]]
  PROVE  /\ Cardinality(Opened(how)) \in Nat /\ Cardinality(Gone(D, how)) \in Nat
         /\ Cardinality(Opened(how))' = Cardinality(Opened(how)) - Cardinality(Gone(D, how))
<1> DEFINE P == Opened(how)
           G == Gone(D, how)
<1>1. P \in SUBSET Handles /\ G \in SUBSET Handles /\ P \cap G = G
  BY DEF Opened, Gone
<1>2. Opened(how)' = P \ G
  BY DEF Opened, Gone
<1> HIDE DEF P, G
<1>3. IsFiniteSet(P) /\ Cardinality(P) \in Nat /\ Cardinality(G) \in Nat
  BY <1>1, HandlesFinite
<1>4. Cardinality(P \ G) = Cardinality(P) - Cardinality(G)
  BY <1>1, <1>3, FS_Difference
<1>5. QED  BY <1>2, <1>3, <1>4 DEF P, G

\* They are closed and one is opened.
Reopens(D, h, w) ==
  \A e \in Handles : opened'[e] = IF e = h THEN w ELSE IF e \in D THEN "none" ELSE opened[e]

LEMMA FileOpens ==
  ASSUME NEW D \in SUBSET Handles, NEW how, how # "none",
         NEW h \in Handles, opened[h] = "none", NEW w,
         Reopens(D, h, w)
  PROVE  /\ Cardinality(Opened(how)) \in Nat /\ Cardinality(Gone(D, how)) \in Nat
         /\ Cardinality(Opened(how))' =
              Cardinality(Opened(how)) - Cardinality(Gone(D, how)) + One(w = how)
<1> DEFINE P == Opened(how)
           G == Gone(D, how)
           R == P \ G
           Q == {e \in Handles : opened'[e] = how}
<1>1. P \in SUBSET Handles /\ G \in SUBSET Handles /\ P \cap G = G
  BY DEF Opened, Gone
<1>2. /\ R \in SUBSET Handles /\ Q \in SUBSET Handles
      /\ \A e \in Handles \ {h} : e \in R <=> e \in Q
      /\ h \notin R /\ (h \in Q <=> w = how)
  BY DEF Opened, Gone, Reopens
<1>3. Opened(how)' = Q
  BY DEF Opened
<1> HIDE DEF P, G, Q
<1>4. IsFiniteSet(P) /\ Cardinality(P) \in Nat /\ Cardinality(G) \in Nat
  BY <1>1, HandlesFinite
<1>5. Cardinality(R) = Cardinality(P) - Cardinality(G)
  <2>1. Cardinality(P \ G) = Cardinality(P) - Cardinality(P \cap G)
    BY <1>4, FS_Difference
  <2>2. QED  BY <1>1, <2>1
<1> HIDE DEF R
<1>6. Cardinality(Q) = Cardinality(R) + One(h \in Q) - One(h \in R) /\ Cardinality(R) \in Nat
  BY <1>2, CountMoves, HandlesFinite
<1>7. Cardinality(Q) = Cardinality(P) - Cardinality(G) + One(w = how)
  BY <1>2, <1>4, <1>5, <1>6 DEF One
<1>8. QED  BY <1>3, <1>4, <1>7 DEF P, G

LEMMA NotDead ==
  ASSUME NEW held, NEW d, Exact(d, held)
  PROVE  LET r == [d EXCEPT !.dead = {}] IN
         /\ Exact(r, held) /\ r.dead = {} /\ r.refs = d.refs /\ r.in_cache = d.in_cache
<1> DEFINE r == [d EXCEPT !.dead = {}]
<1>1. /\ r \in Shard /\ r.refs = d.refs /\ r.in_cache = d.in_cache /\ r.charge = d.charge
      /\ r.lru = d.lru /\ r.in_use = d.in_use /\ r.table = d.table /\ r.usage = d.usage
      /\ r.dead = {}
  BY DEF Exact, ExactBut, Shard
<1> HIDE DEF r
<1>2. Cached(r) = Cached(d)
  BY <1>1 DEF Cached
<1>3. Exact(r, held)
  BY <1>1, <1>2 DEF Exact, ExactBut
<1>4. QED  BY <1>1, <1>3 DEF r
(***************************************************************************)
(* The cache and the limiters, by kinds of steps.                          *)
(***************************************************************************)
\* Handles of which an entry is alive.
NothingNew == \A h \in Handles : cache_'.refs[h] > 0 => cache_.refs[h] > 0

\* No table is opened, looked up or released.
StaysTables ==
  UNCHANGED fileVars /\ \A b \in Actors : actor'[b].handles = actor[b].handles /\ actor'[b].how = actor[b].how

LEMMA TablesStay ==
  ASSUME CacheInv, LimitsInv, StaysTables
  PROVE  CacheInv' /\ LimitsInv' /\ NothingNew
<1>1. cache_' = cache_ /\ mmap_allowed' = mmap_allowed /\ fd_allowed' = fd_allowed /\ opened' = opened
  BY DEF StaysTables, fileVars
<1>2. Held' = Held
  BY HeldStays DEF StaysTables
<1>3. CacheInv'
  BY <1>1, <1>2 DEF CacheInv
<1>4. \A how : Cardinality(Opening(how))' = Cardinality(Opening(how)) /\ Opened(how)' = Opened(how)
  BY <1>1, OpeningStays DEF StaysTables, Opened
<1>5. LimitsInv'
  BY <1>1, <1>4 DEF LimitsInv
<1>6. QED  BY <1>1, <1>3, <1>5 DEF NothingNew

\* An operation of the cache by actors that open no file.
LEMMA CacheStepKeeps ==
  ASSUME CacheInv, LimitsInv, opened \in [Handles -> Hows], mmap_allowed \in Int, fd_allowed \in Int,
         NEW d, CacheStep(d), Exact(d, Held'), Keeps(cache_, d, {}),
         \A b \in Actors : actor'[b].how = actor[b].how
  PROVE  /\ CacheInv' /\ LimitsInv' /\ NothingNew
         /\ cache_'.refs = d.refs /\ cache_'.in_cache = d.in_cache
         /\ opened' \in [Handles -> Hows] /\ mmap_allowed' \in Int /\ fd_allowed' \in Int
<1>1. cache_' = [d EXCEPT !.dead = {}]
  BY DEF CacheStep, CacheIs
<1>2. /\ Exact(cache_', Held') /\ cache_'.dead = {} /\ cache_'.refs = d.refs
      /\ cache_'.in_cache = d.in_cache
  BY <1>1, NotDead
<1>3. CacheInv'
  BY <1>2 DEF CacheInv
<1>4. NothingNew
  BY <1>2 DEF NothingNew, Keeps
<1>5. d.dead \in SUBSET Handles
  BY DEF Exact, ExactBut, Shard
<1>6. opened' = [h \in Handles |-> IF h \in d.dead THEN "none" ELSE opened[h]]
  BY DEF CacheStep
<1>7. /\ mmap_allowed' = mmap_allowed + Cardinality(Gone(d.dead, "mmap"))
      /\ fd_allowed' = fd_allowed + Cardinality(Gone(d.dead, "fd"))
  BY DEF CacheStep, CloseAll, Gone
<1>8. \A how \in {"mmap", "fd"} :
        /\ Cardinality(Opened(how)) \in Nat /\ Cardinality(Gone(d.dead, how)) \in Nat
        /\ Cardinality(Opened(how))' = Cardinality(Opened(how)) - Cardinality(Gone(d.dead, how))
        /\ Cardinality(Opening(how)) \in Nat
        /\ Cardinality(Opening(how))' = Cardinality(Opening(how))
  BY <1>5, <1>6, FilesClose, OpeningStays
<1>9. LimitsInv'
  <2>1. ASSUME NEW h \in Handles, opened'[h] # "none" PROVE cache_'.refs[h] > 0
    <3>1. h \notin d.dead /\ opened[h] # "none"
      BY <1>6, <2>1
    <3>2. cache_.refs[h] > 0
      BY <3>1 DEF LimitsInv
    <3>3. d.refs[h] # 0
      BY <3>1, <3>2 DEF Keeps
    <3>4. d.refs[h] \in Nat
      <4>1. Held' \in [Handles -> Nat]
        BY HeldNext
      <4>2. Held'[h] \in Nat /\ d.refs[h] = Held'[h] + (IF d.in_cache[h] THEN 1 ELSE 0)
        BY <4>1 DEF Exact, ExactBut
      <4>3. QED  BY <4>2
    <3>5. QED  BY <1>2, <3>3, <3>4
  <2>2. /\ mmap_allowed' + (Cardinality(Opened("mmap"))' + Cardinality(Opening("mmap"))') = MmapLimit
        /\ mmap_allowed' >= 0
    BY <1>7, <1>8 DEF LimitsInv
  <2>3. /\ fd_allowed' + (Cardinality(Opened("fd"))' + Cardinality(Opening("fd"))') = FdLimit
        /\ fd_allowed' >= 0
    BY <1>7, <1>8 DEF LimitsInv
  <2>4. QED  BY <2>1, <2>2, <2>3 DEF LimitsInv
<1>10. opened' \in [Handles -> Hows] /\ mmap_allowed' \in Int /\ fd_allowed' \in Int
  BY <1>6, <1>7, <1>8 DEF Hows
<1>11. QED  BY <1>2, <1>3, <1>4, <1>9, <1>10
\* Lookup: the table is in the cache.
LEMMA HitTables ==
  ASSUME CacheInv, LimitsInv, opened \in [Handles -> Hows], mmap_allowed \in Int, fd_allowed \in Int,
         NEW a \in Actors, NEW f \in Files, \A b \in Actors \ {a} : actor'[b] = actor[b],
         actor'[a].how = actor[a].how,
         HandleOf(a, f) = {}, cache_.table[f] # None,
         actor'[a].handles = actor[a].handles \cup {cache_.table[f]},
         CacheStep(Ref(cache_, cache_.table[f]))
  PROVE  /\ CacheInv' /\ LimitsInv' /\ NothingNew
         /\ opened' \in [Handles -> Hows] /\ mmap_allowed' \in Int /\ fd_allowed' \in Int
<1> DEFINE h == cache_.table[f]
           d == Ref(cache_, h)
<1>1. Exact(cache_, Held) /\ Held \in [Handles -> Nat]
  BY HeldIs DEF CacheInv
<1>2. h \in Handles /\ cache_.in_cache[h] /\ Key(h) = f
  <2>1. f \in CacheKeys
    BY ReadersAssumption
  <2>2. QED  BY <1>1, <2>1 DEF Exact, ExactBut, Shard
<1>3. h \notin actor[a].handles
  BY <1>2 DEF HandleOf
<1>4. CacheStep(d) /\ actor'[a].handles = actor[a].handles \cup {h}
  OBVIOUS
<1> HIDE DEF h
<1>5. Held' = More(Held, h)
  BY <1>2, <1>3, <1>4, HeldMore
<1>6. Exact(d, More(Held, h)) /\ Keeps(cache_, d, {})
  BY <1>1, <1>2, RefExact
<1> HIDE DEF d
<1>7. Exact(d, Held')
  BY <1>5, <1>6
<1>8. \A b \in Actors : actor'[b].how = actor[b].how
  OBVIOUS
<1>9. QED  BY <1>4, <1>6, <1>7, <1>8, CacheStepKeeps

LEMMA ReleaseTables ==
  ASSUME CacheInv, LimitsInv, opened \in [Handles -> Hows], mmap_allowed \in Int, fd_allowed \in Int,
         NEW a \in Actors, NEW h \in Handles, \A b \in Actors \ {a} : actor'[b] = actor[b],
         actor'[a].how = actor[a].how,
         h \in actor[a].handles, actor'[a].handles = actor[a].handles \ {h},
         CacheStep(Unref(cache_, h))
  PROVE  /\ CacheInv' /\ LimitsInv' /\ NothingNew
         /\ opened' \in [Handles -> Hows] /\ mmap_allowed' \in Int /\ fd_allowed' \in Int
<1> DEFINE d == Unref(cache_, h)
<1>1. Exact(cache_, Held) /\ Held \in [Handles -> Nat]
  BY HeldIs DEF CacheInv
<1>2. Held' = Less(Held, h) /\ Held[h] > 0
  BY HeldLess
<1>3. Exact(d, Less(Held, h)) /\ Keeps(cache_, d, {})
  BY <1>1, <1>2, UnrefExact
<1>4. CacheStep(d)
  OBVIOUS
<1> HIDE DEF d
<1>5. Exact(d, Held')
  BY <1>2, <1>3
<1>6. \A b \in Actors : actor'[b].how = actor[b].how
  OBVIOUS
<1>7. QED  BY <1>3, <1>4, <1>5, <1>6, CacheStepKeeps

\* RemoveObsoleteFiles: nobody has a table of S.
LEMMA EvictTables ==
  ASSUME CacheInv, LimitsInv, opened \in [Handles -> Hows], mmap_allowed \in Int, fd_allowed \in Int,
         \A b \in Actors : actor'[b].handles = actor[b].handles /\ actor'[b].how = actor[b].how,
         NEW S \in SUBSET Files, CacheStep(Evicted(cache_, S)),
         \A b \in Actors : \A h \in actor[b].handles : Key(h) \notin S
  PROVE  /\ CacheInv' /\ LimitsInv' /\ NothingNew
         /\ opened' \in [Handles -> Hows] /\ mmap_allowed' \in Int /\ fd_allowed' \in Int
         /\ \A h \in Handles : cache_'.refs[h] > 0 => Key(h) \notin S
<1> DEFINE d == Evicted(cache_, S)
<1>1. Exact(cache_, Held) /\ Held \in [Handles -> Nat]
  BY HeldIs DEF CacheInv
<1>2. Held' = Held
  BY HeldStays
<1>3. S \in SUBSET CacheKeys
  BY ReadersAssumption
<1>4. /\ Exact(d, Held) /\ Keeps(cache_, d, {})
      /\ \A x \in Handles : d.in_cache[x] => Key(x) \notin S
  BY <1>1, <1>3, EvictedExact
<1>5. CacheStep(d)
  OBVIOUS
<1> HIDE DEF d
<1>6. Exact(d, Held')
  BY <1>2, <1>4
<1>7. /\ CacheInv' /\ LimitsInv' /\ NothingNew /\ cache_'.refs = d.refs
      /\ opened' \in [Handles -> Hows] /\ mmap_allowed' \in Int /\ fd_allowed' \in Int
  BY <1>4, <1>5, <1>6, CacheStepKeeps
<1>8. ASSUME NEW h \in Handles, cache_'.refs[h] > 0, Key(h) \in S PROVE FALSE
  <2>1. d.refs[h] = Held[h] + (IF d.in_cache[h] THEN 1 ELSE 0) /\ Held[h] \in Nat
    BY <1>1, <1>4 DEF Exact, ExactBut
  <2>2. ~d.in_cache[h] /\ d.refs[h] > 0
    BY <1>4, <1>7, <1>8
  <2>3. Held[h] > 0
    BY <2>1, <2>2
  <2>4. QED  BY <1>8, <2>3, HeldIs
<1>9. QED  BY <1>7, <1>8

LEMMA InsertTables ==
  ASSUME CacheInv, LimitsInv, opened \in [Handles -> Hows], mmap_allowed \in Int, fd_allowed \in Int,
         NEW a \in Actors, NEW f \in Files, \A b \in Actors \ {a} : actor'[b] = actor[b],
         actor[a].how \in Hows \ {"none"}, actor'[a].how = "none", CanInsert(cache_, f),
         actor'[a].handles = actor[a].handles \cup {NewHandle(cache_, f)},
         CacheIs(Insert(cache_, f, 1)), CloseAll(Insert(cache_, f, 1)),
         opened' = [e \in Handles |-> IF e = NewHandle(cache_, f) THEN actor[a].how
                                      ELSE IF e \in Insert(cache_, f, 1).dead THEN "none"
                                      ELSE opened[e]]
  PROVE  /\ CacheInv' /\ LimitsInv' /\ NewHandle(cache_, f) \in Handles
         /\ Key(NewHandle(cache_, f)) = f /\ NewHandle(cache_, f) \notin actor[a].handles
         /\ \A h \in Handles : cache_'.refs[h] > 0 => cache_.refs[h] > 0 \/ Key(h) = f
         /\ opened' \in [Handles -> Hows] /\ mmap_allowed' \in Int /\ fd_allowed' \in Int
<1> DEFINE h == NewHandle(cache_, f)
           d == Insert(cache_, f, 1)
           w == actor[a].how
<1>1. Exact(cache_, Held) /\ Held \in [Handles -> Nat]
  BY HeldIs DEF CacheInv
<1>2. f \in CacheKeys
  BY ReadersAssumption
<1>3. /\ h \in Handles /\ Key(h) = f /\ cache_.refs[h] = 0
      /\ Exact(d, More(Held, h)) /\ Keeps(cache_, d, {h}) /\ cache_.dead \subseteq d.dead
  BY <1>1, <1>2, InsertExact
<1>4. Held[h] = 0
  <2>1. cache_.refs[h] = Held[h] + (IF cache_.in_cache[h] THEN 1 ELSE 0) /\ Held[h] \in Nat
    BY <1>1, <1>3 DEF Exact, ExactBut
  <2>2. QED  BY <1>3, <2>1
<1>5. h \notin actor[a].handles
  BY <1>3, <1>4, HeldIs
<1>6. Held' = More(Held, h)
  <2> HIDE DEF h
  <2>1. actor'[a].handles = actor[a].handles \cup {h}
    BY DEF h
  <2>2. QED  BY <1>3, <1>5, <2>1, HeldMore
<1>7. cache_' = [d EXCEPT !.dead = {}]
  BY DEF CacheIs
<1>8. opened' = [e \in Handles |-> IF e = h THEN w ELSE IF e \in d.dead THEN "none" ELSE opened[e]]
  OBVIOUS
<1>9. /\ mmap_allowed' = mmap_allowed + Cardinality(Gone(d.dead, "mmap"))
      /\ fd_allowed' = fd_allowed + Cardinality(Gone(d.dead, "fd"))
  BY DEF CloseAll, Gone
<1> HIDE DEF h, d, w
<1>10. Exact(d, Held')
  BY <1>3, <1>6
<1>11. /\ Exact(cache_', Held') /\ cache_'.dead = {} /\ cache_'.refs = d.refs
  BY <1>7, <1>10, NotDead
<1>12. \A x \in Handles : cache_'.refs[x] > 0 => cache_.refs[x] > 0 \/ Key(x) = f
  BY <1>3, <1>11 DEF Keeps
<1>13. opened[h] = "none"
  BY <1>3 DEF LimitsInv
<1>14. d.dead \in SUBSET Handles
  BY <1>3 DEF Exact, ExactBut, Shard
<1>15. \A how \in {"mmap", "fd"} :
        /\ Cardinality(Opened(how)) \in Nat /\ Cardinality(Gone(d.dead, how)) \in Nat
        /\ Cardinality(Opened(how))' =
             Cardinality(Opened(how)) - Cardinality(Gone(d.dead, how)) + One(w = how)
        /\ Cardinality(Opening(how)) \in Nat
        /\ Cardinality(Opening(how))' = Cardinality(Opening(how)) - One(w = how)
  <2> SUFFICES ASSUME NEW how \in {"mmap", "fd"}
               PROVE  /\ Cardinality(Opened(how)) \in Nat /\ Cardinality(Gone(d.dead, how)) \in Nat
                      /\ Cardinality(Opened(how))' =
                           Cardinality(Opened(how)) - Cardinality(Gone(d.dead, how)) + One(w = how)
                      /\ Cardinality(Opening(how)) \in Nat
                      /\ Cardinality(Opening(how))' = Cardinality(Opening(how)) - One(w = how)
    OBVIOUS
  <2>1. how # "none"
    OBVIOUS
  <2>2. /\ Cardinality(Opened(how)) \in Nat /\ Cardinality(Gone(d.dead, how)) \in Nat
        /\ Cardinality(Opened(how))' =
             Cardinality(Opened(how)) - Cardinality(Gone(d.dead, how)) + One(w = how)
    <3> DEFINE D == d.dead
    <3>1. D \in SUBSET Handles
      BY <1>14
    <3>2. Reopens(D, h, w)
      BY <1>8 DEF Reopens
    <3>3. h \in Handles
      BY <1>3
    <3> HIDE DEF D
    <3>4. /\ Cardinality(Opened(how)) \in Nat /\ Cardinality(Gone(D, how)) \in Nat
          /\ Cardinality(Opened(how))' =
               Cardinality(Opened(how)) - Cardinality(Gone(D, how)) + One(w = how)
      BY <1>13, <2>1, <3>1, <3>2, <3>3, FileOpens
    <3>5. QED  BY <3>4 DEF D
  <2>3. /\ Cardinality(Opening(how)) \in Nat
        /\ Cardinality(Opening(how))' = Cardinality(Opening(how)) + One("none" = how) - One(w = how)
    BY OpeningMoves DEF w
  <2>4. QED  BY <2>1, <2>2, <2>3 DEF One
<1>16. \A how \in {"mmap", "fd"} :
         Cardinality(Opened(how))' + Cardinality(Opening(how))' =
           Cardinality(Opened(how)) + Cardinality(Opening(how)) - Cardinality(Gone(d.dead, how))
  BY <1>15 DEF One
<1>17. ASSUME NEW x \in Handles, opened'[x] # "none" PROVE cache_'.refs[x] > 0
  <2>1. d.refs[x] \in Nat /\ d.refs[x] = Held'[x] + (IF d.in_cache[x] THEN 1 ELSE 0)
        /\ Held'[x] \in Nat
    <3>1. Held' \in [Handles -> Nat]
      BY HeldNext
    <3>2. Held'[x] \in Nat /\ d.refs[x] = Held'[x] + (IF d.in_cache[x] THEN 1 ELSE 0)
      BY <1>10, <3>1 DEF Exact, ExactBut
    <3>3. QED  BY <3>2
  <2>2. CASE x = h
    <3>1. Held'[h] = 1
      BY <1>1, <1>3, <1>4, <1>6 DEF More
    <3>2. QED  BY <1>11, <2>1, <2>2, <3>1
  <2>3. CASE x # h
    <3>1. x \notin d.dead /\ opened[x] # "none"
      BY <1>8, <1>17, <2>3
    <3>2. cache_.refs[x] > 0
      BY <3>1 DEF LimitsInv
    <3>3. d.refs[x] # 0
      BY <1>3, <3>1, <3>2 DEF Keeps
    <3>4. QED  BY <1>11, <2>1, <3>3
  <2>4. QED  BY <2>2, <2>3
<1>18. LimitsInv'
  <2>1. /\ mmap_allowed' + (Cardinality(Opened("mmap"))' + Cardinality(Opening("mmap"))') = MmapLimit
        /\ mmap_allowed' >= 0
    BY <1>9, <1>15, <1>16 DEF LimitsInv
  <2>2. /\ fd_allowed' + (Cardinality(Opened("fd"))' + Cardinality(Opening("fd"))') = FdLimit
        /\ fd_allowed' >= 0
    BY <1>9, <1>15, <1>16 DEF LimitsInv
  <2>3. QED  BY <1>17, <2>1, <2>2 DEF LimitsInv
<1>19. opened' \in [Handles -> Hows] /\ mmap_allowed' \in Int /\ fd_allowed' \in Int
  BY <1>8, <1>9, <1>15 DEF Hows, w
<1>20. QED  BY <1>3, <1>5, <1>11, <1>12, <1>18, <1>19 DEF CacheInv, h
(***************************************************************************)
(* The other actors.  What they rely on: versions with references keep     *)
(* their files, and mutex_ is not taken from them.                         *)
(***************************************************************************)
Lasting ==
  /\ versions' \in Seq(VersionState) /\ Len(versions') >= Len(versions)
  /\ Len(versions') = Len(versions) \/ mutex_ = "free"
  /\ \A v \in 1..Len(versions) : versions'[v].refs > 0 =>
       versions'[v].level0 = versions[v].level0 /\ versions'[v].level1 = versions[v].level1

\* What VersionRefs says of those who have a reference.
LEMMA ReferencedLive ==
  ASSUME CallsInv, VersionRefs, versions \in Seq(VersionState), versions # <<>>,
         flush.base \in Nat, compact.version \in Nat
  PROVE  /\ versions[current_].refs > 0
         /\ flush.base # 0 => versions[flush.base].refs > 0
         /\ compact.version # 0 => versions[compact.version].refs > 0
         /\ \A a \in Clients : Phase(a) \in {"read", "end"} => versions[actor[a].version].refs > 0
<1>1. current_ \in 1..Len(versions)
  BY DEF current_
<1>2. \A v \in 1..Len(versions) :
        /\ Cardinality(Readings(v)) \in Nat
        /\ Readings(v) # {} => Cardinality(Readings(v)) > 0
        /\ versions[v].refs = Cardinality(Readings(v)) + One(v = current_) + One(flush.base = v)
                              + One(compact.version = v)
  <2>1. \A v : IsFiniteSet(Readings(v)) /\ Cardinality(Readings(v)) \in Nat
    BY ActorsFinite DEF Readings, Actors
  <2>2. \A v : Readings(v) # {} => Cardinality(Readings(v)) # 0
    BY <2>1, FS_EmptySet
  <2>3. \A v : Readings(v) # {} => Cardinality(Readings(v)) > 0
    BY <2>1, <2>2
  <2>4. QED  BY <2>1, <2>3 DEF VersionRefs
<1>3. \A v \in 1..Len(versions) :
        (v = current_ \/ flush.base = v \/ compact.version = v) => versions[v].refs > 0
  <2> SUFFICES ASSUME NEW v \in 1..Len(versions),
                      v = current_ \/ flush.base = v \/ compact.version = v
               PROVE  versions[v].refs > 0
    OBVIOUS
  <2> DEFINE n == Cardinality(Readings(v))
             r == versions[v].refs
  <2>1. n \in Nat /\ r = n + One(v = current_) + One(flush.base = v) + One(compact.version = v)
    BY <1>2
  <2> HIDE DEF n, r
  <2>2. One(v = current_) \in {0, 1} /\ One(flush.base = v) \in {0, 1} /\ One(compact.version = v) \in {0, 1}
    BY DEF One
  <2>3. One(v = current_) = 1 \/ One(flush.base = v) = 1 \/ One(compact.version = v) = 1
    BY DEF One
  <2>4. r > 0
    BY <2>1, <2>2, <2>3
  <2>5. QED  BY <2>4 DEF r
<1>4. flush.base \in 0..Len(versions) /\ compact.version \in 0..Len(versions)
  BY DEF CallsInv, BgCall
<1>5. versions[current_].refs > 0
  BY <1>1, <1>3
<1>6. flush.base # 0 => versions[flush.base].refs > 0
  BY <1>3, <1>4
<1>7. compact.version # 0 => versions[compact.version].refs > 0
  BY <1>3, <1>4
<1>8. ASSUME NEW a \in Clients, Phase(a) \in {"read", "end"}
      PROVE  versions[actor[a].version].refs > 0
  <2>1. actor[a].version \in 1..Len(versions)
    BY <1>8 DEF CallsInv, ClientCall
  <2>2. Readings(actor[a].version) # {}
    BY DEF Readings
  <2>3. Cardinality(Readings(actor[a].version)) > 0
    BY <1>2, <2>1, <2>2
  <2> DEFINE v == actor[a].version
             n == Cardinality(Readings(v))
             r == versions[v].refs
  <2>4. n \in Nat /\ n > 0 /\ r = n + One(v = current_) + One(flush.base = v) + One(compact.version = v)
    BY <1>2, <2>1, <2>3
  <2> HIDE DEF n, r
  <2>5. One(v = current_) \in {0, 1} /\ One(flush.base = v) \in {0, 1} /\ One(compact.version = v) \in {0, 1}
    BY DEF One
  <2>6. r > 0
    BY <2>4, <2>5
  <2>7. QED  BY <2>6 DEF r
<1>9. QED  BY <1>5, <1>6, <1>7, <1>8

LEMMA ClientStays ==
  ASSUME CallsInv, ScopeInv, Lasting, NEW b \in Clients, actor'[b] = actor[b],
         Len(memtables') >= Len(memtables), memtables \in Seq(Int), memtables' \in Seq(Int),
         versions \in Seq(VersionState), versions # <<>>,
         Phase(b) \in {"read", "end"} => versions'[actor[b].version].refs > 0,
         Phase(b) = "collect" => versions'[current_].refs > 0,
         mutex_' = b <=> mutex_ = b
  PROVE  ClientCall(b)' /\ CallOf(b)' /\ InScope(b)'
<1>1. /\ Phase(b)' = Phase(b) /\ Finding(b)' = Finding(b)
  BY DEF Phase, Finding
<1>2. ClientCall(b) /\ CallOf(b) /\ InScope(b) /\ b # bg /\ b # "free"
  BY ActorsFinite DEF CallsInv, ScopeInv, Actors
<1>3. ClientCall(b)'
  <2>1. \A n : n \in 1..Len(versions) => n \in 1..Len(versions')
    BY DEF Lasting
  <2>2. \A n : /\ n \in 1..Len(memtables) => n \in 1..Len(memtables')
               /\ n \in 0..Len(memtables) => n \in 0..Len(memtables')
    OBVIOUS
  <2>3. QED  BY <1>1, <1>2, <2>1, <2>2 DEF ClientCall
<1>4. CallOf(b)'
  BY <1>1, <1>2 DEF CallOf
<1>5. Scope(b)' = Scope(b)
  <2>1. CASE Phase(b) = "collect"
    <3>1. mutex_ # "free"
      BY <1>2, <2>1 DEF CallOf
    <3>2. current_' = current_ /\ current_ \in 1..Len(versions)
      BY <3>1 DEF Lasting, current_
    <3>3. versions'[current_].level0 = versions[current_].level0
      BY <2>1, <3>2 DEF Lasting
    <3>4. QED  BY <1>1, <1>2, <2>1, <3>2, <3>3 DEF Scope
  <2>2. CASE Phase(b) \in {"read", "end"}
    <3>1. actor[b].version \in 1..Len(versions)
      BY <1>2, <2>2 DEF ClientCall
    <3>2. /\ versions'[actor[b].version].level0 = versions[actor[b].version].level0
          /\ versions'[actor[b].version].level1 = versions[actor[b].version].level1
      BY <2>2, <3>1 DEF Lasting
    <3>3. QED  BY <1>1, <1>2, <2>2, <3>2 DEF Scope, FilesOf
  <2>3. CASE Phase(b) \notin {"collect", "read", "end"}
    BY <1>1, <1>2, <2>3 DEF Scope
  <2>4. QED  BY <2>1, <2>2, <2>3
<1>6. InScope(b)'
  <2>1. Phase(b) \notin {"verified", "finished"}
    BY <1>2 DEF ClientCall
  <2>2. QED  BY <1>1, <1>2, <1>5, <2>1 DEF InScope
<1>7. QED  BY <1>3, <1>4, <1>6

LEMMA BgStays ==
  ASSUME CallsInv, ScopeInv, Lasting, actor'[bg] = actor[bg],
         UNCHANGED <<flush, compact, files_to_delete>>, imm_ # 0 => imm_' # 0,
         versions \in Seq(VersionState), compact.version \in Nat,
         compact.version # 0 => versions'[compact.version].refs > 0,
         mutex_' = bg <=> mutex_ = bg
  PROVE  BgCall' /\ CallOf(bg)' /\ InScope(bg)'
<1>1. Phase(bg)' = Phase(bg) /\ Finding(bg)' = Finding(bg)
  BY DEF Phase, Finding
<1>2. BgCall /\ CallOf(bg) /\ InScope(bg)
  BY ActorsFinite DEF CallsInv, ScopeInv
<1>3. flush' = flush /\ compact' = compact /\ files_to_delete' = files_to_delete
  OBVIOUS
<1>4. BgCall'
  <2>1. \A n : n \in 0..Len(versions) => n \in 0..Len(versions')
    BY DEF Lasting
  <2>2. QED  BY <1>1, <1>2, <1>3, <2>1 DEF BgCall
<1>5. CallOf(bg)'
  BY <1>1, <1>2 DEF CallOf
<1>6. compact.version # 0 => FilesOf(compact.version)' = FilesOf(compact.version)
  <2>1. compact.version # 0 => compact.version \in 1..Len(versions)
    BY <1>2 DEF BgCall
  <2>2. QED  BY <1>3, <2>1 DEF Lasting, FilesOf
<1>7. Scope(bg)' = Scope(bg)
  BY <1>1, <1>3, <1>6 DEF Scope
<1>8. InScope(bg)'
  BY <1>1, <1>2, <1>3, <1>7 DEF InScope
<1>9. QED  BY <1>4, <1>5, <1>8

(***************************************************************************)
(* What stays when nothing but one actor, and the tables, change.          *)
(***************************************************************************)
LEMMA VersionsStay ==
  ASSUME VersionRefs, versions' = versions, flush'.base = flush.base,
         compact'.version = compact.version,
         \A b \in Clients : actor'[b].version = actor[b].version
  PROVE  VersionRefs'
<1>1. \A v : Cardinality(Readings(v))' = Cardinality(Readings(v))
  BY ReadingsStay
<1>2. current_' = current_
  BY DEF current_
<1>3. QED  BY <1>1, <1>2 DEF VersionRefs

LEMMA MemsStay ==
  ASSUME MemRefs, memtables' = memtables, mem_' = mem_, imm_' = imm_,
         \A b \in Clients : actor'[b].mem = actor[b].mem /\ actor'[b].imm = actor[b].imm
  PROVE  MemRefs'
<1>1. \A m : Cardinality(Using(m))' = Cardinality(Using(m))
  BY UsingStay
<1>2. QED  BY <1>1 DEF MemRefs

LEMMA Live ==
  ASSUME Inv
  PROVE  /\ versions[current_].refs > 0 /\ current_ \in 1..Len(versions)
         /\ flush.base # 0 => flush.base \in 1..Len(versions) /\ versions[flush.base].refs > 0
         /\ compact.version # 0 =>
              compact.version \in 1..Len(versions) /\ versions[compact.version].refs > 0
         /\ \A a \in Clients : Phase(a) \in {"read", "end"} =>
              actor[a].version \in 1..Len(versions) /\ versions[actor[a].version].refs > 0
<1>1. /\ versions \in Seq(VersionState) /\ versions # <<>>
      /\ flush.base \in Nat /\ compact.version \in Nat /\ CallsInv /\ VersionRefs
  BY DEF Inv, Typed
<1>2. current_ \in 1..Len(versions)
  BY <1>1 DEF current_
<1>3. flush.base \in 0..Len(versions) /\ compact.version \in 0..Len(versions)
  BY <1>1 DEF CallsInv, BgCall
<1>4. \A a \in Clients : Phase(a) \in {"read", "end"} => actor[a].version \in 1..Len(versions)
  BY <1>1 DEF CallsInv, ClientCall
<1>5. QED  BY <1>1, <1>2, <1>3, <1>4, ReferencedLive

LEMMA QuietStep ==
  ASSUME Inv, NEW a \in Actors, Only(a), SameCall(a), UNCHANGED <<mutex_, disk, dbVars>>,
         CacheInv', LimitsInv', FilesInv',
         opened' \in [Handles -> Hows], mmap_allowed' \in Int, fd_allowed' \in Int,
         a # bg => ClientCall(a)', a = bg => BgCall', CallOf(a)', InScope(a)'
  PROVE  Inv'
<1>1. /\ mutex_' = mutex_ /\ disk' = disk /\ versions' = versions /\ memtables' = memtables
      /\ mem_' = mem_ /\ imm_' = imm_ /\ next_file_number_' = next_file_number_
      /\ pending_outputs_' = pending_outputs_ /\ bg_error_' = bg_error_ /\ flush' = flush
      /\ compact' = compact /\ files_to_delete' = files_to_delete
  BY DEF dbVars, workVars
<1>2. Typed'
  BY <1>1 DEF Inv, Typed, Only
<1>3. \A b \in Actors : /\ actor'[b].version = actor[b].version
                        /\ actor'[b].mem = actor[b].mem /\ actor'[b].imm = actor[b].imm
  BY DEF Only, SameCall
<1>4. Clients \subseteq Actors
  BY DEF Actors
<1>5. VersionRefs' /\ MemRefs'
  BY <1>1, <1>3, <1>4, VersionsStay, MemsStay DEF Inv
<1>6. Lasting
  BY <1>1 DEF Lasting, Inv, Typed
<1>7. /\ CallsInv /\ ScopeInv /\ versions \in Seq(VersionState) /\ versions # <<>>
      /\ memtables \in Seq(Int) /\ memtables' \in Seq(Int) /\ Len(memtables') >= Len(memtables)
      /\ compact.version \in Nat
  <2>1. CallsInv /\ ScopeInv /\ versions \in Seq(VersionState) /\ versions # <<>> /\ memtables \in Seq(Int)
    BY DEF Inv, Typed
  <2>2. compact.version \in Nat
    BY DEF Inv, Typed
  <2>3. QED  BY <1>1, <2>1, <2>2
<1>8. \A b \in Clients : b # a => ClientCall(b)' /\ CallOf(b)' /\ InScope(b)'
  <2> SUFFICES ASSUME NEW b \in Clients, b # a PROVE ClientCall(b)' /\ CallOf(b)' /\ InScope(b)'
    OBVIOUS
  <2>1. actor'[b] = actor[b]
    BY <1>4 DEF Only
  <2>2. /\ Phase(b) \in {"read", "end"} => versions'[actor[b].version].refs > 0
        /\ Phase(b) = "collect" => versions'[current_].refs > 0
    BY <1>1, Live
  <2>3. QED  BY <1>1, <1>6, <1>7, <2>1, <2>2, ClientStays
<1>9. a # bg => BgCall' /\ CallOf(bg)' /\ InScope(bg)'
  <2> HAVE a # bg
  <2>1. actor'[bg] = actor[bg]
    BY ActorsFinite DEF Only
  <2>2. compact.version # 0 => versions'[compact.version].refs > 0
    BY <1>1, Live
  <2>3. QED  BY <1>1, <1>6, <1>7, <2>1, <2>2, BgStays
<1>10. CallsInv'
  <2>1. \A b \in Clients : ClientCall(b)'
    BY <1>8, ActorsFinite
  <2>2. BgCall'
    BY <1>9
  <2>3. \A b \in Actors : CallOf(b)'
    BY <1>8, <1>9 DEF Actors
  <2>4. QED  BY <2>1, <2>2, <2>3 DEF CallsInv
<1>11. ScopeInv'
  BY <1>8, <1>9 DEF ScopeInv, Actors
<1>12. QED  BY <1>2, <1>5, <1>10, <1>11 DEF Inv

\* Every table an actor may open has its file, and only the background thread
\* may open the output of a flush.
LEMMA ScopeKept ==
  ASSUME Inv, NEW a \in Actors
  PROVE  /\ \A f \in Scope(a) : f \in Kept /\ f \in Files
         /\ \A f \in Scope(a) : f = flush.output => a = bg /\ Phase(bg) = "verified"
<1>1. FilesInv /\ BgCall /\ disk \subseteq Files
  BY DEF Inv, Typed, CallsInv
<1>2. \A v \in 1..Len(versions) : versions[v].refs > 0 =>
        \A f \in FilesOf(v) : f \in Kept /\ f \in Files /\ f # flush.output
  BY <1>1 DEF FilesInv, Kept
<1>3. CASE a # bg
  <2>1. a \in Clients
    BY <1>3 DEF Actors
  <2>2. CASE Phase(a) = "collect"
    <3>1. Scope(a) \subseteq FilesOf(current_)
      BY <1>3, <2>2 DEF Scope, FilesOf
    <3>2. QED  BY <1>2, <3>1, Live
  <2>3. CASE Phase(a) \in {"read", "end"}
    <3>1. Scope(a) = FilesOf(actor[a].version)
      BY <1>3, <2>3 DEF Scope
    <3>2. QED  BY <1>2, <2>1, <2>3, <3>1, Live
  <2>4. CASE Phase(a) \notin {"collect", "read", "end"}
    BY <1>3, <2>4 DEF Scope
  <2>5. QED  BY <2>2, <2>3, <2>4
<1>4. CASE a = bg
  <2>1. compact.version # 0 => \A f \in FilesOf(compact.version) : f \in Kept /\ f \in Files /\ f # flush.output
    BY <1>2, Live
  <2>2. Phase(bg) = "verified" => flush.output \in Kept /\ flush.output \in Files
    BY <1>1 DEF FilesInv, BgCall, Kept
  <2>3. Phase(bg) = "finished" =>
          compact.builder \in Kept /\ compact.builder \in Files /\ compact.builder # flush.output
    <3>1. HAVE Phase(bg) = "finished"
    <3>2. compact.builder \in compact.outputs
      BY <1>1, <3>1 DEF BgCall
    <3>3. QED  BY <1>1, <3>1, <3>2 DEF FilesInv, Kept
  <2>4. QED  BY <1>4, <2>1, <2>2, <2>3 DEF Scope
<1>5. QED  BY <1>3, <1>4

LEMMA HandlesLive ==
  ASSUME Inv, NEW a \in Actors, NEW h \in actor[a].handles
  PROVE  h \in Handles /\ cache_.refs[h] > 0 /\ Held[h] > 0 /\ Key(h) \in Scope(a)
<1>1. h \in Handles
  BY ActorFields DEF Inv, Typed
<1>2. Held[h] > 0 /\ Held[h] \in Nat
  BY <1>1, HeldIs
<1>3. cache_.refs[h] = Held[h] + (IF cache_.in_cache[h] THEN 1 ELSE 0)
  BY <1>1 DEF Inv, CacheInv, Exact, ExactBut
<1>4. Key(h) \in Scope(a)
  BY DEF Inv, ScopeInv, InScope
<1>5. QED  BY <1>1, <1>2, <1>3, <1>4

\* The table of a handle in the hash table of the cache is open, that of one
\* that is not there either.
LEMMA CachedLive ==
  ASSUME Inv, NEW f \in Files, cache_.table[f] # None
  PROVE  /\ cache_.table[f] \in Handles /\ Key(cache_.table[f]) = f
         /\ cache_.refs[cache_.table[f]] > 0 /\ f \in Kept
<1>1. f \in CacheKeys
  BY ReadersAssumption
<1> DEFINE h == cache_.table[f]
<1>2. h \in Handles /\ Key(h) = f /\ cache_.in_cache[h] /\ cache_.refs[h] = Held[h] + 1
  BY <1>1 DEF Inv, CacheInv, Exact, ExactBut, Shard
<1>3. Held[h] \in Nat
  BY <1>2, HeldIs
<1>4. f \in Kept
  BY <1>2, <1>3 DEF Inv, FilesInv
<1>5. QED  BY <1>2, <1>3, <1>4

\* Nothing but the cache changes for the files.
LEMMA FilesQuiet ==
  ASSUME Inv, UNCHANGED <<disk, dbVars>>, Phase(bg)' = Phase(bg),
         \A h \in Handles : cache_'.refs[h] > 0 => Key(h) \in Kept,
         Phase(bg) \in {"build", "verify"} => Unseen(flush.output)',
         Phase(bg) = "verified" /\ HandleOf(bg, flush.output)' = {} => Unseen(flush.output)'
  PROVE  FilesInv'
<1>1. /\ disk' = disk /\ versions' = versions /\ next_file_number_' = next_file_number_
      /\ pending_outputs_' = pending_outputs_ /\ flush' = flush
      /\ compact' = compact /\ files_to_delete' = files_to_delete
  BY DEF dbVars, workVars
<1>2. FilesInv
  BY DEF Inv
<1>3. \A v : FilesOf(v)' = FilesOf(v)
  BY <1>1 DEF FilesOf
<1>4. Kept' = Kept
  BY <1>1 DEF Kept
<1>5. QED  BY <1>1, <1>2, <1>3, <1>4 DEF FilesInv

\* How an actor's search for a table, and its handles, are consistent.
Searching(a) ==
  /\ Finding(a) <=> actor[a].file # 0
  /\ actor[a].how # "none" <=> actor[a].pc = "table"
  /\ \A g, h \in actor[a].handles : Key(g) = Key(h) => g = h
  /\ \A h \in actor[a].handles : Key(h) # actor[a].file

LEMMA SearchStep ==
  ASSUME Inv, NEW a \in Actors, Only(a), SameCall(a), UNCHANGED <<mutex_, disk, dbVars>>,
         Phase(a)' = Phase(a), Searching(a)', actor'[a].todo \subseteq actor[a].todo,
         Finding(a)' => /\ Phase(a) \in {"collect", "read", "merge", "verified", "finished"}
                        /\ a = bg => files_to_delete = {}
                        /\ Phase(a) \in {"verified", "finished"} =>
                             Finding(a) /\ actor'[a].file = actor[a].file,
         actor'[a].file \in Scope(a) \cup {0},
         \A h \in actor'[a].handles : Key(h) \in Scope(a),
         CacheInv', LimitsInv',
         opened' \in [Handles -> Hows], mmap_allowed' \in Int, fd_allowed' \in Int,
         \A h \in Handles : cache_'.refs[h] > 0 => cache_.refs[h] > 0 \/ Key(h) \in Scope(a),
         a = bg /\ Phase(bg) = "verified" =>
           \/ actor'[bg].handles = actor[bg].handles /\ NothingNew
           \/ \E h \in actor'[bg].handles : Key(h) = flush.output
  PROVE  Inv'
<1>1. /\ mutex_' = mutex_ /\ versions' = versions /\ memtables' = memtables
      /\ imm_' = imm_ /\ flush' = flush /\ compact' = compact /\ files_to_delete' = files_to_delete
  BY DEF dbVars, workVars
<1>2. CallOf(a) /\ InScope(a) /\ BgCall /\ (a # bg => ClientCall(a))
  BY DEF Inv, CallsInv, ScopeInv, Actors
<1>3. a # bg => ClientCall(a)'
  BY <1>1, <1>2 DEF ClientCall, SameCall
<1>4. a = bg => BgCall'
  <2> HAVE a = bg
  <2>1. BgCall /\ SameCall(bg) /\ Phase(bg)' = Phase(bg)
    BY <1>2
  <2>2. Finding(bg)' => Phase(bg) \in {"collect", "merge", "verified", "finished"} /\ files_to_delete = {}
    BY <1>2 DEF BgCall, MergePhases, FlushPhases
  <2>3. QED  BY <1>1, <2>1, <2>2 DEF BgCall, SameCall
<1>5. CallOf(a)'
  BY <1>1, <1>2 DEF CallOf, Searching
<1>6. Scope(a)' = Scope(a)
  BY <1>1 DEF Scope, FilesOf, SameCall, current_
<1>7. InScope(a)'
  BY <1>1, <1>2, <1>6 DEF InScope
<1>8. Phase(bg)' = Phase(bg)
  BY ActorsFinite DEF Only, Phase, Finding
<1>9. \A h \in Handles : cache_'.refs[h] > 0 => Key(h) \in Kept
  BY ScopeKept DEF Inv, FilesInv
<1>10. Phase(bg) \in {"build", "verify"} => Unseen(flush.output)'
  BY <1>1, ScopeKept DEF Inv, FilesInv, Unseen
<1>11. Phase(bg) = "verified" /\ HandleOf(bg, flush.output)' = {} => Unseen(flush.output)'
  <2> HAVE Phase(bg) = "verified" /\ HandleOf(bg, flush.output)' = {}
  <2>1. \A h \in actor'[bg].handles : Key(h) # flush.output
    BY <1>1 DEF HandleOf
  <2>2. CASE a = bg
    <3>1. actor'[bg].handles = actor[bg].handles /\ NothingNew
      BY <2>1, <2>2
    <3>2. HandleOf(bg, flush.output) = {}
      BY <2>1, <3>1 DEF HandleOf
    <3>3. Unseen(flush.output)
      BY <3>2 DEF Inv, FilesInv
    <3>4. QED  BY <1>1, <3>1, <3>3 DEF Unseen, NothingNew
  <2>3. CASE a # bg
    <3>1. actor'[bg] = actor[bg]
      BY <2>3, ActorsFinite DEF Only
    <3>2. HandleOf(bg, flush.output) = {}
      BY <2>1, <3>1 DEF HandleOf
    <3>3. Unseen(flush.output)
      BY <3>2 DEF Inv, FilesInv
    <3>4. \A h \in Handles : Key(h) \in Scope(a) => Key(h) # flush.output
      BY <2>3, ScopeKept
    <3>5. QED  BY <1>1, <3>3, <3>4 DEF Unseen
  <2>4. QED  BY <2>2, <2>3
<1>12. FilesInv'
  <2>1. UNCHANGED <<disk, dbVars>>
    OBVIOUS
  <2>2. QED  BY <2>1, <1>8, <1>9, <1>10, <1>11, FilesQuiet
<1>13. QED  BY <1>3, <1>4, <1>5, <1>7, <1>12, QuietStep

LEMMA LookupMoves ==
  ASSUME Inv, NEW a \in Actors, NEW f \in Files, NEW back \in PCs \ {"open", "table"},
         ~Finding(a), Lookup(a, f, back)
  PROVE  /\ Only(a) /\ SameCall(a) /\ UNCHANGED <<mutex_, disk, dbVars>>
         /\ Phase(a)' = back /\ Searching(a)' /\ actor'[a].todo = actor[a].todo \ {f}
         /\ actor'[a].file \in {0, f} /\ (Finding(a)' => actor'[a].file = f)
         /\ \A h \in actor'[a].handles : h \in actor[a].handles \/ Key(h) = f
         /\ CacheInv' /\ LimitsInv' /\ NothingNew
         /\ opened' \in [Handles -> Hows] /\ mmap_allowed' \in Int /\ fd_allowed' \in Int
         /\ cache_.table[f] = None => Finding(a)' /\ actor'[a].handles = actor[a].handles
<1>1. /\ CacheInv /\ LimitsInv /\ opened \in [Handles -> Hows] /\ mmap_allowed \in Int
      /\ fd_allowed \in Int /\ actor \in [Actors -> ActorState]
  BY DEF Inv, Typed
<1>2. CallOf(a) /\ HandleOf(a, f) = {} /\ UNCHANGED <<mutex_, disk, dbVars>>
  BY DEF Inv, CallsInv, Lookup
<1>3. actor[a].file = 0 /\ actor[a].how = "none"
  BY <1>2 DEF CallOf, Finding
<1>4. \A h \in actor[a].handles : Key(h) # f
  BY <1>2 DEF HandleOf
<1>5. 0 \notin Files /\ "open" \in PCs
  BY ReadersAssumption DEF Files, PCs
<1> DEFINE g == cache_.table[f]
<1>6. CASE /\ g # None
           /\ actor' = [actor EXCEPT ![a].pc = back, ![a].todo = @ \ {f}, ![a].handles = @ \cup {g}]
           /\ CacheStep(Ref(cache_, g))
  <2>1. g \in Handles /\ Key(g) = f
    BY <1>6, CachedLive
  <2>2. /\ Only(a) /\ SameCall(a) /\ SameSearch(a) /\ actor'[a].pc = back
        /\ actor'[a].todo = actor[a].todo \ {f} /\ actor'[a].handles = actor[a].handles \cup {g}
    BY <1>1, <1>6, <2>1, HitIs
  <2>3. \A b \in Actors \ {a} : actor'[b] = actor[b]
    BY <2>2 DEF Only
  <2>4. /\ CacheInv' /\ LimitsInv' /\ NothingNew
        /\ opened' \in [Handles -> Hows] /\ mmap_allowed' \in Int /\ fd_allowed' \in Int
    BY <1>1, <1>2, <1>6, <2>2, <2>3, HitTables DEF SameSearch
  <2>5. Phase(a)' = back /\ ~Finding(a)'
    BY <2>2 DEF Phase, Finding
  <2>6. actor'[a].file = 0 /\ actor'[a].how = "none"
    BY <1>3, <2>2 DEF SameSearch
  <2>7. \A x, y \in actor'[a].handles : Key(x) = Key(y) => x = y
    BY <1>2, <1>4, <2>1, <2>2 DEF CallOf
  <2>8. \A x \in actor'[a].handles : Key(x) # 0
    BY <1>2, <1>3, <1>5, <2>1, <2>2 DEF CallOf
  <2>9. Searching(a)'
    BY <2>2, <2>5, <2>6, <2>7, <2>8 DEF Searching
  <2>10. QED  BY <1>2, <1>6, <2>1, <2>2, <2>4, <2>5, <2>6, <2>9
<1>7. CASE /\ g = None
           /\ actor' = [actor EXCEPT ![a].pc = "open", ![a].todo = @ \ {f}, ![a].file = f, ![a].back = back]
           /\ UNCHANGED fileVars
  <2>1. /\ Only(a) /\ SameCall(a) /\ actor'[a].pc = "open"
        /\ actor'[a].file = f /\ actor'[a].how = actor[a].how
        /\ actor'[a].back = back /\ actor'[a].todo = actor[a].todo \ {f}
        /\ actor'[a].handles = actor[a].handles
    BY <1>1, <1>7, MissIs
  <2>2. StaysTables
    BY <1>7, <2>1 DEF StaysTables, Only
  <2>3. CacheInv' /\ LimitsInv' /\ NothingNew
    BY <1>1, <2>2, TablesStay
  <2>4. opened' \in [Handles -> Hows] /\ mmap_allowed' \in Int /\ fd_allowed' \in Int
    BY <1>1, <1>7 DEF fileVars
  <2>5. Phase(a)' = back /\ Finding(a)'
    BY <2>1 DEF Phase, Finding
  <2>6. Searching(a)'
    BY <1>2, <1>3, <1>4, <1>5, <2>1, <2>5 DEF Searching, CallOf
  <2>7. QED  BY <1>2, <2>1, <2>3, <2>4, <2>5, <2>6
<1>8. QED  BY <1>6, <1>7 DEF Lookup

(***************************************************************************)
(* FindTable and Release, whoever calls them.                              *)
(***************************************************************************)
LEMMA LimitersMove ==
  ASSUME LimitsInv, NEW a \in Actors, \A b \in Actors \ {a} : actor'[b] = actor[b],
         cache_' = cache_, opened' = opened, mmap_allowed \in Int, fd_allowed \in Int,
         mmap_allowed' = mmap_allowed + One(actor[a].how = "mmap") - One(actor'[a].how = "mmap"),
         fd_allowed' = fd_allowed + One(actor[a].how = "fd") - One(actor'[a].how = "fd"),
         mmap_allowed' >= 0, fd_allowed' >= 0
  PROVE  LimitsInv'
<1> DEFINE oM == Cardinality(Opened("mmap"))
           oF == Cardinality(Opened("fd"))
           gM == Cardinality(Opening("mmap"))
           gF == Cardinality(Opening("fd"))
           m0 == One(actor[a].how = "mmap")
           m1 == One(actor'[a].how = "mmap")
           f0 == One(actor[a].how = "fd")
           f1 == One(actor'[a].how = "fd")
<1>1. oM' = oM /\ oF' = oF
  BY DEF Opened
<1>2. /\ gM \in Nat /\ gM' \in Nat
      /\ gM' = gM + m1 - m0
      /\ gF \in Nat /\ gF' \in Nat
      /\ gF' = gF + f1 - f0
  BY OpeningMoves
<1>3. oM \in Nat /\ oF \in Nat
  BY HandlesFinite DEF Opened
<1>4. mmap_allowed + (oM + gM) = MmapLimit /\ fd_allowed + (oF + gF) = FdLimit
  BY DEF LimitsInv
<1>5. /\ m0 \in Int /\ m1 \in Int /\ f0 \in Int /\ f1 \in Int
      /\ mmap_allowed' = mmap_allowed + m0 - m1 /\ fd_allowed' = fd_allowed + f0 - f1
  BY DEF One
<1>6. MmapLimit \in Nat /\ FdLimit \in Nat
  BY ReadersAssumption
<1> HIDE DEF oM, oF, gM, gF, m0, m1, f0, f1
<1>7. mmap_allowed' + (oM' + gM') = MmapLimit /\ fd_allowed' + (oF' + gF') = FdLimit
  BY <1>1, <1>2, <1>3, <1>4, <1>5, <1>6
<1>8. \A h \in Handles : opened'[h] # "none" => cache_'.refs[h] > 0
  BY DEF LimitsInv
<1>9. QED  BY <1>7, <1>8 DEF LimitsInv, oM, oF, gM, gF

LEMMA FindingFacts ==
  ASSUME Inv, NEW a \in Actors, Finding(a)
  PROVE  /\ Phase(a) = actor[a].back /\ actor[a].back \notin {"open", "table"}
         /\ Phase(a) \in {"collect", "read", "merge", "verified", "finished"}
         /\ a = bg => files_to_delete = {}
         /\ actor[a].file \in Scope(a) /\ actor[a].file \in Files /\ Searching(a)
         /\ Phase(a) = "verified" => a = bg /\ actor[a].file = flush.output
<1>1. CallOf(a) /\ InScope(a) /\ BgCall /\ (a # bg => ClientCall(a))
  BY DEF Inv, CallsInv, ScopeInv, Actors
<1>2. Phase(a) = actor[a].back
  BY DEF Phase
<1>3. Phase(a) \in {"collect", "read", "merge", "verified", "finished"} /\ (a = bg => files_to_delete = {})
  BY <1>1 DEF ClientCall, BgCall
<1>4. actor[a].file \in Scope(a)
  BY <1>1 DEF InScope, CallOf
<1>5. actor[a].file \in Files
  BY <1>4, ScopeKept
<1>6. Phase(a) = "verified" => a = bg /\ actor[a].file = flush.output
  BY <1>1 DEF ClientCall, InScope
<1>7. QED  BY <1>1, <1>2, <1>3, <1>4, <1>5, <1>6 DEF Searching, CallOf

LEMMA OpenFileStep ==
  ASSUME Inv, NEW a \in Actors, OpenFile(a)
  PROVE  Inv'
<1> DEFINE how == IF mmap_allowed > 0 THEN "mmap" ELSE IF fd_allowed > 0 THEN "fd" ELSE "reopen"
<1>1. /\ actor[a].pc = "open" /\ actor' = [actor EXCEPT ![a].pc = "table", ![a].how = how]
      /\ mmap_allowed' = mmap_allowed - (IF how = "mmap" THEN 1 ELSE 0)
      /\ fd_allowed' = fd_allowed - (IF how = "fd" THEN 1 ELSE 0)
      /\ UNCHANGED <<mutex_, disk, dbVars>> /\ cache_' = cache_ /\ opened' = opened
  BY DEF OpenFile, At
<1>2. /\ actor \in [Actors -> ActorState] /\ mmap_allowed \in Int /\ fd_allowed \in Int
      /\ LimitsInv /\ CacheInv /\ opened \in [Handles -> Hows]
  BY DEF Inv, Typed
<1>3. how \in {"mmap", "fd", "reopen"} /\ (how = "mmap" => mmap_allowed > 0) /\ (how = "fd" => fd_allowed > 0)
  OBVIOUS
<1> HIDE DEF how
<1>4. how \in Hows
  BY <1>3 DEF Hows
<1>5. /\ Only(a) /\ SameCall(a) /\ actor'[a].pc = "table"
      /\ actor'[a].file = actor[a].file /\ actor'[a].how = how
      /\ actor'[a].back = actor[a].back /\ actor'[a].todo = actor[a].todo
      /\ actor'[a].handles = actor[a].handles
  BY <1>1, <1>2, <1>4, OpenIs
<1>6. Finding(a) /\ Finding(a)' /\ Phase(a)' = Phase(a)
  BY <1>1, <1>5 DEF Finding, Phase
<1>7. /\ Phase(a) \in {"collect", "read", "merge", "verified", "finished"}
      /\ a = bg => files_to_delete = {}
      /\ actor[a].file \in Scope(a) /\ Searching(a)
  BY <1>6, FindingFacts
<1>8. Searching(a)'
  BY <1>3, <1>5, <1>6, <1>7 DEF Searching
<1>9. \A b \in Actors \ {a} : actor'[b] = actor[b]
  BY <1>5 DEF Only
<1>10. CacheInv'
  <2>1. Held' = Held
    BY <1>5, <1>9, HeldStays
  <2>2. QED  BY <1>1, <1>2, <2>1 DEF CacheInv
<1>11. LimitsInv' /\ mmap_allowed' \in Int /\ fd_allowed' \in Int
  <2>1. actor[a].how = "none"
    BY <1>1, <1>7 DEF Searching
  <2>2. /\ mmap_allowed' = mmap_allowed + One(actor[a].how = "mmap") - One(actor'[a].how = "mmap")
        /\ fd_allowed' = fd_allowed + One(actor[a].how = "fd") - One(actor'[a].how = "fd")
    BY <1>1, <1>2, <1>5, <2>1 DEF One
  <2>3. mmap_allowed >= 0 /\ fd_allowed >= 0
    BY <1>2 DEF LimitsInv
  <2>4. /\ mmap_allowed' >= 0 /\ fd_allowed' >= 0 /\ mmap_allowed' \in Int /\ fd_allowed' \in Int
    BY <1>1, <1>2, <1>3, <2>3
  <2>5. QED  BY <1>1, <1>2, <1>9, <2>2, <2>4, LimitersMove
<1>12. \A h \in actor'[a].handles : Key(h) \in Scope(a)
  BY <1>5, HandlesLive
<1>13. opened' \in [Handles -> Hows] /\ NothingNew
  BY <1>1, <1>2 DEF NothingNew
<1>14. QED
  BY <1>1, <1>5, <1>6, <1>7, <1>8, <1>10, <1>11, <1>12, <1>13, SearchStep DEF NothingNew

LEMMA OpenFailsStep ==
  ASSUME Inv, NEW a \in Actors, OpenFails(a)
  PROVE  Inv'
<1>1. /\ Finding(a) /\ Return(a, {})
      /\ mmap_allowed' = mmap_allowed + (IF actor[a].how = "mmap" THEN 1 ELSE 0)
      /\ fd_allowed' = fd_allowed + (IF actor[a].how = "fd" THEN 1 ELSE 0)
      /\ UNCHANGED <<mutex_, disk, dbVars>> /\ cache_' = cache_ /\ opened' = opened
  BY DEF OpenFails, At, Finding
<1>2. /\ actor \in [Actors -> ActorState] /\ mmap_allowed \in Int /\ fd_allowed \in Int
      /\ LimitsInv /\ CacheInv /\ opened \in [Handles -> Hows]
  BY DEF Inv, Typed
<1>3. /\ Only(a) /\ SameCall(a) /\ actor'[a].pc = actor[a].back /\ actor'[a].back = "idle"
      /\ actor'[a].file = 0 /\ actor'[a].how = "none" /\ actor'[a].todo = actor[a].todo
      /\ actor'[a].handles = actor[a].handles \cup {}
  BY <1>1, <1>2, ReturnIs
<1>4. actor'[a].handles = actor[a].handles
  BY <1>3
<1>5. /\ Phase(a) = actor[a].back /\ actor[a].back \notin {"open", "table"} /\ Searching(a)
  BY <1>1, FindingFacts
<1>6. Phase(a)' = Phase(a) /\ ~Finding(a)'
  BY <1>3, <1>5 DEF Phase, Finding
<1>7. \A h \in actor'[a].handles : Key(h) \in Scope(a) /\ Key(h) # 0
  <2>1. 0 \notin Files
    BY ReadersAssumption DEF Files
  <2>2. QED  BY <1>4, <2>1, HandlesLive, ScopeKept
<1>8. Searching(a)'
  BY <1>3, <1>4, <1>5, <1>6, <1>7 DEF Searching, Finding
<1>9. \A b \in Actors \ {a} : actor'[b] = actor[b]
  BY <1>3 DEF Only
<1>10. CacheInv'
  <2>1. Held' = Held
    BY <1>4, <1>9, HeldStays
  <2>2. QED  BY <1>1, <1>2, <2>1 DEF CacheInv
<1>11. LimitsInv' /\ mmap_allowed' \in Int /\ fd_allowed' \in Int
  <2>1. /\ mmap_allowed' = mmap_allowed + One(actor[a].how = "mmap") - One(actor'[a].how = "mmap")
        /\ fd_allowed' = fd_allowed + One(actor[a].how = "fd") - One(actor'[a].how = "fd")
    BY <1>1, <1>2, <1>3 DEF One
  <2>2. mmap_allowed >= 0 /\ fd_allowed >= 0
    BY <1>2 DEF LimitsInv
  <2>3. /\ mmap_allowed' >= 0 /\ fd_allowed' >= 0 /\ mmap_allowed' \in Int /\ fd_allowed' \in Int
    BY <1>1, <1>2, <2>2
  <2>4. QED  BY <1>1, <1>2, <1>9, <2>1, <2>3, LimitersMove
<1>12. opened' \in [Handles -> Hows] /\ NothingNew
  BY <1>1, <1>2 DEF NothingNew
<1>13. QED
  BY <1>1, <1>3, <1>4, <1>6, <1>7, <1>8, <1>10, <1>11, <1>12, SearchStep DEF NothingNew

LEMMA InsertTableStep ==
  ASSUME Inv, NEW a \in Actors, InsertTable(a)
  PROVE  Inv'
<1> DEFINE f == actor[a].file
           h == NewHandle(cache_, f)
           c == Insert(cache_, f, 1)
<1>1. /\ actor[a].pc = "table" /\ Finding(a) /\ CanInsert(cache_, f) /\ Return(a, {h})
      /\ CacheIs(c) /\ CloseAll(c)
      /\ opened' = [e \in Handles |-> IF e = h THEN actor[a].how
                                      ELSE IF e \in c.dead THEN "none" ELSE opened[e]]
      /\ UNCHANGED <<mutex_, disk, dbVars>>
  BY DEF InsertTable, At, Finding
<1>2. /\ actor \in [Actors -> ActorState] /\ mmap_allowed \in Int /\ fd_allowed \in Int
      /\ LimitsInv /\ CacheInv /\ opened \in [Handles -> Hows]
  BY DEF Inv, Typed
<1>3. /\ Phase(a) = actor[a].back /\ actor[a].back \notin {"open", "table"}
      /\ f \in Scope(a) /\ f \in Files /\ Searching(a) /\ (Phase(a) = "verified" => f = flush.output)
  BY <1>1, FindingFacts
<1>4. h \in Handles /\ Key(h) = f
  BY <1>1, <1>3, NewHandleIsFree, ReadersAssumption
<1>5. /\ Only(a) /\ SameCall(a) /\ actor'[a].pc = actor[a].back /\ actor'[a].back = "idle"
      /\ actor'[a].file = 0 /\ actor'[a].how = "none" /\ actor'[a].todo = actor[a].todo
      /\ actor'[a].handles = actor[a].handles \cup {h}
  BY <1>1, <1>2, <1>4, ReturnIs
<1>6. actor[a].how \in Hows \ {"none"}
  BY <1>1, <1>2, <1>3, ActorFields DEF Searching
<1>7. \A b \in Actors \ {a} : actor'[b] = actor[b]
  BY <1>5 DEF Only
<1>8. /\ CacheInv' /\ LimitsInv' /\ h \notin actor[a].handles
      /\ \A e \in Handles : cache_'.refs[e] > 0 => cache_.refs[e] > 0 \/ Key(e) = f
      /\ opened' \in [Handles -> Hows] /\ mmap_allowed' \in Int /\ fd_allowed' \in Int
  BY <1>1, <1>2, <1>3, <1>5, <1>6, <1>7, InsertTables
<1> HIDE DEF h, c
<1>9. Phase(a)' = Phase(a) /\ ~Finding(a)'
  BY <1>3, <1>5 DEF Phase, Finding
<1>10. \A e \in actor'[a].handles : Key(e) \in Scope(a) /\ Key(e) # 0
  <2>1. 0 \notin Files
    BY ReadersAssumption DEF Files
  <2>2. QED  BY <1>3, <1>4, <1>5, <2>1, HandlesLive, ScopeKept
<1>11. Searching(a)'
  <2>1. \A x, y \in actor'[a].handles : Key(x) = Key(y) => x = y
    BY <1>3, <1>4, <1>5 DEF Searching
  <2>2. QED  BY <1>3, <1>5, <1>9, <1>10, <2>1 DEF Searching, Finding
<1>12. a = bg /\ Phase(bg) = "verified" => \E e \in actor'[bg].handles : Key(e) = flush.output
  BY <1>3, <1>4, <1>5
<1>13. QED
  BY <1>1, <1>3, <1>5, <1>8, <1>9, <1>10, <1>11, <1>12, SearchStep

LEMMA FindTableSteps ==
  ASSUME Inv, NEW a \in Actors, FindTableStep(a)
  PROVE  Inv'
BY OpenFileStep, InsertTableStep, OpenFailsStep DEF FindTableStep

LEMMA ReleaseStep ==
  ASSUME Inv, NEW a \in Actors, NEW h, ReleaseTable(a, h), Phase(a) # "verified"
  PROVE  Inv'
<1>1. /\ h \in actor[a].handles /\ actor' = [actor EXCEPT ![a].handles = @ \ {h}]
      /\ CacheStep(Unref(cache_, h)) /\ UNCHANGED <<mutex_, disk, dbVars>>
  BY DEF ReleaseTable
<1>2. /\ actor \in [Actors -> ActorState] /\ mmap_allowed \in Int /\ fd_allowed \in Int
      /\ LimitsInv /\ CacheInv /\ opened \in [Handles -> Hows]
  BY DEF Inv, Typed
<1>3. /\ Only(a) /\ SameCall(a) /\ SameSearch(a)
      /\ actor'[a].pc = actor[a].pc /\ actor'[a].todo = actor[a].todo
      /\ actor'[a].handles = actor[a].handles \ {h}
  BY <1>1, <1>2, ReleaseIs
<1>4. \A b \in Actors \ {a} : actor'[b] = actor[b]
  BY <1>3 DEF Only
<1>5. /\ CacheInv' /\ LimitsInv' /\ NothingNew
      /\ opened' \in [Handles -> Hows] /\ mmap_allowed' \in Int /\ fd_allowed' \in Int
  BY <1>1, <1>2, <1>3, <1>4, HandlesLive, ReleaseTables DEF SameSearch
<1>6. Phase(a)' = Phase(a) /\ Finding(a)' = Finding(a)
  BY <1>3 DEF Phase, Finding, SameSearch
<1>7. /\ Finding(a) => /\ Phase(a) \in {"collect", "read", "merge", "verified", "finished"}
                       /\ a = bg => files_to_delete = {}
  BY FindingFacts
<1>8. CallOf(a) /\ actor[a].file \in Scope(a) \cup {0}
  BY DEF Inv, CallsInv, ScopeInv, InScope
<1>9. Searching(a)'
  BY <1>3, <1>6, <1>8 DEF Searching, CallOf, SameSearch
<1>10. \A e \in actor'[a].handles : Key(e) \in Scope(a)
  BY <1>3, HandlesLive
<1>11. QED
  BY <1>1, <1>3, <1>5, <1>6, <1>7, <1>8, <1>9, <1>10, SearchStep DEF NothingNew, SameSearch

LEMMA LookupStep ==
  ASSUME Inv, NEW a \in Actors, NEW f \in Scope(a), ~Finding(a), Lookup(a, f, Phase(a)),
         Phase(a) \in {"collect", "read", "merge"}, a = bg => files_to_delete = {}
  PROVE  Inv'
<1>1. f \in Files
  BY ScopeKept
<1>2. Phase(a) \in PCs \ {"open", "table"}
  BY DEF PCs
<1>3. /\ Only(a) /\ SameCall(a) /\ UNCHANGED <<mutex_, disk, dbVars>>
      /\ Phase(a)' = Phase(a) /\ Searching(a)' /\ actor'[a].todo = actor[a].todo \ {f}
      /\ actor'[a].file \in {0, f} /\ (Finding(a)' => actor'[a].file = f)
      /\ \A h \in actor'[a].handles : h \in actor[a].handles \/ Key(h) = f
      /\ CacheInv' /\ LimitsInv' /\ NothingNew
      /\ opened' \in [Handles -> Hows] /\ mmap_allowed' \in Int /\ fd_allowed' \in Int
  BY <1>1, <1>2, LookupMoves
<1>4. \A h \in actor'[a].handles : Key(h) \in Scope(a)
  BY <1>3, HandlesLive
<1>5. QED
  BY <1>3, <1>4, SearchStep DEF NothingNew

(***************************************************************************)
(* Clients: what they do with tables.                                      *)
(***************************************************************************)
LEMMA CollectTableStep ==
  ASSUME Inv, NEW a \in Clients, CollectTable(a)
  PROVE  Inv'
<1>1. a \in Actors /\ a # bg
  BY ActorsFinite DEF Actors
<1>2. PICK f \in First(actor[a].todo) : Lookup(a, f, "collect")
  BY DEF CollectTable
<1>3. Phase(a) = "collect" /\ ~Finding(a)
  BY DEF CollectTable, At, Phase, Finding
<1>4. f \in Scope(a)
  BY <1>1, <1>2 DEF First, Inv, ScopeInv, InScope
<1>5. QED  BY <1>1, <1>2, <1>3, <1>4, LookupStep

LEMMA ReadTableStep ==
  ASSUME Inv, NEW a \in Clients, ReadTable(a)
  PROVE  Inv'
<1>1. a \in Actors /\ a # bg
  BY ActorsFinite DEF Actors
<1>2. Phase(a) = "read" /\ ~Finding(a)
  BY DEF ReadTable, At, Phase, Finding
<1>3. Scope(a) = FilesOf(actor[a].version)
  BY <1>1, <1>2 DEF Scope
<1>4. PICK f \in FilesOf(actor[a].version) : Lookup(a, f, "read")
  BY DEF ReadTable, FilesOf
<1>5. QED  BY <1>1, <1>2, <1>3, <1>4, LookupStep

LEMMA ClientReleases ==
  ASSUME Inv, NEW a \in Clients, DoneWithTable(a) \/ ReleaseChild(a)
  PROVE  Inv'
<1>1. a \in Actors
  BY DEF Actors
<1>2. Phase(a) # "verified" /\ \E h : ReleaseTable(a, h)
  BY DEF DoneWithTable, ReleaseChild, ReleaseNext, At, Phase, Finding
<1>3. QED  BY <1>1, <1>2, ReleaseStep

LEMMA DeleteIteratorStep ==
  ASSUME Inv, NEW a \in Clients, DeleteIterator(a)
  PROVE  Inv'
<1>1. a \in Actors /\ a # bg /\ "end" \in PCs
  BY ActorsFinite DEF Actors, PCs
<1>2. /\ actor[a].pc = "read" /\ Goto(a, "end") /\ UNCHANGED <<mutex_, disk, dbVars, fileVars>>
      /\ Phase(a) = "read" /\ ~Finding(a)
  BY DEF DeleteIterator, At, Phase, Finding
<1>3. /\ CacheInv /\ LimitsInv /\ FilesInv /\ ClientCall(a) /\ CallOf(a) /\ InScope(a)
      /\ actor \in [Actors -> ActorState]
      /\ opened \in [Handles -> Hows] /\ mmap_allowed \in Int /\ fd_allowed \in Int
  BY <1>1 DEF Inv, Typed, CallsInv, ScopeInv
<1>4. /\ Only(a) /\ SameCall(a) /\ SameSearch(a) /\ actor'[a].pc = "end"
      /\ actor'[a].todo = actor[a].todo /\ actor'[a].handles = actor[a].handles
  BY <1>1, <1>2, <1>3, GotoIs
<1>5. \A b \in Actors \ {a} : actor'[b] = actor[b]
  BY <1>4 DEF Only
<1>6. StaysTables
  BY <1>2, <1>4, <1>5 DEF StaysTables, SameSearch
<1>7. /\ CacheInv' /\ LimitsInv' /\ NothingNew
      /\ opened' \in [Handles -> Hows] /\ mmap_allowed' \in Int /\ fd_allowed' \in Int
  <2>1. opened' = opened /\ mmap_allowed' = mmap_allowed /\ fd_allowed' = fd_allowed
    BY <1>2 DEF fileVars
  <2>2. QED  BY <1>3, <1>6, <2>1, TablesStay
<1>8. Phase(a)' = "end" /\ ~Finding(a)'
  BY <1>4 DEF Phase, Finding
<1>9. versions' = versions /\ memtables' = memtables /\ mutex_' = mutex_ /\ flush' = flush /\ compact' = compact
  BY <1>2 DEF dbVars, workVars
<1>10. ClientCall(a)' /\ CallOf(a)'
  <2>1. ClientCall(a)'
    BY <1>2, <1>3, <1>4, <1>8, <1>9 DEF ClientCall, SameCall
  <2>2. CallOf(a)'
    BY <1>2, <1>3, <1>4, <1>8, <1>9 DEF CallOf, SameSearch
  <2>3. QED  BY <2>1, <2>2
<1>11. InScope(a)'
  <2>1. Scope(a)' = Scope(a)
    BY <1>1, <1>2, <1>4, <1>8, <1>9 DEF Scope, SameCall, FilesOf
  <2>2. QED  BY <1>3, <1>4, <1>8, <2>1 DEF InScope, SameSearch
<1>12. FilesInv'
  <2>1. Phase(bg)' = Phase(bg) /\ actor'[bg] = actor[bg]
    BY <1>1, <1>5, ActorsFinite DEF Phase, Finding
  <2>2. HandleOf(bg, flush.output)' = HandleOf(bg, flush.output)
    BY <1>9, <2>1 DEF HandleOf
  <2>4. Unseen(flush.output) => Unseen(flush.output)'
    BY <1>7, <1>9 DEF Unseen, NothingNew
  <2>5. \A h \in Handles : cache_'.refs[h] > 0 => Key(h) \in Kept
    BY <1>3, <1>7 DEF FilesInv, NothingNew
  <2>6. UNCHANGED <<disk, dbVars>>
    BY <1>2
  <2>7. QED  BY <1>3, <2>1, <2>2, <2>4, <2>5, <2>6, FilesQuiet DEF FilesInv
<1>13. UNCHANGED <<mutex_, disk, dbVars>>
  BY <1>2
<1>14. QED  BY <1>1, <1>4, <1>7, <1>10, <1>11, <1>12, <1>13, QuietStep

(***************************************************************************)
(* References taken and dropped.                                           *)
(***************************************************************************)
\* No version is made, and one that lives keeps its files.
Shrinks ==
  /\ versions' \in Seq(VersionState) /\ Len(versions') = Len(versions)
  /\ \A v \in 1..Len(versions) :
       /\ versions'[v].level0 \subseteq versions[v].level0
       /\ versions'[v].level1 \subseteq versions[v].level1
       /\ versions'[v].refs > 0 =>
            /\ versions[v].refs > 0
            /\ versions'[v].level0 = versions[v].level0 /\ versions'[v].level1 = versions[v].level1

LEMMA RefShrinks ==
  ASSUME versions \in Seq(VersionState), NEW v \in 1..Len(versions), versions[v].refs > 0,
         versions' = RefVersion(versions, v)
  PROVE  Shrinks
<1>1. /\ versions' \in Seq(VersionState) /\ Len(versions') = Len(versions)
      /\ \A w \in 1..Len(versions) : /\ versions'[w].refs = versions[w].refs + One(w = v)
                                     /\ versions'[w].level0 = versions[w].level0
                                     /\ versions'[w].level1 = versions[w].level1
  BY RefVersionIs
<1>2. \A w \in 1..Len(versions) : w # v => versions'[w].refs = versions[w].refs
  <2> SUFFICES ASSUME NEW w \in 1..Len(versions), w # v PROVE versions'[w].refs = versions[w].refs
    OBVIOUS
  <2>1. versions[w].refs \in Int
    <3>1. versions[w] \in VersionState
      OBVIOUS
    <3>2. QED  BY <3>1 DEF VersionState
  <2>2. versions'[w].refs = versions[w].refs + 0
    BY <1>1 DEF One
  <2>3. QED  BY <2>1, <2>2
<1>3. \A w \in 1..Len(versions) : versions'[w].refs > 0 => versions[w].refs > 0
  BY <1>2
<1>4. QED  BY <1>1, <1>3 DEF Shrinks

LEMMA UnrefShrinks ==
  ASSUME versions \in Seq(VersionState), NEW v \in 1..Len(versions),
         versions' = UnrefVersion(versions, v)
  PROVE  Shrinks
<1>1. /\ versions' \in Seq(VersionState) /\ Len(versions') = Len(versions)
      /\ \A w \in 1..Len(versions) :
           /\ versions'[w].refs = versions[w].refs - One(w = v)
           /\ versions'[w].level0 \subseteq versions[w].level0
           /\ versions'[w].level1 \subseteq versions[w].level1
           /\ versions'[w].refs # 0 \/ w # v =>
                versions'[w].level0 = versions[w].level0 /\ versions'[w].level1 = versions[w].level1
  BY UnrefVersionIs
<1>2. \A w \in 1..Len(versions) : versions'[w].refs > 0 => versions[w].refs > 0
  <2> SUFFICES ASSUME NEW w \in 1..Len(versions), versions'[w].refs > 0 PROVE versions[w].refs > 0
    OBVIOUS
  <2> DEFINE o == One(w = v)
             r == versions[w].refs
  <2>1. r \in Int /\ o \in {0, 1}
    <3>1. versions[w] \in VersionState
      OBVIOUS
    <3>2. QED  BY <3>1 DEF VersionState, One
  <2>2. r - o > 0
    BY <1>1
  <2> HIDE DEF o, r
  <2>3. r > 0
    BY <2>1, <2>2
  <2>4. QED  BY <2>3 DEF r
<1>3. QED  BY <1>1, <1>2 DEF Shrinks

LEMMA ShrinksLasts ==
  ASSUME Shrinks
  PROVE  Lasting
BY DEF Shrinks, Lasting

\* What VersionRefs' says of those who have a reference in the next state.
LEMMA LiveNext ==
  ASSUME VersionRefs', NEW v \in 1..Len(versions'),
         \/ \E b \in Clients : actor'[b].version = v
         \/ v = current_' \/ flush'.base = v \/ compact'.version = v
  PROVE  versions'[v].refs > 0
<1> DEFINE R == {b \in Clients : actor'[b].version = v}
           n == Cardinality(R)
           o1 == One(v = current_')
           o2 == One(flush'.base = v)
           o3 == One(compact'.version = v)
           r == versions'[v].refs
<1>1. r = n + o1 + o2 + o3
  BY DEF VersionRefs, Readings
<1>2. n \in Nat /\ (R # {} => n # 0)
  <2>1. R \subseteq Actors
    BY DEF Actors
  <2>2. IsFiniteSet(R)
    BY <2>1, ActorsFinite
  <2>3. QED  BY <2>2, FS_CardinalityType, FS_EmptySet
<1>3. o1 \in {0, 1} /\ o2 \in {0, 1} /\ o3 \in {0, 1}
  BY DEF One
<1>4. R # {} \/ o1 = 1 \/ o2 = 1 \/ o3 = 1
  BY DEF One
<1> HIDE DEF R, n, o1, o2, o3, r
<1>5. r > 0
  BY <1>1, <1>2, <1>3, <1>4
<1>6. QED  BY <1>5 DEF r

LEMMA VersionRefsMove ==
  ASSUME VersionRefs, NEW a \in Clients, \A b \in Actors \ {a} : actor'[b] = actor[b],
         Len(versions') = Len(versions), flush'.base = flush.base, compact'.version = compact.version,
         \A v \in 1..Len(versions) : versions[v].refs \in Int,
         \A v \in 1..Len(versions) :
           versions'[v].refs = versions[v].refs + One(actor'[a].version = v) - One(actor[a].version = v)
  PROVE  VersionRefs'
<1>1. current_' = current_
  BY DEF current_
<1> SUFFICES ASSUME NEW v \in 1..Len(versions)
             PROVE  versions'[v].refs = Cardinality(Readings(v))' + One(v = current_) + One(flush.base = v)
                                        + One(compact.version = v)
  BY <1>1 DEF VersionRefs
<1> DEFINE n == Cardinality(Readings(v))
           o1 == One(v = current_)
           o2 == One(flush.base = v)
           o3 == One(compact.version = v)
           r == versions[v].refs
           i == One(actor'[a].version = v)
           j == One(actor[a].version = v)
           m == Cardinality(Readings(v))'
           s == versions'[v].refs
<1>2. r = n + o1 + o2 + o3 /\ r \in Int
  BY DEF VersionRefs
<1>3. n \in Nat /\ m \in Nat /\ m = n + i - j
  BY ReadingsMove
<1>4. /\ o1 \in Int /\ o2 \in Int /\ o3 \in Int /\ i \in Int /\ j \in Int
  BY DEF One
<1>5. s = r + i - j
  OBVIOUS
<1> HIDE DEF n, m, o1, o2, o3, r, s, i, j
<1>6. s = m + o1 + o2 + o3
  BY <1>2, <1>3, <1>4, <1>5
<1>7. QED  BY <1>6 DEF m, o1, o2, o3, s

LEMMA MemRefsMove ==
  ASSUME MemRefs, NEW a \in Clients, \A b \in Actors \ {a} : actor'[b] = actor[b],
         Len(memtables') = Len(memtables), mem_' = mem_, imm_' = imm_,
         \A m \in 1..Len(memtables) : memtables[m] \in Int,
         \A m \in 1..Len(memtables) :
           memtables'[m] = memtables[m] + One(m \in {actor'[a].mem, actor'[a].imm})
                           - One(m \in {actor[a].mem, actor[a].imm})
  PROVE  MemRefs'
<1> SUFFICES ASSUME NEW m \in 1..Len(memtables)
             PROVE  memtables'[m] = Cardinality(Using(m))' + One(m \in {mem_, imm_})
  BY DEF MemRefs
<1> DEFINE n == Cardinality(Using(m))
           o == One(m \in {mem_, imm_})
           r == memtables[m]
           i == One(m \in {actor'[a].mem, actor'[a].imm})
           j == One(m \in {actor[a].mem, actor[a].imm})
<1>1. r = n + o /\ r \in Int
  BY DEF MemRefs
<1>2. n \in Nat /\ n' \in Nat /\ n' = n + i - j
  BY UsingMove
<1>3. o \in Int /\ i \in Int /\ j \in Int
  BY DEF One
<1>4. memtables'[m] = r + i - j
  OBVIOUS
<1> HIDE DEF n, o, r, i, j
<1>5. memtables'[m] = n' + o
  BY <1>1, <1>2, <1>3, <1>4
<1>6. QED  BY <1>5 DEF n, o

LEMMA FilesShrink ==
  ASSUME Inv, Shrinks, UNCHANGED <<disk, workVars>>, cache_' = cache_, actor'[bg] = actor[bg]
  PROVE  FilesInv'
<1>1. /\ disk' = disk /\ next_file_number_' = next_file_number_
      /\ pending_outputs_' = pending_outputs_ /\ flush' = flush
      /\ compact' = compact /\ files_to_delete' = files_to_delete
  BY DEF workVars
<1>2. FilesInv
  BY DEF Inv
<1>3. \A v \in 1..Len(versions) :
        /\ FilesOf(v)' \subseteq FilesOf(v)
        /\ versions'[v].refs > 0 => versions[v].refs > 0 /\ FilesOf(v)' = FilesOf(v)
  BY DEF Shrinks, FilesOf
<1>4. Len(versions') = Len(versions)
  BY DEF Shrinks
<1>5. Kept' = Kept /\ Phase(bg)' = Phase(bg)
  BY <1>1 DEF Kept, Phase, Finding
<1>6. Unseen(flush.output)' <=> Unseen(flush.output)
  BY <1>1 DEF Unseen
<1>7. HandleOf(bg, flush.output)' = HandleOf(bg, flush.output)
  BY <1>1 DEF HandleOf
<1>8. \A v \in 1..Len(versions') :
        /\ \A f \in FilesOf(v)' : f < next_file_number_ /\ f # flush.output /\ f \notin compact.outputs
        /\ versions'[v].refs > 0 => FilesOf(v)' \subseteq Kept
  BY <1>2, <1>3, <1>4 DEF FilesInv
<1>9. QED  BY <1>1, <1>2, <1>5, <1>6, <1>7, <1>8 DEF FilesInv

LEMMA ReferenceStep ==
  ASSUME Inv, NEW a \in Clients, Only(a), Shrinks,
         UNCHANGED <<disk, fileVars, mem_, imm_, workVars>>,
         Len(memtables') = Len(memtables), memtables' \in Seq(Int),
         \A v \in 1..Len(versions) :
           versions'[v].refs = versions[v].refs + One(actor'[a].version = v) - One(actor[a].version = v),
         \A m \in 1..Len(memtables) :
           memtables'[m] = memtables[m] + One(m \in {actor'[a].mem, actor'[a].imm})
                           - One(m \in {actor[a].mem, actor[a].imm}),
         actor'[a].handles = actor[a].handles, actor'[a].how = actor[a].how,
         mutex_' \in Actors \cup {"free"},
         \A b \in Actors \ {a} : mutex_' = b <=> mutex_ = b,
         ClientCall(a)', CallOf(a)', InScope(a)'
  PROVE  Inv'
<1>1. /\ disk' = disk /\ mem_' = mem_ /\ imm_' = imm_ /\ next_file_number_' = next_file_number_
      /\ pending_outputs_' = pending_outputs_ /\ bg_error_' = bg_error_ /\ flush' = flush
      /\ compact' = compact /\ files_to_delete' = files_to_delete
      /\ cache_' = cache_ /\ opened' = opened /\ mmap_allowed' = mmap_allowed /\ fd_allowed' = fd_allowed
  BY DEF workVars, fileVars
<1>2. Typed
  BY DEF Inv
<1>3. /\ actor' \in [Actors -> ActorState] /\ a \in Actors
      /\ \A b \in Actors \ {a} : actor'[b] = actor[b]
  BY DEF Only, Actors
<1>4. versions' \in Seq(VersionState) /\ versions' # <<>> /\ Len(versions') = Len(versions)
  BY <1>2 DEF Shrinks, Typed
<1>5. Typed'
  BY <1>1, <1>2, <1>3, <1>4 DEF Typed
<1>6. VersionRefs'
  <2>1. \A v \in 1..Len(versions) : versions[v] \in VersionState
    BY <1>2 DEF Typed
  <2>2. \A v \in 1..Len(versions) : versions[v].refs \in Int
    BY <2>1 DEF VersionState
  <2>3. VersionRefs
    BY DEF Inv
  <2>4. QED  BY <1>1, <1>3, <1>4, <2>2, <2>3, VersionRefsMove
<1>7. MemRefs'
  <2>1. \A m \in 1..Len(memtables) : memtables[m] \in Int
    BY <1>2 DEF Typed
  <2>2. MemRefs
    BY DEF Inv
  <2>3. QED  BY <1>1, <1>3, <2>1, <2>2, MemRefsMove
<1>8. CacheInv' /\ LimitsInv'
  <2>1. StaysTables
    BY <1>3 DEF StaysTables
  <2>2. QED  BY <2>1, TablesStay DEF Inv
<1>9. actor'[bg] = actor[bg] /\ a # bg
  BY <1>3, ActorsFinite
<1>10. FilesInv'
  BY <1>1, <1>9, FilesShrink
<1>11. Lasting
  BY ShrinksLasts
<1>12. current_' = current_ /\ current_ \in 1..Len(versions) /\ current_ \in 1..Len(versions')
  BY <1>4, Live DEF current_
<1>13. \A b \in Clients \ {a} : ClientCall(b)' /\ CallOf(b)' /\ InScope(b)'
  <2> SUFFICES ASSUME NEW b \in Clients \ {a} PROVE ClientCall(b)' /\ CallOf(b)' /\ InScope(b)'
    OBVIOUS
  <2>1. actor'[b] = actor[b] /\ (mutex_' = b <=> mutex_ = b)
    BY <1>3 DEF Actors
  <2>2. Phase(b) \in {"read", "end"} => versions'[actor[b].version].refs > 0
    BY <1>4, <1>6, <2>1, Live, LiveNext
  <2>3. Phase(b) = "collect" => versions'[current_].refs > 0
    BY <1>6, <1>12, LiveNext
  <2>4. /\ CallsInv /\ ScopeInv /\ versions \in Seq(VersionState) /\ versions # <<>>
        /\ memtables \in Seq(Int) /\ Len(memtables') >= Len(memtables)
    BY <1>2 DEF Inv, Typed
  <2>5. QED  BY <1>11, <2>1, <2>2, <2>3, <2>4, ClientStays
<1>14. BgCall' /\ CallOf(bg)' /\ InScope(bg)'
  <2>1. compact.version # 0 => versions'[compact.version].refs > 0
    BY <1>1, <1>4, <1>6, Live, LiveNext
  <2>2. mutex_' = bg <=> mutex_ = bg
    BY <1>9, ActorsFinite
  <2>3. CallsInv /\ ScopeInv /\ versions \in Seq(VersionState) /\ compact.version \in Nat
    BY <1>2 DEF Inv, Typed
  <2>4. QED  BY <1>1, <1>9, <1>11, <2>1, <2>2, <2>3, BgStays
<1>15. CallsInv'
  <2>1. \A b \in Clients : ClientCall(b)'
    BY <1>13
  <2>2. \A b \in Actors : CallOf(b)'
    BY <1>13, <1>14 DEF Actors
  <2>3. QED  BY <1>14, <2>1, <2>2 DEF CallsInv
<1>16. ScopeInv'
  BY <1>13, <1>14 DEF ScopeInv, Actors
<1>17. QED  BY <1>5, <1>6, <1>7, <1>8, <1>10, <1>15, <1>16 DEF Inv

LEMMA MemsHeld ==
  ASSUME NEW ms \in Seq(Int), NEW m \in 1..Len(ms), NEW i \in 0..Len(ms), m # i
  PROVE  LET r == RefMem(RefMem(ms, m), i)
             u == UnrefMem(UnrefMem(ms, m), i)
         IN  /\ r \in Seq(Int) /\ Len(r) = Len(ms) /\ u \in Seq(Int) /\ Len(u) = Len(ms)
             /\ \A n \in 1..Len(ms) : /\ r[n] = ms[n] + One(n \in {m, i}) - One(n \in {0, 0})
                                      /\ u[n] = ms[n] + One(n \in {0, 0}) - One(n \in {m, i})
<1> DEFINE r1 == RefMem(ms, m)
           r == RefMem(r1, i)
           u1 == UnrefMem(ms, m)
           u == UnrefMem(u1, i)
<1>1. /\ r1 \in Seq(Int) /\ Len(r1) = Len(ms) /\ u1 \in Seq(Int) /\ Len(u1) = Len(ms)
      /\ \A n \in 1..Len(ms) : r1[n] = ms[n] + One(n = m) /\ u1[n] = ms[n] - One(n = m)
  <2>1. m \in 0..Len(ms)
    OBVIOUS
  <2>2. QED  BY <2>1, RefMemIs
<1> HIDE DEF r1, u1
<1>2. /\ r \in Seq(Int) /\ Len(r) = Len(r1) /\ u \in Seq(Int) /\ Len(u) = Len(u1)
      /\ \A n \in 1..Len(ms) : r[n] = r1[n] + One(n = i) /\ u[n] = u1[n] - One(n = i)
  <2>1. i \in 0..Len(r1) /\ i \in 0..Len(u1)
    BY <1>1
  <2>2. QED  BY <1>1, <2>1, RefMemIs
<1> HIDE DEF r, u
<1>3. ASSUME NEW n \in 1..Len(ms)
      PROVE  /\ r[n] = ms[n] + One(n \in {m, i}) - One(n \in {0, 0})
             /\ u[n] = ms[n] + One(n \in {0, 0}) - One(n \in {m, i})
  <2> DEFINE x == ms[n]
             o1 == One(n = m)
             o2 == One(n = i)
             o3 == One(n \in {m, i})
             o4 == One(n \in {0, 0})
  <2>1. x \in Int /\ o1 \in Int /\ o2 \in Int /\ o3 = o1 + o2 /\ o4 = 0
    BY DEF One
  <2>2. r[n] = (x + o1) + o2 /\ u[n] = (x - o1) - o2
    BY <1>1, <1>2
  <2> HIDE DEF x, o1, o2, o3, o4
  <2>3. r[n] = x + o3 - o4 /\ u[n] = x + o4 - o3
    BY <2>1, <2>2
  <2>4. QED  BY <2>3 DEF x, o3, o4
<1>4. QED  BY <1>1, <1>2, <1>3 DEF r, u, r1, u1

LEMMA VersionHeld ==
  ASSUME NEW vs \in Seq(VersionState), NEW v \in 1..Len(vs)
  PROVE  \A w \in 1..Len(vs) :
           /\ RefVersion(vs, v)[w].refs = vs[w].refs + One(v = w) - One(0 = w)
           /\ UnrefVersion(vs, v)[w].refs = vs[w].refs + One(0 = w) - One(v = w)
<1> SUFFICES ASSUME NEW w \in 1..Len(vs)
             PROVE  /\ RefVersion(vs, v)[w].refs = vs[w].refs + One(v = w) - One(0 = w)
                    /\ UnrefVersion(vs, v)[w].refs = vs[w].refs + One(0 = w) - One(v = w)
  OBVIOUS
<1> DEFINE x == vs[w].refs
           o1 == One(v = w)
           o2 == One(0 = w)
           r == RefVersion(vs, v)[w].refs
           u == UnrefVersion(vs, v)[w].refs
<1>1. One(w = v) = o1 /\ o1 \in Int /\ o2 = 0
  BY DEF One
<1>2. x \in Int
  <2>1. vs[w] \in VersionState
    OBVIOUS
  <2>2. QED  BY <2>1 DEF VersionState
<1>3. r = x + One(w = v) /\ u = x - One(w = v)
  BY RefVersionIs, UnrefVersionIs
<1>4. r = x + o1 /\ u = x - o1
  BY <1>1, <1>3
<1> HIDE DEF x, o1, o2, r, u
<1>5. r = x + o1 - o2 /\ u = x + o2 - o1
  BY <1>1, <1>2, <1>4
<1>6. QED  BY <1>5 DEF x, o1, o2, r, u

LEMMA NoMove ==
  ASSUME NEW x \in Int, NEW v, NEW w
  PROVE  x = x + One(v = w) - One(v = w)
<1> DEFINE o == One(v = w)
<1>1. o \in Int
  BY DEF One
<1> HIDE DEF o
<1>2. x = x + o - o
  BY <1>1
<1>3. QED  BY <1>2 DEF o

\* A client without a call.
LEMMA IdleClient ==
  ASSUME Inv, NEW a \in Clients, actor[a].pc = "idle"
  PROVE  /\ Phase(a) = "idle" /\ actor[a].version = 0 /\ actor[a].mem = 0 /\ actor[a].imm = 0
         /\ actor[a].todo = {} /\ actor[a].file = 0 /\ actor[a].how = "none" /\ actor[a].handles = {}
         /\ a \in Actors /\ a # bg
<1>1. a \in Actors /\ a # bg
  BY ActorsFinite DEF Actors
<1>2. Phase(a) = "idle" /\ ~Finding(a)
  BY DEF Phase, Finding
<1>3. ClientCall(a) /\ CallOf(a) /\ InScope(a)
  BY <1>1 DEF Inv, CallsInv, ScopeInv
<1>4. Scope(a) = {}
  BY <1>1, <1>2 DEF Scope
<1>5. QED  BY <1>1, <1>2, <1>3, <1>4 DEF ClientCall, CallOf, InScope

LEMMA BeginGetStep ==
  ASSUME Inv, NEW a \in Clients, BeginGet(a)
  PROVE  Inv'
<1>1. /\ mutex_ = "free" /\ mutex_' = mutex_ /\ actor[a].pc = "idle"
      /\ actor' = [actor EXCEPT ![a].pc = "read", ![a].version = current_, ![a].mem = mem_, ![a].imm = imm_]
      /\ memtables' = RefMem(RefMem(memtables, mem_), imm_)
      /\ versions' = RefVersion(versions, current_)
      /\ UNCHANGED <<disk, fileVars, mem_, imm_, workVars>>
  BY DEF BeginGet, Locked, At
<1>2. /\ actor \in [Actors -> ActorState] /\ versions \in Seq(VersionState) /\ versions # <<>>
      /\ memtables \in Seq(Int) /\ mem_ \in 1..Len(memtables) /\ imm_ \in 0..Len(memtables) /\ mem_ # imm_
  BY DEF Inv, Typed
<1>3. /\ actor[a].version = 0 /\ actor[a].mem = 0 /\ actor[a].imm = 0 /\ actor[a].todo = {}
      /\ actor[a].file = 0 /\ actor[a].how = "none" /\ actor[a].handles = {} /\ a \in Actors /\ a # bg
  BY <1>1, IdleClient
<1>4. current_ \in 1..Len(versions) /\ versions[current_].refs > 0
  BY Live
<1>5. current_ \in Nat /\ mem_ \in Nat /\ imm_ \in Nat
  BY <1>2, <1>4
<1>6. /\ Only(a) /\ SameSearch(a) /\ actor'[a].pc = "read"
      /\ actor'[a].iterator = actor[a].iterator /\ actor'[a].version = current_
      /\ actor'[a].mem = mem_ /\ actor'[a].imm = imm_
      /\ actor'[a].todo = actor[a].todo
      /\ actor'[a].handles = actor[a].handles
  BY <1>1, <1>2, <1>3, <1>5, GetIs
<1>7. Shrinks
  BY <1>1, <1>2, <1>4, RefShrinks
<1>8. \A v \in 1..Len(versions) :
        versions'[v].refs = versions[v].refs + One(actor'[a].version = v) - One(actor[a].version = v)
  BY <1>1, <1>2, <1>3, <1>4, <1>6, VersionHeld
<1>9. /\ memtables' \in Seq(Int) /\ Len(memtables') = Len(memtables)
      /\ \A m \in 1..Len(memtables) :
           memtables'[m] = memtables[m] + One(m \in {actor'[a].mem, actor'[a].imm})
                           - One(m \in {actor[a].mem, actor[a].imm})
  <2>1. /\ memtables' \in Seq(Int) /\ Len(memtables') = Len(memtables)
        /\ \A m \in 1..Len(memtables) :
             memtables'[m] = memtables[m] + One(m \in {mem_, imm_}) - One(m \in {0, 0})
    BY <1>1, <1>2, MemsHeld
  <2>2. {actor'[a].mem, actor'[a].imm} = {mem_, imm_} /\ {actor[a].mem, actor[a].imm} = {0, 0}
    BY <1>3, <1>6
  <2>3. QED  BY <2>1, <2>2
<1>10. Phase(a)' = "read" /\ ~Finding(a)'
  BY <1>6 DEF Phase, Finding
<1>11. ClientCall(a)'
  BY <1>2, <1>4, <1>6, <1>7, <1>9, <1>10 DEF ClientCall, Shrinks
<1>12. CallOf(a)' /\ InScope(a)'
  <2>1. a # "free"
    BY <1>3, ActorsFinite
  <2>2. QED  BY <1>1, <1>3, <1>6, <1>10, <2>1 DEF CallOf, InScope, SameSearch
<1>13. /\ actor'[a].handles = actor[a].handles /\ actor'[a].how = actor[a].how
       /\ mutex_' \in Actors \cup {"free"} /\ \A b \in Actors \ {a} : mutex_' = b <=> mutex_ = b
  BY <1>1, <1>6 DEF SameSearch
<1>14. UNCHANGED <<disk, fileVars, mem_, imm_, workVars>>
  BY <1>1
<1>15. QED
  BY <1>6, <1>7, <1>8, <1>9, <1>11, <1>12, <1>13, <1>14, ReferenceStep

LEMMA BeginIteratorStep ==
  ASSUME Inv, NEW a \in Clients, BeginIterator(a)
  PROVE  Inv'
<1>1. /\ mutex_ = "free" /\ mutex_' = a /\ actor[a].pc = "idle"
      /\ actor' = [actor EXCEPT ![a].pc = "collect", ![a].iterator = TRUE, ![a].mem = mem_,
                                ![a].imm = imm_, ![a].todo = versions[current_].level0]
      /\ memtables' = RefMem(RefMem(memtables, mem_), imm_) /\ versions' = versions
      /\ UNCHANGED <<disk, fileVars, mem_, imm_, workVars>>
  BY DEF BeginIterator, Locked, At
<1>2. /\ actor \in [Actors -> ActorState] /\ versions \in Seq(VersionState) /\ versions # <<>>
      /\ memtables \in Seq(Int) /\ mem_ \in 1..Len(memtables) /\ imm_ \in 0..Len(memtables) /\ mem_ # imm_
  BY DEF Inv, Typed
<1>3. /\ actor[a].version = 0 /\ actor[a].mem = 0 /\ actor[a].imm = 0 /\ actor[a].todo = {}
      /\ actor[a].file = 0 /\ actor[a].how = "none" /\ actor[a].handles = {} /\ a \in Actors /\ a # bg
  BY <1>1, IdleClient
<1>4. current_ \in 1..Len(versions) /\ versions[current_] \in VersionState
  <2>1. current_ \in 1..Len(versions)
    BY Live
  <2>2. QED  BY <1>2, <2>1
<1>5. mem_ \in Nat /\ imm_ \in Nat /\ versions[current_].level0 \in SUBSET Files
  BY <1>2, <1>4 DEF VersionState
<1>6. /\ Only(a) /\ SameSearch(a) /\ actor'[a].pc = "collect"
      /\ actor'[a].iterator = TRUE /\ actor'[a].version = actor[a].version
      /\ actor'[a].mem = mem_ /\ actor'[a].imm = imm_ /\ actor'[a].todo = versions[current_].level0
      /\ actor'[a].handles = actor[a].handles
  BY <1>1, <1>2, <1>3, <1>5, IteratorIs
<1>7. Shrinks
  BY <1>1, <1>2 DEF Shrinks
<1>8. \A v \in 1..Len(versions) :
        versions'[v].refs = versions[v].refs + One(actor'[a].version = v) - One(actor[a].version = v)
  <2> SUFFICES ASSUME NEW v \in 1..Len(versions)
               PROVE  versions[v].refs = versions[v].refs + One(0 = v) - One(0 = v)
    BY <1>1, <1>3, <1>6
  <2>1. versions[v] \in VersionState
    BY <1>2
  <2>2. versions[v].refs \in Int
    BY <2>1 DEF VersionState
  <2>3. QED  BY <2>2, NoMove
<1>9. /\ memtables' \in Seq(Int) /\ Len(memtables') = Len(memtables)
      /\ \A m \in 1..Len(memtables) :
           memtables'[m] = memtables[m] + One(m \in {actor'[a].mem, actor'[a].imm})
                           - One(m \in {actor[a].mem, actor[a].imm})
  <2>1. /\ memtables' \in Seq(Int) /\ Len(memtables') = Len(memtables)
        /\ \A m \in 1..Len(memtables) :
             memtables'[m] = memtables[m] + One(m \in {mem_, imm_}) - One(m \in {0, 0})
    BY <1>1, <1>2, MemsHeld
  <2>2. {actor'[a].mem, actor'[a].imm} = {mem_, imm_} /\ {actor[a].mem, actor[a].imm} = {0, 0}
    BY <1>3, <1>6
  <2>3. QED  BY <2>1, <2>2
<1>10. Phase(a)' = "collect" /\ ~Finding(a)'
  BY <1>6 DEF Phase, Finding
<1>11. ClientCall(a)'
  BY <1>2, <1>3, <1>6, <1>9, <1>10 DEF ClientCall
<1>12. CallOf(a)' /\ InScope(a)'
  <2>1. Scope(a)' = versions[current_].level0
    BY <1>1, <1>3, <1>10 DEF Scope, current_
  <2>2. QED  BY <1>1, <1>3, <1>6, <1>10, <2>1 DEF CallOf, InScope, SameSearch
<1>13. /\ actor'[a].handles = actor[a].handles /\ actor'[a].how = actor[a].how
       /\ mutex_' \in Actors \cup {"free"} /\ \A b \in Actors \ {a} : mutex_' = b <=> mutex_ = b
  BY <1>1, <1>3, <1>6, ActorsFinite DEF SameSearch
<1>14. UNCHANGED <<disk, fileVars, mem_, imm_, workVars>>
  BY <1>1
<1>15. QED
  BY <1>6, <1>7, <1>8, <1>9, <1>11, <1>12, <1>13, <1>14, ReferenceStep

LEMMA IteratorMadeStep ==
  ASSUME Inv, NEW a \in Clients, IteratorMade(a)
  PROVE  Inv'
<1>1. /\ actor[a].pc = "collect" /\ actor[a].todo = {} /\ mutex_' = "free"
      /\ actor' = [actor EXCEPT ![a].pc = "read", ![a].version = current_]
      /\ versions' = RefVersion(versions, current_) /\ memtables' = memtables
      /\ UNCHANGED <<disk, fileVars, mem_, imm_, workVars>>
  BY DEF IteratorMade, At
<1>2. /\ actor \in [Actors -> ActorState] /\ versions \in Seq(VersionState) /\ versions # <<>>
      /\ memtables \in Seq(Int)
  BY DEF Inv, Typed
<1>3. a \in Actors /\ a # bg /\ a # "free"
  BY ActorsFinite DEF Actors
<1>4. Phase(a) = "collect" /\ ~Finding(a)
  BY <1>1 DEF Phase, Finding
<1>5. ClientCall(a) /\ CallOf(a) /\ InScope(a)
  BY <1>3 DEF Inv, CallsInv, ScopeInv
<1>6. /\ actor[a].version = 0 /\ mutex_ = a /\ actor[a].file = 0
      /\ actor[a].mem \in 1..Len(memtables) /\ actor[a].imm \in 0..Len(memtables)
      /\ actor[a].mem # actor[a].imm
  BY <1>4, <1>5 DEF ClientCall, CallOf
<1>7. current_ \in 1..Len(versions) /\ versions[current_].refs > 0
  BY Live
<1>8. current_ \in Nat
  BY <1>7
<1>9. /\ Only(a) /\ SameSearch(a) /\ actor'[a].pc = "read"
      /\ actor'[a].iterator = actor[a].iterator /\ actor'[a].version = current_
      /\ actor'[a].mem = actor[a].mem /\ actor'[a].imm = actor[a].imm
      /\ actor'[a].todo = actor[a].todo
      /\ actor'[a].handles = actor[a].handles
  BY <1>1, <1>2, <1>3, <1>8, MadeIs
<1>10. Shrinks
  BY <1>1, <1>2, <1>7, RefShrinks
<1>11. \A v \in 1..Len(versions) :
         versions'[v].refs = versions[v].refs + One(actor'[a].version = v) - One(actor[a].version = v)
  BY <1>1, <1>2, <1>6, <1>7, <1>9, VersionHeld
<1>12. \A m \in 1..Len(memtables) :
         memtables'[m] = memtables[m] + One(m \in {actor'[a].mem, actor'[a].imm})
                         - One(m \in {actor[a].mem, actor[a].imm})
  <2> SUFFICES ASSUME NEW m \in 1..Len(memtables)
               PROVE  memtables[m] = memtables[m] + One(m \in {actor[a].mem, actor[a].imm})
                                     - One(m \in {actor[a].mem, actor[a].imm})
    BY <1>1, <1>9
  <2> DEFINE x == memtables[m]
             o == One(m \in {actor[a].mem, actor[a].imm})
  <2>1. x \in Int /\ o \in Int
    BY <1>2 DEF One
  <2> HIDE DEF x, o
  <2>2. x = x + o - o
    BY <2>1
  <2>3. QED  BY <2>2 DEF x, o
<1>13. Phase(a)' = "read" /\ ~Finding(a)'
  BY <1>9 DEF Phase, Finding
<1>14. ClientCall(a)'
  BY <1>1, <1>6, <1>7, <1>9, <1>10, <1>13 DEF ClientCall, Shrinks
<1>15. CallOf(a)'
  BY <1>1, <1>3, <1>4, <1>5, <1>9, <1>13 DEF CallOf, SameSearch
<1>16. InScope(a)'
  <2>1. \A h \in actor[a].handles : Key(h) \in versions[current_].level0
    BY <1>3, <1>4, <1>5 DEF InScope, Scope
  <2>2. versions[current_].level0 \subseteq Scope(a)'
    <3>1. versions'[current_].level0 = versions[current_].level0
      BY <1>1, <1>2, <1>7, RefVersionIs
    <3>2. Scope(a)' = FilesOf(actor[a].version)'
      BY <1>3, <1>13 DEF Scope
    <3>3. QED  BY <1>9, <3>1, <3>2 DEF FilesOf
  <2>3. QED  BY <1>1, <1>6, <1>9, <1>13, <2>1, <2>2 DEF InScope, SameSearch
<1>17. /\ actor'[a].handles = actor[a].handles /\ actor'[a].how = actor[a].how
       /\ mutex_' \in Actors \cup {"free"} /\ \A b \in Actors \ {a} : mutex_' = b <=> mutex_ = b
  BY <1>1, <1>6, <1>9, ActorsFinite DEF SameSearch
<1>18. /\ UNCHANGED <<disk, fileVars, mem_, imm_, workVars>>
       /\ memtables' \in Seq(Int) /\ Len(memtables') = Len(memtables)
  BY <1>1, <1>2
<1>19. QED
  BY <1>9, <1>10, <1>11, <1>12, <1>14, <1>15, <1>16, <1>17, <1>18, ReferenceStep

LEMMA EndReadStep ==
  ASSUME Inv, NEW a \in Clients, EndRead(a)
  PROVE  Inv'
<1>1. /\ mutex_ = "free" /\ actor[a].handles = {} /\ actor[a].pc \in {"read", "end"}
      /\ actor' = [actor EXCEPT ![a] = NoCall]
      /\ memtables' = UnrefMem(UnrefMem(memtables, actor[a].mem), actor[a].imm)
      /\ versions' = UnrefVersion(versions, actor[a].version) /\ mutex_' = mutex_
      /\ UNCHANGED <<disk, fileVars, mem_, imm_, workVars>>
  BY DEF EndRead, At, Locked
<1>2. /\ actor \in [Actors -> ActorState] /\ versions \in Seq(VersionState) /\ versions # <<>>
      /\ memtables \in Seq(Int)
  BY DEF Inv, Typed
<1>3. a \in Actors /\ a # bg /\ a # "free"
  BY ActorsFinite DEF Actors
<1>4. Phase(a) \in {"read", "end"} /\ ~Finding(a)
  BY <1>1 DEF Phase, Finding
<1>5. ClientCall(a) /\ CallOf(a)
  BY <1>3 DEF Inv, CallsInv
<1>6. /\ actor[a].version \in 1..Len(versions) /\ actor[a].how = "none"
      /\ actor[a].mem \in 1..Len(memtables) /\ actor[a].imm \in 0..Len(memtables)
      /\ actor[a].mem # actor[a].imm
  BY <1>4, <1>5 DEF ClientCall, CallOf, Finding
<1>7. /\ Only(a) /\ actor'[a].pc = "idle" /\ actor'[a].iterator = FALSE /\ actor'[a].version = 0
      /\ actor'[a].mem = 0 /\ actor'[a].imm = 0 /\ actor'[a].todo = {} /\ actor'[a].file = 0
      /\ actor'[a].how = "none" /\ actor'[a].back = "idle" /\ actor'[a].handles = {}
  BY <1>1, <1>2, <1>3, EndIs
<1>8. Shrinks
  BY <1>1, <1>2, <1>6, UnrefShrinks
<1>9. \A v \in 1..Len(versions) :
        versions'[v].refs = versions[v].refs + One(actor'[a].version = v) - One(actor[a].version = v)
  <2> DEFINE x == actor[a].version
  <2>1. \A v \in 1..Len(versions) :
          UnrefVersion(versions, x)[v].refs = versions[v].refs + One(0 = v) - One(x = v)
    <3>1. versions \in Seq(VersionState) /\ x \in 1..Len(versions)
      BY <1>2, <1>6
    <3> HIDE DEF x
    <3>2. QED  BY <3>1, VersionHeld
  <2>2. versions' = UnrefVersion(versions, x) /\ actor'[a].version = 0
    BY <1>1, <1>7
  <2> HIDE DEF x
  <2>3. QED  BY <2>1, <2>2 DEF x
<1>10. /\ memtables' \in Seq(Int) /\ Len(memtables') = Len(memtables)
       /\ \A m \in 1..Len(memtables) :
            memtables'[m] = memtables[m] + One(m \in {actor'[a].mem, actor'[a].imm})
                            - One(m \in {actor[a].mem, actor[a].imm})
  <2> DEFINE x == actor[a].mem
             y == actor[a].imm
  <2>1. memtables' = UnrefMem(UnrefMem(memtables, x), y) /\ x \in 1..Len(memtables)
        /\ y \in 0..Len(memtables) /\ x # y
    BY <1>1, <1>6
  <2> HIDE DEF x, y
  <2>2. /\ memtables' \in Seq(Int) /\ Len(memtables') = Len(memtables)
        /\ \A m \in 1..Len(memtables) :
             memtables'[m] = memtables[m] + One(m \in {0, 0}) - One(m \in {x, y})
    BY <1>2, <2>1, MemsHeld
  <2>3. {actor'[a].mem, actor'[a].imm} = {0, 0} /\ {actor[a].mem, actor[a].imm} = {x, y}
    BY <1>7 DEF x, y
  <2>4. QED  BY <2>2, <2>3
<1>11. Phase(a)' = "idle" /\ ~Finding(a)'
  BY <1>7 DEF Phase, Finding
<1>12. ClientCall(a)' /\ CallOf(a)' /\ InScope(a)'
  BY <1>1, <1>3, <1>7, <1>11 DEF ClientCall, CallOf, InScope
<1>13. /\ actor'[a].handles = actor[a].handles /\ actor'[a].how = actor[a].how
       /\ mutex_' \in Actors \cup {"free"} /\ \A b \in Actors \ {a} : mutex_' = b <=> mutex_ = b
  BY <1>1, <1>6, <1>7
<1>14. UNCHANGED <<disk, fileVars, mem_, imm_, workVars>>
  BY <1>1
<1>15. QED
  BY <1>7, <1>8, <1>9, <1>10, <1>12, <1>13, <1>14, ReferenceStep

LEMMA ClientSteps ==
  ASSUME Inv, NEW a \in Clients, ClientStep(a)
  PROVE  Inv'
BY BeginGetStep, BeginIteratorStep, CollectTableStep, IteratorMadeStep, ReadTableStep,
   ClientReleases, DeleteIteratorStep, EndReadStep DEF ClientStep

(***************************************************************************)
(* Steps that no client takes.                                             *)
(***************************************************************************)
LEMMA OthersStay ==
  ASSUME Inv, VersionRefs', Lasting, \A b \in Clients : actor'[b] = actor[b],
         memtables' \in Seq(Int), Len(memtables') >= Len(memtables),
         \A b \in Clients : mutex_' = b <=> mutex_ = b
  PROVE  \A b \in Clients : ClientCall(b)' /\ CallOf(b)' /\ InScope(b)'
<1> SUFFICES ASSUME NEW b \in Clients PROVE ClientCall(b)' /\ CallOf(b)' /\ InScope(b)'
  OBVIOUS
<1>1. /\ CallsInv /\ ScopeInv /\ versions \in Seq(VersionState) /\ versions # <<>>
      /\ memtables \in Seq(Int)
  BY DEF Inv, Typed
<1>2. b \in Actors /\ b # "free"
  BY ActorsFinite DEF Actors
<1>3. \A v : v \in 1..Len(versions) => v \in 1..Len(versions')
  BY DEF Lasting
<1>4. Phase(b) \in {"read", "end"} => versions'[actor[b].version].refs > 0
  <2> HAVE Phase(b) \in {"read", "end"}
  <2>1. actor[b].version \in 1..Len(versions')
    BY <1>3, Live
  <2>2. QED  BY <2>1, LiveNext
<1>5. Phase(b) = "collect" => versions'[current_].refs > 0
  <2> HAVE Phase(b) = "collect"
  <2>1. mutex_ # "free"
    BY <1>1, <1>2 DEF CallsInv, CallOf
  <2>2. current_' = current_ /\ current_ \in 1..Len(versions')
    BY <1>3, <2>1, Live DEF Lasting, current_
  <2>3. QED  BY <2>2, LiveNext
<1>6. actor'[b] = actor[b] /\ (mutex_' = b <=> mutex_ = b)
  OBVIOUS
<1>7. QED  BY <1>1, <1>4, <1>5, <1>6, ClientStays

LEMMA BgMoves ==
  ASSUME Inv, Typed', VersionRefs', MemRefs', CacheInv', LimitsInv', FilesInv', Lasting,
         \A b \in Clients : actor'[b] = actor[b] /\ (mutex_' = b <=> mutex_ = b),
         Len(memtables') >= Len(memtables), BgCall', CallOf(bg)', InScope(bg)'
  PROVE  Inv'
<1>1. memtables' \in Seq(Int)
  BY DEF Typed
<1>2. \A b \in Clients : ClientCall(b)' /\ CallOf(b)' /\ InScope(b)'
  BY <1>1, OthersStay
<1>3. CallsInv'
  BY <1>2 DEF CallsInv, Actors
<1>4. ScopeInv'
  BY <1>2 DEF ScopeInv, Actors
<1>5. QED  BY <1>3, <1>4 DEF Inv

LEMMA VersionRefsShift ==
  ASSUME Inv, \A b \in Clients : actor'[b] = actor[b],
         \A v \in 1..Len(versions) :
           versions'[v].refs = versions[v].refs
             + (One(v = current_') - One(v = current_))
             + (One(flush'.base = v) - One(flush.base = v))
             + (One(compact'.version = v) - One(compact.version = v)),
         \/ Len(versions') = Len(versions)
         \/ /\ Len(versions') = Len(versions) + 1 /\ versions'[Len(versions')].refs = 1
            /\ flush'.base # Len(versions') /\ compact'.version # Len(versions')
  PROVE  VersionRefs'
<1>1. VersionRefs /\ versions \in Seq(VersionState) /\ CallsInv
  BY DEF Inv, Typed
<1>2. \A v : Cardinality(Readings(v))' = Cardinality(Readings(v)) /\ Cardinality(Readings(v)) \in Nat
  BY ReadingsStay
<1>3. ASSUME NEW v \in 1..Len(versions)
      PROVE  versions'[v].refs = Cardinality(Readings(v))' + One(v = current_') + One(flush'.base = v)
                                 + One(compact'.version = v)
  <2> DEFINE n == Cardinality(Readings(v))
             x == versions[v].refs
             c0 == One(v = current_)
             c1 == One(v = current_')
             f0 == One(flush.base = v)
             f1 == One(flush'.base = v)
             m0 == One(compact.version = v)
             m1 == One(compact'.version = v)
  <2>1. n \in Nat /\ n' = n
    BY <1>2
  <2>2. x = n + c0 + f0 + m0
    BY <1>1 DEF VersionRefs
  <2>3. versions'[v].refs = x + (c1 - c0) + (f1 - f0) + (m1 - m0)
    OBVIOUS
  <2>4. c0 \in Int /\ c1 \in Int /\ f0 \in Int /\ f1 \in Int /\ m0 \in Int /\ m1 \in Int
    BY DEF One
  <2> HIDE DEF n, x, c0, c1, f0, f1, m0, m1
  <2>5. versions'[v].refs = n' + c1 + f1 + m1
    BY <2>1, <2>2, <2>3, <2>4
  <2>6. QED  BY <2>5 DEF n, c1, f1, m1
<1>4. ASSUME NEW v, v = Len(versions'), Len(versions') = Len(versions) + 1,
             versions'[Len(versions')].refs = 1,
             flush'.base # Len(versions'), compact'.version # Len(versions')
      PROVE  versions'[v].refs = Cardinality(Readings(v))' + One(v = current_') + One(flush'.base = v)
                                 + One(compact'.version = v)
  <2> DEFINE c1 == One(v = current_')
             f1 == One(flush'.base = v)
             m1 == One(compact'.version = v)
             R == {b \in Clients : actor'[b].version = v}
  <2>1. Cardinality(R) = 0
    <3>1. Len(versions) \in Nat
      BY <1>1
    <3>2. \A b \in Clients : actor[b].version \in 0..Len(versions)
      BY <1>1, <3>1 DEF CallsInv, ClientCall
    <3>3. R = {}
      BY <1>4, <3>1, <3>2
    <3>4. QED  BY <3>3, FS_EmptySet
  <2>2. c1 = 1 /\ f1 = 0 /\ m1 = 0
    BY <1>4 DEF One, current_
  <2>3. versions'[v].refs = 1
    BY <1>4
  <2>4. versions'[v].refs = Cardinality(R) + c1 + f1 + m1
    <3> HIDE DEF R, c1, f1, m1
    <3>1. QED  BY <2>1, <2>2, <2>3
  <2>5. QED  BY <2>4 DEF Readings
<1>5. Len(versions) \in Nat
  BY <1>1
<1>6. \A v \in 1..Len(versions') : v \in 1..Len(versions)
                                   \/ (v = Len(versions') /\ Len(versions') = Len(versions) + 1)
  BY <1>5
<1>7. QED  BY <1>3, <1>4, <1>6 DEF VersionRefs

LEMMA SwitchMemTableStep ==
  ASSUME Inv, SwitchMemTable
  PROVE  Inv'
<1>1. /\ mutex_ = "free" /\ imm_ = 0 /\ memtables' = Append(memtables, 1)
      /\ imm_' = mem_ /\ mem_' = Len(memtables') /\ mutex_' = mutex_ /\ actor' = actor
      /\ versions' = versions /\ UNCHANGED <<disk, fileVars, workVars>>
  BY DEF SwitchMemTable, Locked
<1>2. /\ disk' = disk /\ next_file_number_' = next_file_number_
      /\ pending_outputs_' = pending_outputs_ /\ bg_error_' = bg_error_ /\ flush' = flush
      /\ compact' = compact /\ files_to_delete' = files_to_delete
      /\ cache_' = cache_ /\ opened' = opened /\ mmap_allowed' = mmap_allowed /\ fd_allowed' = fd_allowed
  BY <1>1 DEF workVars, fileVars
<1>3. Typed /\ memtables \in Seq(Int) /\ mem_ \in 1..Len(memtables) /\ CallsInv /\ ScopeInv /\ MemRefs
  BY DEF Inv, Typed
<1>4. /\ memtables' \in Seq(Int) /\ Len(memtables') = Len(memtables) + 1 /\ Len(memtables) \in Nat
      /\ memtables'[Len(memtables) + 1] = 1
      /\ \A m \in 1..Len(memtables) : memtables'[m] = memtables[m]
  BY <1>1, <1>3
<1>5. Typed'
  <2>1. mem_' \in 1..Len(memtables') /\ imm_' \in 0..Len(memtables') /\ mem_' # imm_'
    BY <1>1, <1>3, <1>4
  <2>2. QED  BY <1>1, <1>2, <1>3, <1>4, <2>1 DEF Typed
<1>6. VersionRefs'
  BY <1>1, <1>2, VersionsStay DEF Inv
<1>7. MemRefs'
  <2>1. \A m : Cardinality(Using(m))' = Cardinality(Using(m)) /\ Cardinality(Using(m)) \in Nat
    BY <1>1, UsingStay
  <2>2. ASSUME NEW m \in 1..Len(memtables)
        PROVE  memtables'[m] = Cardinality(Using(m))' + One(m \in {mem_', imm_'})
    <3>1. m \in {mem_', imm_'} <=> m \in {mem_, imm_}
      BY <1>1, <1>3, <1>4
    <3>2. One(m \in {mem_', imm_'}) = One(m \in {mem_, imm_})
      BY <3>1 DEF One
    <3>3. QED  BY <1>3, <1>4, <2>1, <3>2 DEF MemRefs
  <2>3. ASSUME NEW l, l = Len(memtables')
        PROVE  memtables'[l] = Cardinality(Using(l))' + One(l \in {mem_', imm_'})
    <3> DEFINE U == {b \in Clients : l \in {actor'[b].mem, actor'[b].imm}}
               o == One(l \in {mem_', imm_'})
    <3>1. ASSUME NEW b \in Clients
          PROVE  actor[b].mem \in 0..Len(memtables) /\ actor[b].imm \in 0..Len(memtables)
      <4>1. ClientCall(b)
        BY <1>3 DEF CallsInv
      <4>2. CASE Phase(b) \in {"idle", "gone"}
        <5>1. actor[b].mem = 0 /\ actor[b].imm = 0
          BY <4>1, <4>2 DEF ClientCall
        <5>2. QED  BY <1>4, <5>1
      <4>3. CASE Phase(b) \in {"collect", "read", "end"}
        <5>1. actor[b].mem \in 1..Len(memtables) /\ actor[b].imm \in 0..Len(memtables)
          BY <4>1, <4>3 DEF ClientCall
        <5>2. QED  BY <1>4, <5>1
      <4>4. Phase(b) \in {"idle", "gone"} \/ Phase(b) \in {"collect", "read", "end"}
        BY <4>1 DEF ClientCall
      <4>5. QED  BY <4>2, <4>3, <4>4
    <3>2. U = {}
      BY <1>1, <1>4, <2>3, <3>1
    <3>3. Cardinality(U) = 0
      BY <3>2, FS_EmptySet
    <3>4. o = 1
      BY <1>1, <2>3 DEF One
    <3>5. memtables'[l] = 1
      BY <1>4, <2>3
    <3>6. memtables'[l] = Cardinality(U) + o
      <4> HIDE DEF U, o
      <4>1. QED  BY <3>3, <3>4, <3>5
    <3>7. QED  BY <3>6 DEF Using
  <2>4. \A m \in 1..Len(memtables') : m \in 1..Len(memtables) \/ m = Len(memtables')
    BY <1>4
  <2>5. QED  BY <2>2, <2>3, <2>4 DEF MemRefs
<1>8. CacheInv' /\ LimitsInv'
  <2>1. StaysTables
    BY <1>1 DEF StaysTables
  <2>2. QED  BY <2>1, TablesStay DEF Inv
<1>9. FilesInv'
  <2>1. Shrinks
    BY <1>1, <1>3 DEF Typed, Shrinks
  <2>2. QED  BY <1>1, <1>2, <2>1, FilesShrink
<1>10. Lasting
  BY <1>1, <1>3 DEF Typed, Lasting
<1>11. BgCall' /\ CallOf(bg)' /\ InScope(bg)'
  <2>1. compact.version # 0 => versions'[compact.version].refs > 0
    BY <1>1, Live
  <2>2. versions \in Seq(VersionState) /\ compact.version \in Nat
    BY <1>3 DEF Typed
  <2>3. QED  BY <1>1, <1>2, <1>3, <1>10, <2>1, <2>2, BgStays
<1>12. Len(memtables') >= Len(memtables)
  BY <1>4
<1>13. QED  BY <1>1, <1>5, <1>6, <1>7, <1>8, <1>9, <1>10, <1>11, <1>12, BgMoves

(***************************************************************************)
(* The background thread: steps that change only where it is, and tables.  *)
(***************************************************************************)
LEMMA BgFacts ==
  ASSUME Inv, NEW pc \in PCs \ {"open", "table"}, actor[bg].pc = pc
  PROVE  /\ Phase(bg) = pc /\ ~Finding(bg) /\ BgCall /\ CallOf(bg) /\ InScope(bg) /\ FilesInv
         /\ actor[bg].file = 0 /\ actor[bg].how = "none" /\ Searching(bg) /\ bg \in Actors /\ bg # "free"
         /\ pc # "collect" => mutex_ # bg /\ actor[bg].todo = {}
         /\ \A h \in actor[bg].handles : Key(h) # 0
<1>1. bg \in Actors /\ bg # "free"
  BY ActorsFinite
<1>2. Phase(bg) = pc /\ ~Finding(bg)
  BY DEF Phase, Finding
<1>3. BgCall /\ CallOf(bg) /\ InScope(bg) /\ FilesInv
  BY <1>1 DEF Inv, CallsInv, ScopeInv
<1>4. actor[bg].file = 0 /\ actor[bg].how = "none"
  BY <1>2, <1>3 DEF CallOf
<1>5. QED  BY <1>1, <1>2, <1>3, <1>4 DEF CallOf, Searching

LEMMA BgGoto ==
  ASSUME Inv, NEW pc \in PCs \ {"open", "table"}, Goto(bg, pc), UNCHANGED fileVars, ~Finding(bg)
  PROVE  /\ Only(bg) /\ SameCall(bg) /\ SameSearch(bg) /\ actor'[bg].pc = pc
         /\ actor'[bg].todo = actor[bg].todo /\ actor'[bg].handles = actor[bg].handles
         /\ Phase(bg)' = pc /\ ~Finding(bg)' /\ Searching(bg)' /\ actor'[bg].file = 0
         /\ actor' \in [Actors -> ActorState] /\ \A b \in Clients : actor'[b] = actor[b]
         /\ CacheInv' /\ LimitsInv' /\ NothingNew /\ cache_' = cache_
         /\ opened' \in [Handles -> Hows] /\ mmap_allowed' \in Int /\ fd_allowed' \in Int
<1>1. /\ CacheInv /\ LimitsInv /\ actor \in [Actors -> ActorState] /\ bg \in Actors /\ CallOf(bg)
      /\ opened \in [Handles -> Hows] /\ mmap_allowed \in Int /\ fd_allowed \in Int
  BY ActorsFinite DEF Inv, Typed, CallsInv
<1>2. /\ Only(bg) /\ SameCall(bg) /\ SameSearch(bg) /\ actor'[bg].pc = pc
      /\ actor'[bg].todo = actor[bg].todo /\ actor'[bg].handles = actor[bg].handles
  BY <1>1, GotoIs
<1>3. \A b \in Actors \ {bg} : actor'[b] = actor[b]
  BY <1>2 DEF Only
<1>4. StaysTables
  BY <1>2, <1>3 DEF StaysTables, SameSearch
<1>5. /\ cache_' = cache_ /\ opened' = opened /\ mmap_allowed' = mmap_allowed
      /\ fd_allowed' = fd_allowed
  BY DEF fileVars
<1>6. CacheInv' /\ LimitsInv' /\ NothingNew
  BY <1>1, <1>4, TablesStay
<1>7. Phase(bg)' = pc /\ ~Finding(bg)'
  BY <1>2 DEF Phase, Finding
<1>8. actor[bg].file = 0 /\ actor[bg].how = "none"
  BY <1>1 DEF CallOf, Finding
<1>9. Searching(bg)' /\ actor'[bg].file = 0
  BY <1>1, <1>2, <1>7, <1>8 DEF Searching, SameSearch, CallOf
<1>10. \A b \in Clients : actor'[b] = actor[b]
  BY <1>3, ActorsFinite DEF Actors
<1>11. actor' \in [Actors -> ActorState]
  BY <1>2 DEF Only
<1>12. QED  BY <1>1, <1>2, <1>5, <1>6, <1>7, <1>9, <1>10, <1>11

\* The background thread goes on to another phase.
LEMMA FilesRephase ==
  ASSUME Inv, UNCHANGED <<disk, dbVars>>,
         \A h \in Handles : cache_'.refs[h] > 0 => Key(h) \in Kept,
         Phase(bg)' \in {"verify", "verified", "built", "flush_manifest"} => flush.output \in disk,
         Phase(bg)' \in {"build", "verify"} => Unseen(flush.output)',
         Phase(bg)' = "verified" /\ HandleOf(bg, flush.output)' = {} => Unseen(flush.output)',
         \/ Phase(bg)' \in {"create", "merge_failed"}
         \/ Phase(bg) \notin {"create", "merge_failed"}
  PROVE  FilesInv'
<1>1. /\ disk' = disk /\ versions' = versions /\ next_file_number_' = next_file_number_
      /\ pending_outputs_' = pending_outputs_ /\ flush' = flush
      /\ compact' = compact /\ files_to_delete' = files_to_delete
  BY DEF dbVars, workVars
<1>2. FilesInv
  BY DEF Inv
<1>3. \A v : FilesOf(v)' = FilesOf(v)
  BY <1>1 DEF FilesOf
<1>4. Kept' = Kept
  BY <1>1 DEF Kept
<1>5. QED  BY <1>1, <1>2, <1>3, <1>4 DEF FilesInv

LEMMA InputSteps ==
  ASSUME Inv, OpenInput \/ OpenNextInput \/ DoneWithInput \/ ReleaseInput
  PROVE  Inv'
<1>1. bg \in Actors
  BY ActorsFinite
<1>2. CASE OpenInput
  <2>1. PICK f \in First(actor[bg].todo) : Lookup(bg, f, "collect")
    BY <1>2 DEF OpenInput
  <2>2. Phase(bg) = "collect" /\ ~Finding(bg) /\ files_to_delete = {}
    BY <1>2 DEF OpenInput, BgAt, At, Phase, Finding
  <2>3. f \in Scope(bg)
    BY <1>1, <2>1 DEF First, Inv, ScopeInv, InScope
  <2>4. QED  BY <1>1, <2>1, <2>2, <2>3, LookupStep
<1>3. CASE OpenNextInput
  <2>1. PICK f \in versions[compact.version].level1 : Lookup(bg, f, "merge")
    BY <1>3 DEF OpenNextInput
  <2>2. Phase(bg) = "merge" /\ ~Finding(bg) /\ files_to_delete = {}
    BY <1>3 DEF OpenNextInput, BgAt, At, Phase, Finding
  <2>3. f \in Scope(bg)
    <3>1. compact.version # 0
      BY <2>2 DEF Inv, CallsInv, BgCall, MergePhases
    <3>2. QED  BY <3>1 DEF Scope, FilesOf
  <2>4. QED  BY <1>1, <2>1, <2>2, <2>3, LookupStep
<1>4. CASE DoneWithInput \/ ReleaseInput
  <2>1. Phase(bg) # "verified" /\ \E h : ReleaseTable(bg, h)
    BY <1>4 DEF DoneWithInput, ReleaseInput, ReleaseNext, BgAt, At, Phase, Finding
  <2>2. QED  BY <1>1, <2>1, ReleaseStep
<1>5. QED  BY <1>2, <1>3, <1>4

LEMMA VerifyTableStep ==
  ASSUME Inv, VerifyTable
  PROVE  Inv'
<1>1. actor[bg].pc = "verify" /\ files_to_delete = {} /\ Lookup(bg, flush.output, "verified")
  BY DEF VerifyTable, BgAt, At
<1>2. "verify" \in PCs \ {"open", "table"} /\ "verified" \in PCs \ {"open", "table"}
  BY DEF PCs
<1>3. /\ Phase(bg) = "verify" /\ ~Finding(bg) /\ BgCall /\ CallOf(bg) /\ InScope(bg) /\ FilesInv
      /\ actor[bg].todo = {} /\ mutex_ # bg /\ bg \in Actors
  BY <1>1, <1>2, BgFacts
<1>4. flush.output \in Files /\ Unseen(flush.output) /\ flush.output \in disk
  BY <1>3 DEF BgCall, FilesInv, FlushPhases, Inv, Typed
<1>5. cache_.table[flush.output] = None
  BY <1>4, CachedLive DEF Unseen
<1>6. /\ Only(bg) /\ SameCall(bg) /\ UNCHANGED <<mutex_, disk, dbVars>>
      /\ Phase(bg)' = "verified" /\ Searching(bg)' /\ actor'[bg].todo = actor[bg].todo \ {flush.output}
      /\ actor'[bg].file \in {0, flush.output} /\ Finding(bg)' /\ actor'[bg].file = flush.output
      /\ CacheInv' /\ LimitsInv' /\ NothingNew
      /\ opened' \in [Handles -> Hows] /\ mmap_allowed' \in Int /\ fd_allowed' \in Int
      /\ actor'[bg].handles = actor[bg].handles
  BY <1>1, <1>2, <1>3, <1>4, <1>5, LookupMoves
<1>7. mutex_' = mutex_ /\ versions' = versions /\ flush' = flush /\ compact' = compact /\ imm_' = imm_ /\ files_to_delete' = files_to_delete
  BY <1>6 DEF dbVars, workVars
<1>8. BgCall'
  BY <1>1, <1>3, <1>6, <1>7 DEF BgCall, FlushPhases, MergePhases, SameCall
<1>9. CallOf(bg)'
  BY <1>3, <1>6, <1>7 DEF CallOf, Searching
<1>10. InScope(bg)'
  <2>1. Scope(bg)' = (IF compact.version # 0 THEN FilesOf(compact.version) ELSE {}) \cup {flush.output}
    BY <1>6, <1>7 DEF Scope, FilesOf
  <2>2. Scope(bg) = (IF compact.version # 0 THEN FilesOf(compact.version) ELSE {})
    BY <1>3 DEF Scope
  <2>3. QED  BY <1>3, <1>6, <1>7, <2>1, <2>2 DEF InScope
<1>11. FilesInv'
  <2>1. \A h \in Handles : cache_'.refs[h] > 0 => Key(h) \in Kept
    BY <1>3, <1>6 DEF FilesInv, NothingNew
  <2>2. Unseen(flush.output)'
    BY <1>4, <1>6, <1>7 DEF Unseen, NothingNew
  <2>3. QED  BY <1>3, <1>4, <1>6, <2>1, <2>2, FilesRephase
<1>12. QED  BY <1>3, <1>6, <1>8, <1>9, <1>10, <1>11, QuietStep

LEMMA FinishOutputStep ==
  ASSUME Inv, FinishOutput
  PROVE  Inv'
<1> DEFINE f == compact.builder
<1>1. actor[bg].pc = "merge" /\ files_to_delete = {} /\ f # 0 /\ Lookup(bg, f, "finished")
  BY DEF FinishOutput, BgAt, At
<1>2. "merge" \in PCs \ {"open", "table"} /\ "finished" \in PCs \ {"open", "table"}
  BY DEF PCs
<1>3. /\ Phase(bg) = "merge" /\ ~Finding(bg) /\ BgCall /\ CallOf(bg) /\ InScope(bg) /\ FilesInv
      /\ actor[bg].todo = {} /\ mutex_ # bg /\ bg \in Actors
  BY <1>1, <1>2, BgFacts
<1>4. f \in Files
  BY <1>1 DEF Inv, Typed
<1>5. /\ Only(bg) /\ SameCall(bg) /\ UNCHANGED <<mutex_, disk, dbVars>>
      /\ Phase(bg)' = "finished" /\ Searching(bg)' /\ actor'[bg].todo = actor[bg].todo \ {f}
      /\ actor'[bg].file \in {0, f} /\ (Finding(bg)' => actor'[bg].file = f)
      /\ \A h \in actor'[bg].handles : h \in actor[bg].handles \/ Key(h) = f
      /\ CacheInv' /\ LimitsInv' /\ NothingNew
      /\ opened' \in [Handles -> Hows] /\ mmap_allowed' \in Int /\ fd_allowed' \in Int
  BY <1>1, <1>2, <1>3, <1>4, LookupMoves
<1>6. /\ mutex_' = mutex_ /\ versions' = versions /\ flush' = flush /\ compact' = compact
      /\ imm_' = imm_ /\ files_to_delete' = files_to_delete
  BY <1>5 DEF dbVars, workVars
<1>7. BgCall'
  BY <1>1, <1>3, <1>5, <1>6 DEF BgCall, FlushPhases, MergePhases, SameCall
<1>8. CallOf(bg)'
  BY <1>3, <1>5, <1>6 DEF CallOf, Searching
<1>9. InScope(bg)'
  <2>1. Scope(bg)' = (IF compact.version # 0 THEN FilesOf(compact.version) ELSE {}) \cup {f}
    BY <1>5, <1>6 DEF Scope, FilesOf
  <2>2. Scope(bg) = (IF compact.version # 0 THEN FilesOf(compact.version) ELSE {})
    BY <1>3 DEF Scope
  <2>3. QED  BY <1>3, <1>5, <1>6, <2>1, <2>2 DEF InScope
<1>10. FilesInv'
  <2>1. \A h \in Handles : cache_'.refs[h] > 0 => Key(h) \in Kept
    BY <1>3, <1>5 DEF FilesInv, NothingNew
  <2>2. QED  BY <1>3, <1>5, <2>1, FilesRephase
<1>11. QED  BY <1>3, <1>5, <1>7, <1>8, <1>9, <1>10, QuietStep

LEMMA TableVerifiedStep ==
  ASSUME Inv, TableVerified
  PROVE  Inv'
<1> DEFINE f == flush.output
<1>1. PICK h \in HandleOf(bg, f) :
        /\ actor' = [actor EXCEPT ![bg].pc = "built", ![bg].handles = @ \ {h}]
        /\ CacheStep(Unref(cache_, h))
  BY DEF TableVerified
<1>2. actor[bg].pc = "verified" /\ files_to_delete = {} /\ UNCHANGED <<mutex_, disk, dbVars>>
  BY DEF TableVerified, BgAt, At
<1>3. "verified" \in PCs \ {"open", "table"} /\ "built" \in PCs
  BY DEF PCs
<1>4. /\ Phase(bg) = "verified" /\ ~Finding(bg) /\ BgCall /\ CallOf(bg) /\ InScope(bg) /\ FilesInv
      /\ actor[bg].todo = {} /\ mutex_ # bg /\ bg \in Actors
      /\ actor[bg].file = 0 /\ Searching(bg) /\ \A e \in actor[bg].handles : Key(e) # 0
  BY <1>2, <1>3, BgFacts
<1>5. /\ actor \in [Actors -> ActorState] /\ mmap_allowed \in Int /\ fd_allowed \in Int
      /\ LimitsInv /\ CacheInv /\ opened \in [Handles -> Hows]
  BY DEF Inv, Typed
<1>6. h \in actor[bg].handles /\ Key(h) = f /\ h \in Handles
  BY <1>1, <1>4, HandlesLive DEF HandleOf
<1>7. /\ Only(bg) /\ SameCall(bg) /\ SameSearch(bg) /\ actor'[bg].pc = "built"
      /\ actor'[bg].todo = actor[bg].todo
      /\ actor'[bg].handles = actor[bg].handles \ {h}
  BY <1>1, <1>3, <1>4, <1>5, ReleaseToIs
<1>8. \A b \in Actors \ {bg} : actor'[b] = actor[b]
  BY <1>7 DEF Only
<1>9. /\ CacheInv' /\ LimitsInv' /\ NothingNew
      /\ opened' \in [Handles -> Hows] /\ mmap_allowed' \in Int /\ fd_allowed' \in Int
  BY <1>1, <1>4, <1>5, <1>6, <1>7, <1>8, ReleaseTables DEF SameSearch
<1>10. Phase(bg)' = "built" /\ ~Finding(bg)'
  BY <1>7 DEF Phase, Finding
<1>11. /\ mutex_' = mutex_ /\ versions' = versions /\ flush' = flush /\ compact' = compact
       /\ imm_' = imm_ /\ files_to_delete' = files_to_delete
  BY <1>2 DEF dbVars, workVars
<1>12. BgCall'
  BY <1>2, <1>4, <1>7, <1>10, <1>11 DEF BgCall, FlushPhases, MergePhases, SameCall
<1>13. CallOf(bg)'
  BY <1>2, <1>4, <1>7, <1>10, <1>11 DEF CallOf, SameSearch
<1>14. InScope(bg)'
  <2>1. Scope(bg)' = (IF compact.version # 0 THEN FilesOf(compact.version) ELSE {})
    BY <1>10, <1>11 DEF Scope, FilesOf
  <2>2. Scope(bg) = (IF compact.version # 0 THEN FilesOf(compact.version) ELSE {}) \cup {f}
    BY <1>4 DEF Scope
  <2>3. \A e \in actor'[bg].handles : Key(e) # f
    BY <1>4, <1>6, <1>7 DEF Searching
  <2>4. QED  BY <1>4, <1>7, <1>10, <2>1, <2>2, <2>3 DEF InScope, SameSearch
<1>15. FilesInv'
  <2>1. \A e \in Handles : cache_'.refs[e] > 0 => Key(e) \in Kept
    BY <1>4, <1>9 DEF FilesInv, NothingNew
  <2>2. f \in disk /\ UNCHANGED <<disk, dbVars>>
    BY <1>2, <1>4 DEF FilesInv
  <2>3. QED  BY <1>4, <1>10, <2>1, <2>2, FilesRephase
<1>16. UNCHANGED <<mutex_, disk, dbVars>>
  BY <1>2
<1>17. QED  BY <1>4, <1>7, <1>9, <1>12, <1>13, <1>14, <1>15, <1>16, QuietStep

LEMMA EndMergeStep ==
  ASSUME Inv, EndMerge \/ MergeFails
  PROVE  Inv'
<1>1. /\ actor[bg].pc \in {"create", "merge", "finished"} /\ files_to_delete = {}
      /\ actor[bg].pc = "finished" => HandleOf(bg, compact.builder) = {}
      /\ UNCHANGED <<mutex_, disk, dbVars>> /\ UNCHANGED fileVars
      /\ \/ Goto(bg, "merge_failed")
         \/ Goto(bg, "merged") /\ actor[bg].pc = "merge"
  BY DEF EndMerge, MergeFails, BgAt, At
<1>2. PICK new \in {"merged", "merge_failed"} : Goto(bg, new) /\ (new = "merged" => actor[bg].pc = "merge")
  BY <1>1
<1>3. new \in PCs \ {"open", "table"} /\ actor[bg].pc \in PCs \ {"open", "table"}
  BY <1>1 DEF PCs
<1>4. /\ Phase(bg) = actor[bg].pc /\ ~Finding(bg) /\ BgCall /\ CallOf(bg) /\ InScope(bg) /\ FilesInv
      /\ actor[bg].todo = {} /\ mutex_ # bg /\ bg \in Actors
      /\ actor[bg].file = 0 /\ Searching(bg)
  BY <1>1, <1>3, BgFacts
<1>5. /\ Only(bg) /\ SameCall(bg) /\ SameSearch(bg)
      /\ actor'[bg].todo = actor[bg].todo /\ actor'[bg].handles = actor[bg].handles
      /\ Phase(bg)' = new /\ ~Finding(bg)' /\ Searching(bg)' /\ actor'[bg].file = 0
      /\ CacheInv' /\ LimitsInv' /\ NothingNew
      /\ opened' \in [Handles -> Hows] /\ mmap_allowed' \in Int /\ fd_allowed' \in Int
  BY <1>1, <1>2, <1>3, <1>4, BgGoto
<1>6. /\ mutex_' = mutex_ /\ versions' = versions /\ flush' = flush /\ compact' = compact
      /\ imm_' = imm_ /\ files_to_delete' = files_to_delete
  BY <1>1 DEF dbVars, workVars
<1>7. BgCall'
  BY <1>1, <1>4, <1>5, <1>6 DEF BgCall, FlushPhases, MergePhases, SameCall
<1>8. CallOf(bg)'
  BY <1>4, <1>5, <1>6 DEF CallOf, Searching
<1>9. InScope(bg)'
  <2>1. Scope(bg)' = (IF compact.version # 0 THEN FilesOf(compact.version) ELSE {})
    BY <1>5, <1>6 DEF Scope, FilesOf
  <2>2. \A h \in actor[bg].handles : Key(h) \in Scope(bg)'
    <3>1. Phase(bg) = "finished" => \A h \in actor[bg].handles : Key(h) # compact.builder
      BY <1>1, <1>4 DEF HandleOf
    <3>2. \A h \in actor[bg].handles : Key(h) \in Scope(bg)
      BY <1>4 DEF InScope
    <3>3. QED  BY <1>1, <1>4, <2>1, <3>1, <3>2 DEF Scope
  <2>3. QED  BY <1>4, <1>5, <2>2 DEF InScope
<1>10. FilesInv'
  <2>1. \A h \in Handles : cache_'.refs[h] > 0 => Key(h) \in Kept
    BY <1>4, <1>5 DEF FilesInv, NothingNew
  <2>2. new = "merge_failed" \/ Phase(bg) = "merge"
    BY <1>2, <1>4
  <2>3. UNCHANGED <<disk, dbVars>>
    BY <1>1
  <2>4. QED  BY <1>5, <2>1, <2>2, <2>3, FilesRephase
<1>11. UNCHANGED <<mutex_, disk, dbVars>>
  BY <1>1
<1>12. QED  BY <1>4, <1>5, <1>7, <1>8, <1>9, <1>10, <1>11, QuietStep

(***************************************************************************)
(* The background thread: steps that change the directory or the mutex.    *)
(***************************************************************************)
LEMMA GotoStep ==
  ASSUME Inv, NEW pc \in PCs \ {"open", "table"}, Goto(bg, pc), ~Finding(bg),
         UNCHANGED dbVars, UNCHANGED fileVars, disk' \subseteq Files, mutex_' \in Actors \cup {"free"},
         \A b \in Clients : mutex_' = b <=> mutex_ = b,
         FilesInv', BgCall', CallOf(bg)', InScope(bg)'
  PROVE  Inv'
<1>1. /\ actor' \in [Actors -> ActorState] /\ \A b \in Clients : actor'[b] = actor[b]
      /\ CacheInv' /\ LimitsInv' /\ SameCall(bg)
      /\ opened' \in [Handles -> Hows] /\ mmap_allowed' \in Int /\ fd_allowed' \in Int
  BY BgGoto
<1>2. /\ versions' = versions /\ memtables' = memtables
      /\ mem_' = mem_ /\ imm_' = imm_ /\ next_file_number_' = next_file_number_
      /\ pending_outputs_' = pending_outputs_ /\ bg_error_' = bg_error_ /\ flush' = flush
      /\ compact' = compact /\ files_to_delete' = files_to_delete
  BY DEF dbVars, workVars
<1>3. Typed /\ VersionRefs /\ MemRefs
  BY DEF Inv
<1>4. Typed'
  BY <1>1, <1>2, <1>3 DEF Typed
<1>5. VersionRefs' /\ MemRefs'
  BY <1>1, <1>2, <1>3, VersionsStay, MemsStay
<1>6. Lasting
  BY <1>2, <1>3 DEF Lasting, Typed
<1>7. Len(memtables') >= Len(memtables)
  <2>1. Len(memtables) \in Int
    BY <1>3 DEF Typed
  <2>2. QED  BY <1>2, <2>1
<1>8. QED  BY <1>1, <1>4, <1>5, <1>6, <1>7, BgMoves

LEMMA StartMergeStep ==
  ASSUME Inv, StartMerge
  PROVE  Inv'
<1>1. /\ actor[bg].pc = "collect" /\ files_to_delete = {} /\ actor[bg].todo = {}
      /\ mutex_' = "free" /\ Goto(bg, "merge") /\ UNCHANGED dbVars /\ UNCHANGED fileVars /\ disk' = disk
  BY DEF StartMerge, BgAt, At
<1>2. "collect" \in PCs \ {"open", "table"} /\ "merge" \in PCs \ {"open", "table"}
  BY DEF PCs
<1>3. /\ Phase(bg) = "collect" /\ ~Finding(bg) /\ BgCall /\ CallOf(bg) /\ InScope(bg) /\ FilesInv
      /\ bg \in Actors /\ bg # "free"
  BY <1>1, <1>2, BgFacts
<1>4. /\ SameCall(bg) /\ actor'[bg].todo = actor[bg].todo /\ actor'[bg].handles = actor[bg].handles
      /\ Phase(bg)' = "merge" /\ ~Finding(bg)' /\ Searching(bg)' /\ actor'[bg].file = 0
      /\ cache_' = cache_
  BY <1>1, <1>2, <1>3, BgGoto
<1>5. /\ versions' = versions /\ imm_' = imm_ /\ flush' = flush
      /\ compact' = compact /\ files_to_delete' = files_to_delete
  BY <1>1 DEF dbVars, workVars
<1>6. BgCall'
  BY <1>1, <1>3, <1>4, <1>5 DEF BgCall, FlushPhases, MergePhases, SameCall
<1>7. CallOf(bg)'
  BY <1>1, <1>3, <1>4 DEF CallOf, Searching
<1>8. InScope(bg)'
  <2>1. Scope(bg)' = Scope(bg)
    BY <1>3, <1>4, <1>5 DEF Scope, FilesOf
  <2>2. QED  BY <1>1, <1>3, <1>4, <2>1 DEF InScope
<1>9. FilesInv'
  <2>1. UNCHANGED <<disk, dbVars>>
    BY <1>1
  <2>2. \A h \in Handles : cache_'.refs[h] > 0 => Key(h) \in Kept
    BY <1>3, <1>4 DEF FilesInv
  <2>3. QED  BY <1>3, <1>4, <2>1, <2>2, FilesRephase
<1>10. \A b \in Clients : mutex_' = b <=> mutex_ = b
  <2>1. mutex_ = bg
    BY <1>3 DEF CallOf
  <2>2. QED  BY <1>1, <2>1, ActorsFinite DEF Actors
<1>11. disk' \subseteq Files
  BY <1>1 DEF Inv, Typed
<1>12. QED  BY <1>1, <1>2, <1>3, <1>6, <1>7, <1>8, <1>9, <1>10, <1>11, GotoStep

\* The table of a flush is written, or removed again; the first output of a
\* compaction is created.
LEMMA DiskSteps ==
  ASSUME Inv, BuildTable \/ TableUnusable \/ CreateOutput
  PROVE  Inv'
<1> DEFINE f == flush.output
<1>1. PICK new \in {"verify", "not_built", "merge"} :
        /\ Goto(bg, new) /\ UNCHANGED dbVars /\ UNCHANGED fileVars /\ mutex_' = mutex_
        /\ files_to_delete = {} /\ actor[bg].pc \in {"build", "verified", "create"}
        /\ \/ new = "verify" /\ actor[bg].pc = "build" /\ disk' = disk \cup {f}
           \/ new = "not_built" /\ actor[bg].pc = "build" /\ disk' = disk
           \/ new = "not_built" /\ actor[bg].pc = "verified" /\ disk' = disk \ {f}
              /\ HandleOf(bg, f) = {}
           \/ new = "merge" /\ actor[bg].pc = "create" /\ disk' = disk \cup {compact.builder}
  BY DEF BuildTable, TableUnusable, CreateOutput, BgAt, At
<1>2. new \in PCs \ {"open", "table"} /\ actor[bg].pc \in PCs \ {"open", "table"}
  BY <1>1 DEF PCs
<1>3. /\ Phase(bg) = actor[bg].pc /\ ~Finding(bg) /\ BgCall /\ CallOf(bg) /\ InScope(bg) /\ FilesInv
      /\ actor[bg].todo = {} /\ mutex_ # bg /\ bg \in Actors
  BY <1>1, <1>2, BgFacts
<1>4. /\ SameCall(bg) /\ actor'[bg].todo = actor[bg].todo /\ actor'[bg].handles = actor[bg].handles
      /\ Phase(bg)' = new /\ ~Finding(bg)' /\ Searching(bg)' /\ actor'[bg].file = 0
      /\ cache_' = cache_
  BY <1>1, <1>2, <1>3, BgGoto
<1>5. /\ versions' = versions /\ imm_' = imm_ /\ flush' = flush /\ pending_outputs_' = pending_outputs_
      /\ compact' = compact /\ files_to_delete' = files_to_delete /\ next_file_number_' = next_file_number_
  BY <1>1 DEF dbVars, workVars
<1>6. BgCall'
  BY <1>1, <1>3, <1>4, <1>5 DEF BgCall, FlushPhases, MergePhases, SameCall
<1>7. CallOf(bg)'
  BY <1>1, <1>3, <1>4 DEF CallOf, Searching
<1>8. InScope(bg)'
  <2>1. Scope(bg)' = (IF compact.version # 0 THEN FilesOf(compact.version) ELSE {})
    BY <1>1, <1>4, <1>5 DEF Scope, FilesOf
  <2>2. \A h \in actor[bg].handles : Key(h) \in Scope(bg)'
    <3>1. Phase(bg) = "verified" => \A h \in actor[bg].handles : Key(h) # f
      BY <1>1, <1>3 DEF HandleOf
    <3>2. \A h \in actor[bg].handles : Key(h) \in Scope(bg)
      BY <1>3 DEF InScope
    <3>3. QED  BY <1>1, <1>3, <2>1, <3>1, <3>2 DEF Scope
  <2>3. QED  BY <1>1, <1>3, <1>4, <2>2 DEF InScope
<1>9. /\ (f \in Files /\ f < next_file_number_) \/ new = "merge"
      /\ new = "merge" => compact.builder \in Files /\ compact.builder < next_file_number_
                          /\ compact.builder \in compact.outputs
  BY <1>1, <1>3 DEF BgCall, FlushPhases, FilesInv, Inv, Typed
<1>10. disk' \subseteq Files /\ \A g \in disk' : g < next_file_number_
  BY <1>1, <1>3, <1>9 DEF Inv, Typed, FilesInv
<1>11. FilesInv'
  <2>1. Kept = disk /\ Kept' = disk'
    BY <1>1, <1>5 DEF Kept
  <2>2. \A g \in disk : g \in disk' \/ g = f
    BY <1>1
  <2>3. \A v : FilesOf(v)' = FilesOf(v)
    BY <1>5 DEF FilesOf
  <2>4. \A v \in 1..Len(versions) :
          /\ \A g \in FilesOf(v) : g < next_file_number_ /\ g # f /\ g \notin compact.outputs
          /\ versions[v].refs > 0 => FilesOf(v) \subseteq disk'
    BY <1>3, <2>1, <2>2 DEF FilesInv
  <2>5. \A g \in compact.outputs :
          g < next_file_number_ /\ g # f /\ g \in pending_outputs_ /\ g \in disk'
    BY <1>1, <1>3, <2>1, <2>2 DEF FilesInv
  <2>6. \A h \in Handles : cache_.refs[h] > 0 => Key(h) \in disk'
    <3>1. \A h \in Handles : cache_.refs[h] > 0 => Key(h) \in disk
      BY <1>3, <2>1 DEF FilesInv
    <3>2. CASE actor[bg].pc = "verified"
      <4>1. Unseen(f)
        BY <1>1, <1>3, <3>2 DEF FilesInv
      <4>2. QED  BY <2>2, <3>1, <4>1 DEF Unseen
    <3>3. CASE actor[bg].pc # "verified"
      BY <1>1, <3>1, <3>3
    <3>4. QED  BY <3>2, <3>3
  <2>7. /\ new = "verify" => f \in disk' /\ Unseen(f)
    BY <1>1, <1>3 DEF FilesInv
  <2>8. Unseen(flush.output)' <=> Unseen(f)
    BY <1>4, <1>5 DEF Unseen
  <2>9. f < next_file_number_
    BY <1>3 DEF FilesInv
  <2>10. QED  BY <1>1, <1>4, <1>5, <1>10, <2>1, <2>3, <2>4, <2>5, <2>6, <2>7, <2>8, <2>9 DEF FilesInv
<1>12. mutex_' \in Actors \cup {"free"} /\ \A b \in Clients : mutex_' = b <=> mutex_ = b
  BY <1>1 DEF Inv, Typed
<1>13. QED  BY <1>1, <1>2, <1>3, <1>6, <1>7, <1>8, <1>10, <1>11, <1>12, GotoStep

LEMMA DeleteFileStep ==
  ASSUME Inv, DeleteFile
  PROVE  Inv'
<1>1. PICK f \in files_to_delete : disk' = disk \ {f} /\ files_to_delete' = files_to_delete \ {f}
  BY DEF DeleteFile
<1>2. /\ UNCHANGED fileVars /\ mutex_' = mutex_ /\ actor' = actor
      /\ versions' = versions /\ memtables' = memtables /\ mem_' = mem_ /\ imm_' = imm_
      /\ next_file_number_' = next_file_number_ /\ pending_outputs_' = pending_outputs_
      /\ bg_error_' = bg_error_ /\ flush' = flush /\ compact' = compact
      /\ cache_' = cache_ /\ opened' = opened /\ mmap_allowed' = mmap_allowed /\ fd_allowed' = fd_allowed
  BY DEF DeleteFile, fileVars
<1>3. Typed /\ CallsInv /\ ScopeInv /\ FilesInv /\ VersionRefs /\ MemRefs /\ BgCall /\ CallOf(bg) /\ InScope(bg)
  BY ActorsFinite DEF Inv, CallsInv, ScopeInv
<1>4. Typed'
  BY <1>1, <1>2, <1>3 DEF Typed
<1>5. VersionRefs' /\ MemRefs'
  BY <1>2, <1>3, VersionsStay, MemsStay
<1>6. CacheInv' /\ LimitsInv'
  <2>1. StaysTables
    BY <1>2 DEF StaysTables
  <2>2. QED  BY <2>1, TablesStay DEF Inv
<1>7. Phase(bg)' = Phase(bg) /\ Finding(bg)' = Finding(bg) /\ Scope(bg)' = Scope(bg)
  BY <1>2 DEF Phase, Finding, Scope, FilesOf
<1>8. BgCall' /\ CallOf(bg)' /\ InScope(bg)'
  <2>1. BgCall'
    BY <1>1, <1>2, <1>3, <1>7 DEF BgCall
  <2>2. CallOf(bg)' /\ InScope(bg)'
    BY <1>2, <1>3, <1>7 DEF CallOf, InScope
  <2>3. QED  BY <2>1, <2>2
<1>9. FilesInv'
  <2>1. Kept' = Kept
    BY <1>1 DEF Kept
  <2>2. Phase(bg) \in {"idle", "merge"}
    BY <1>1, <1>3 DEF BgCall
  <2>3. \A v : FilesOf(v)' = FilesOf(v)
    BY <1>2 DEF FilesOf
  <2>4. files_to_delete' \subseteq disk' /\ \A g \in disk' : g < next_file_number_
    BY <1>1, <1>3 DEF FilesInv
  <2>5. QED  BY <1>2, <1>3, <1>7, <2>1, <2>2, <2>3, <2>4 DEF FilesInv
<1>10. Lasting
  BY <1>2, <1>3 DEF Lasting, Typed
<1>11. Len(memtables') >= Len(memtables)
  <2>1. Len(memtables) \in Int
    BY <1>3 DEF Typed
  <2>2. QED  BY <1>2, <2>1
<1>12. \A b \in Clients : actor'[b] = actor[b] /\ (mutex_' = b <=> mutex_ = b)
  BY <1>2
<1>13. QED  BY <1>4, <1>5, <1>6, <1>8, <1>9, <1>10, <1>11, <1>12, BgMoves

(***************************************************************************)
(* The background thread: steps that take or drop a reference, with no     *)
(* change to the tables that are open.                                     *)
(***************************************************************************)
\* A reference on v, and one less on w; 0 stands for none.
Given(v, w) ==
  \A u \in 1..Len(versions) : versions'[u].refs = versions[u].refs + One(v = u) - One(w = u)

LEMMA VersionRefsGive ==
  ASSUME Inv, \A b \in Clients : actor'[b] = actor[b], Len(versions') = Len(versions),
         NEW v, NEW w, Given(v, w),
         \/ flush'.base = v /\ flush.base = w /\ compact'.version = compact.version
         \/ compact'.version = v /\ compact.version = w /\ flush'.base = flush.base
  PROVE  VersionRefs'
<1>1. current_' = current_
  BY DEF current_
<1>2. versions \in Seq(VersionState)
  BY DEF Inv, Typed
<1>3. ASSUME NEW u \in 1..Len(versions)
      PROVE  versions'[u].refs = versions[u].refs
               + (One(u = current_') - One(u = current_))
               + (One(flush'.base = u) - One(flush.base = u))
               + (One(compact'.version = u) - One(compact.version = u))
  <2> DEFINE x == versions[u].refs
             c == One(u = current_)
             p == One(v = u)
             q == One(w = u)
             f0 == One(flush.base = u)
             f1 == One(flush'.base = u)
             m0 == One(compact.version = u)
             m1 == One(compact'.version = u)
  <2>1. x \in Int
    <3>1. versions[u] \in VersionState
      BY <1>2
    <3>2. QED  BY <3>1 DEF VersionState
  <2>2. c \in Int /\ p \in Int /\ q \in Int /\ f0 \in Int /\ f1 \in Int /\ m0 \in Int /\ m1 \in Int
    BY DEF One
  <2>3. \/ f1 = p /\ f0 = q /\ m1 = m0
        \/ m1 = p /\ m0 = q /\ f1 = f0
    OBVIOUS
  <2>4. versions'[u].refs = x + p - q
    BY DEF Given
  <2>5. One(u = current_') = c
    BY <1>1
  <2> HIDE DEF x, c, p, q, f0, f1, m0, m1
  <2>6. versions'[u].refs = x + (c - c) + (f1 - f0) + (m1 - m0)
    BY <2>1, <2>2, <2>3, <2>4
  <2>7. QED  BY <2>5, <2>6 DEF x, c, f0, f1, m0, m1
<1>4. QED  BY <1>3, VersionRefsShift

LEMMA FilesOfShrinks ==
  ASSUME Shrinks
  PROVE  /\ Len(versions') = Len(versions)
         /\ \A v \in 1..Len(versions) :
              /\ FilesOf(v)' \subseteq FilesOf(v)
              /\ versions'[v].refs > 0 => versions[v].refs > 0 /\ FilesOf(v)' = FilesOf(v)
BY DEF Shrinks, FilesOf

LEMMA BgDbStep ==
  ASSUME Inv, NEW pc \in PCs \ {"open", "table", "collect"}, Goto(bg, pc),
         actor[bg].pc \in PCs \ {"open", "table", "collect"}, Shrinks,
         UNCHANGED <<disk, memtables, mem_, imm_, mutex_, files_to_delete>>, UNCHANGED fileVars,
         pending_outputs_' \subseteq Files, next_file_number_' \in 1..(MaxFiles + 1),
         flush' \in [output : Files \cup {0}, base : Nat],
         compact' \in [version : Nat, outputs : SUBSET Files, builder : Files \cup {0}],
         bg_error_' \in BOOLEAN,
         VersionRefs', FilesInv', BgCall',
         Phase(bg)' \notin {"verified", "finished"},
         \A h \in actor[bg].handles : Key(h) \in Scope(bg)'
  PROVE  Inv'
<1>1. /\ Phase(bg) = actor[bg].pc /\ ~Finding(bg) /\ CallOf(bg) /\ actor[bg].todo = {} /\ mutex_ # bg
      /\ bg \in Actors
  BY BgFacts
<1>2. /\ actor' \in [Actors -> ActorState] /\ \A b \in Clients : actor'[b] = actor[b]
      /\ CacheInv' /\ LimitsInv' /\ SameCall(bg)
      /\ opened' \in [Handles -> Hows] /\ mmap_allowed' \in Int /\ fd_allowed' \in Int
      /\ actor'[bg].todo = actor[bg].todo /\ actor'[bg].handles = actor[bg].handles
      /\ Phase(bg)' = pc /\ ~Finding(bg)' /\ Searching(bg)' /\ actor'[bg].file = 0
  BY <1>1, BgGoto
<1>3. /\ disk' = disk /\ memtables' = memtables /\ mem_' = mem_ /\ imm_' = imm_ /\ mutex_' = mutex_
      /\ files_to_delete' = files_to_delete
  OBVIOUS
<1>4. Typed /\ MemRefs
  BY DEF Inv
<1>5. versions' \in Seq(VersionState) /\ versions' # <<>>
  BY <1>4 DEF Shrinks, Typed
<1>6. Typed'
  BY <1>2, <1>3, <1>4, <1>5 DEF Typed
<1>7. MemRefs'
  BY <1>2, <1>3, <1>4, MemsStay
<1>8. CallOf(bg)'
  BY <1>1, <1>2, <1>3 DEF CallOf, Searching
<1>9. InScope(bg)'
  BY <1>1, <1>2 DEF InScope
<1>10. Len(memtables') >= Len(memtables)
  <2>1. Len(memtables) \in Int
    BY <1>4 DEF Typed
  <2>2. QED  BY <1>3, <2>1
<1>11. QED  BY <1>2, <1>3, <1>6, <1>7, <1>8, <1>9, <1>10, ShrinksLasts, BgMoves

LEMMA BeginFlushStep ==
  ASSUME Inv, BeginFlush
  PROVE  Inv'
<1> DEFINE n == next_file_number_
<1>1. /\ mutex_ = "free" /\ imm_ # 0 /\ actor[bg].pc \in {"merge", "idle"} /\ files_to_delete = {}
      /\ n <= MaxFiles /\ next_file_number_' = n + 1
      /\ pending_outputs_' = pending_outputs_ \cup {n}
      /\ flush' = [output |-> n, base |-> current_] /\ versions' = RefVersion(versions, current_)
      /\ Goto(bg, "build") /\ UNCHANGED fileVars
      /\ mutex_' = mutex_ /\ disk' = disk /\ memtables' = memtables /\ mem_' = mem_ /\ imm_' = imm_
      /\ bg_error_' = bg_error_ /\ compact' = compact /\ files_to_delete' = files_to_delete
  BY DEF BeginFlush, Locked, BgAt, At, NewFileNumber
<1>2. "build" \in PCs \ {"open", "table", "collect"} /\ actor[bg].pc \in PCs \ {"open", "table", "collect"}
  BY <1>1 DEF PCs
<1>3. /\ Phase(bg) = actor[bg].pc /\ ~Finding(bg) /\ BgCall /\ CallOf(bg) /\ InScope(bg) /\ FilesInv
  BY <1>1, <1>2, BgFacts
<1>4. /\ SameCall(bg) /\ Phase(bg)' = "build" /\ ~Finding(bg)' /\ cache_' = cache_
      /\ \A b \in Clients : actor'[b] = actor[b]
  BY <1>1, <1>2, <1>3, BgGoto
<1>5. Typed /\ n \in 1..(MaxFiles + 1) /\ versions \in Seq(VersionState)
  BY DEF Inv, Typed
<1>6. n \in Files /\ n + 1 \in 1..(MaxFiles + 1) /\ n \in Nat
  BY <1>1, <1>5, ReadersAssumption DEF Files
<1>7. current_ \in 1..Len(versions) /\ versions[current_].refs > 0 /\ current_ \in Nat /\ current_ # 0
  <2>1. current_ \in 1..Len(versions) /\ versions[current_].refs > 0
    BY Live
  <2>2. QED  BY <2>1
<1>8. Shrinks
  BY <1>1, <1>5, <1>7, RefShrinks
<1>9. flush.output = 0 /\ flush.base = 0
  BY <1>1, <1>3 DEF BgCall, FlushPhases
<1>10. flush' \in [output : Files \cup {0}, base : Nat] /\ flush'.output = n /\ flush'.base = current_
  BY <1>1, <1>6, <1>7
<1>11. VersionRefs'
  <2>1. Given(current_, 0)
    BY <1>1, <1>5, <1>7, VersionHeld DEF Given
  <2>2. QED  BY <1>1, <1>4, <1>8, <1>9, <1>10, <2>1, VersionRefsGive DEF Shrinks
<1>12. BgCall'
  <2>1. flush'.base \in 0..Len(versions') /\ compact'.version \in 0..Len(versions')
    BY <1>1, <1>3, <1>7, <1>8, <1>10 DEF BgCall, Shrinks
  <2>2. flush'.output # 0 /\ flush'.base # 0
    BY <1>6, <1>7, <1>10 DEF Files
  <2>3. QED  BY <1>1, <1>3, <1>4, <2>1, <2>2 DEF BgCall, FlushPhases, MergePhases, SameCall
<1>13. \A h \in actor[bg].handles : Key(h) \in Scope(bg)'
  <2>1. compact.version # 0 => FilesOf(compact.version)' = FilesOf(compact.version)
    <3>1. compact.version # 0 => versions'[compact.version].level0 = versions[compact.version].level0
                              /\ versions'[compact.version].level1 = versions[compact.version].level1
      BY <1>1, <1>5, <1>7, Live, RefVersionIs
    <3>2. QED  BY <1>1, <3>1 DEF FilesOf
  <2>2. Scope(bg)' = Scope(bg)
    BY <1>1, <1>3, <1>4, <2>1 DEF Scope
  <2>3. QED  BY <1>3, <2>2 DEF InScope
<1>14. FilesInv'
  <2>1. \A f \in Files : f < n => f < n + 1 /\ f # n
    BY <1>6 DEF Files
  <2>2. disk \subseteq Files /\ \A v \in 1..Len(versions) : FilesOf(v) \subseteq Files
    <3>1. \A v \in 1..Len(versions) : versions[v] \in VersionState
      BY <1>5
    <3>2. QED  BY <1>5, <3>1 DEF Typed, FilesOf, VersionState
  <2>3. Kept' = Kept
    BY <1>1 DEF Kept
  <2>4. \A f \in disk : f < n + 1 /\ f # n
    BY <1>3, <2>1, <2>2 DEF FilesInv
  <2>5. \A v \in 1..Len(versions') :
          /\ \A f \in FilesOf(v)' : f < n + 1 /\ f # n /\ f \notin compact.outputs
          /\ versions'[v].refs > 0 => FilesOf(v)' \subseteq Kept
    BY <1>3, <1>8, <2>1, <2>2, FilesOfShrinks DEF FilesInv
  <2>6. compact.outputs \subseteq Files
    BY <1>5 DEF Typed
  <2>7. \A f \in compact.outputs : f < n + 1 /\ f # n /\ f \in pending_outputs_' /\ f \in Kept
    BY <1>1, <1>3, <2>1, <2>6 DEF FilesInv
  <2>8. n < n + 1
    BY <1>6
  <2>9. \A h \in Handles : cache_.refs[h] > 0 => Key(h) \in Kept /\ Key(h) # n
    BY <1>3, <2>4 DEF FilesInv, Kept
  <2>10. Unseen(flush.output)'
    BY <1>4, <1>10, <2>9 DEF Unseen
  <2>11. files_to_delete' \subseteq disk'
    BY <1>1
  <2>12. QED
    BY <1>1, <1>4, <1>10, <2>3, <2>4, <2>5, <2>7, <2>8, <2>9, <2>10, <2>11 DEF FilesInv
<1>15. /\ pending_outputs_' \subseteq Files /\ next_file_number_' \in 1..(MaxFiles + 1)
       /\ compact' \in [version : Nat, outputs : SUBSET Files, builder : Files \cup {0}]
       /\ bg_error_' \in BOOLEAN
  BY <1>1, <1>5, <1>6 DEF Typed
<1>16. UNCHANGED <<disk, memtables, mem_, imm_, mutex_, files_to_delete>>
  BY <1>1
<1>17. QED
  BY <1>1, <1>2, <1>4, <1>8, <1>10, <1>11, <1>12, <1>13, <1>14, <1>15, <1>16, BgDbStep

LEMMA FlushBuiltStep ==
  ASSUME Inv, FlushBuilt
  PROVE  Inv'
<1>1. /\ mutex_ = "free" /\ actor[bg].pc = "built" /\ files_to_delete = {}
      /\ pending_outputs_' = pending_outputs_ \ {flush.output}
      /\ versions' = UnrefVersion(versions, flush.base) /\ flush' = [flush EXCEPT !.base = 0]
      /\ Goto(bg, "flush_manifest") /\ UNCHANGED fileVars
      /\ mutex_' = mutex_ /\ disk' = disk /\ memtables' = memtables /\ mem_' = mem_ /\ imm_' = imm_
      /\ next_file_number_' = next_file_number_
      /\ bg_error_' = bg_error_ /\ compact' = compact /\ files_to_delete' = files_to_delete
  BY DEF FlushBuilt, Locked, BgAt, At
<1>2. "flush_manifest" \in PCs \ {"open", "table", "collect"} /\ actor[bg].pc \in PCs \ {"open", "table", "collect"}
  BY <1>1 DEF PCs
<1>3. /\ Phase(bg) = "built" /\ ~Finding(bg) /\ BgCall /\ CallOf(bg) /\ InScope(bg) /\ FilesInv
  BY <1>1, <1>2, BgFacts
<1>4. /\ SameCall(bg) /\ Phase(bg)' = "flush_manifest" /\ ~Finding(bg)' /\ cache_' = cache_
      /\ \A b \in Clients : actor'[b] = actor[b]
  BY <1>1, <1>2, <1>3, BgGoto
<1>5. Typed /\ versions \in Seq(VersionState) /\ flush \in [output : Files \cup {0}, base : Nat]
  BY DEF Inv, Typed
<1>6. flush.base \in 1..Len(versions) /\ flush.base # 0 /\ flush.output # 0
  BY <1>3, Live DEF BgCall, FlushPhases
<1>7. flush' \in [output : Files \cup {0}, base : Nat] /\ flush'.output = flush.output /\ flush'.base = 0
  BY <1>1, <1>5
<1>8. Shrinks
  BY <1>1, <1>5, <1>6, UnrefShrinks
<1>9. VersionRefs'
  <2>1. Given(0, flush.base)
    BY <1>1, <1>5, <1>6, VersionHeld DEF Given
  <2>2. QED  BY <1>1, <1>4, <1>7, <1>8, <2>1, VersionRefsGive DEF Shrinks
<1>10. BgCall'
  <2>1. flush'.base \in 0..Len(versions') /\ compact'.version \in 0..Len(versions')
    BY <1>1, <1>3, <1>7, <1>8 DEF BgCall, Shrinks
  <2>2. QED  BY <1>1, <1>3, <1>4, <1>6, <1>7, <2>1 DEF BgCall, FlushPhases, MergePhases, SameCall
<1>11. \A h \in actor[bg].handles : Key(h) \in Scope(bg)'
  <2>1. compact.version # 0 => FilesOf(compact.version)' = FilesOf(compact.version)
    <3> HAVE compact.version # 0
    <3>1. compact.version \in 1..Len(versions) /\ compact.version \in 1..Len(versions')
      BY <1>8, Live DEF Shrinks
    <3>2. versions'[compact.version].refs > 0
      BY <1>1, <1>9, <3>1, LiveNext
    <3>3. FilesOf(compact.version)' = versions'[compact.version].level0 \cup versions'[compact.version].level1
      BY <1>1 DEF FilesOf
    <3>4. QED  BY <1>8, <3>1, <3>2, <3>3 DEF Shrinks, FilesOf
  <2>2. Scope(bg)' = Scope(bg)
    BY <1>1, <1>3, <1>4, <2>1 DEF Scope
  <2>3. QED  BY <1>3, <2>2 DEF InScope
<1>12. FilesInv'
  <2>1. Kept' = Kept
    BY <1>1 DEF Kept
  <2>2. \A v \in 1..Len(versions') :
          /\ \A f \in FilesOf(v)' : f < next_file_number_ /\ f # flush.output /\ f \notin compact.outputs
          /\ versions'[v].refs > 0 => FilesOf(v)' \subseteq Kept
    BY <1>3, <1>8, FilesOfShrinks DEF FilesInv
  <2>3. \A f \in compact.outputs : f < next_file_number_ /\ f # flush.output /\ f \in pending_outputs_' /\ f \in Kept
    BY <1>1, <1>3 DEF FilesInv
  <2>4. QED  BY <1>1, <1>3, <1>4, <1>7, <2>1, <2>2, <2>3 DEF FilesInv
<1>13. /\ pending_outputs_' \subseteq Files /\ next_file_number_' \in 1..(MaxFiles + 1)
       /\ compact' \in [version : Nat, outputs : SUBSET Files, builder : Files \cup {0}]
       /\ bg_error_' \in BOOLEAN
  BY <1>1, <1>5 DEF Typed
<1>14. UNCHANGED <<disk, memtables, mem_, imm_, mutex_, files_to_delete>>
  BY <1>1
<1>15. QED
  BY <1>1, <1>2, <1>4, <1>7, <1>8, <1>9, <1>10, <1>11, <1>12, <1>13, <1>14, BgDbStep

LEMMA FlushFailsStep ==
  ASSUME Inv, FlushFails
  PROVE  Inv'
<1> DEFINE new == IF Merging THEN "merge" ELSE "idle"
<1>1. /\ mutex_ = "free" /\ actor[bg].pc \in {"not_built", "flush_manifest"} /\ files_to_delete = {}
      /\ bg_error_' = TRUE /\ pending_outputs_' = pending_outputs_ \ {flush.output}
      /\ versions' = IF flush.base = 0 THEN versions ELSE UnrefVersion(versions, flush.base)
      /\ flush' = NoFlush /\ Goto(bg, new) /\ UNCHANGED fileVars
      /\ mutex_' = mutex_ /\ disk' = disk /\ memtables' = memtables /\ mem_' = mem_ /\ imm_' = imm_
      /\ next_file_number_' = next_file_number_ /\ compact' = compact /\ files_to_delete' = files_to_delete
  BY DEF FlushFails, Resume, Locked, BgAt, At
<1>2. new \in {"merge", "idle"} /\ (new = "merge" <=> compact.version # 0)
  BY DEF Merging
<1> HIDE DEF new
<1>3. new \in PCs \ {"open", "table", "collect"} /\ actor[bg].pc \in PCs \ {"open", "table", "collect"}
  BY <1>1, <1>2 DEF PCs
<1>4. /\ Phase(bg) = actor[bg].pc /\ ~Finding(bg) /\ BgCall /\ CallOf(bg) /\ InScope(bg) /\ FilesInv
  BY <1>1, <1>3, BgFacts
<1>5. /\ SameCall(bg) /\ Phase(bg)' = new /\ ~Finding(bg)' /\ cache_' = cache_
      /\ \A b \in Clients : actor'[b] = actor[b]
  BY <1>1, <1>3, <1>4, BgGoto
<1>6. Typed /\ versions \in Seq(VersionState) /\ flush \in [output : Files \cup {0}, base : Nat]
  BY DEF Inv, Typed
<1>7. flush' \in [output : Files \cup {0}, base : Nat] /\ flush'.output = 0 /\ flush'.base = 0
  BY <1>1 DEF NoFlush
<1>8. Shrinks /\ VersionRefs'
  <2>1. CASE flush.base = 0
    <3>1. versions' = versions
      BY <1>1, <2>1
    <3>2. Shrinks
      BY <1>6, <3>1 DEF Shrinks
    <3>3. VersionRefs'
      BY <1>1, <1>5, <1>7, <2>1, <3>1, VersionsStay DEF Inv
    <3>4. QED  BY <3>2, <3>3
  <2>2. CASE flush.base # 0
    <3>1. versions' = UnrefVersion(versions, flush.base) /\ flush.base \in 1..Len(versions)
      BY <1>1, <2>2, Live
    <3>2. Shrinks
      BY <1>6, <3>1, UnrefShrinks
    <3>3. Given(0, flush.base)
      BY <1>6, <3>1, VersionHeld DEF Given
    <3>4. QED  BY <1>1, <1>5, <1>7, <3>2, <3>3, VersionRefsGive DEF Shrinks
  <2>3. QED  BY <2>1, <2>2
<1>9. BgCall'
  <2>1. flush'.base \in 0..Len(versions') /\ compact'.version \in 0..Len(versions')
    BY <1>1, <1>4, <1>7, <1>8 DEF BgCall, Shrinks
  <2>2. QED  BY <1>1, <1>2, <1>4, <1>5, <1>7, <2>1 DEF BgCall, FlushPhases, MergePhases, SameCall
<1>10. \A h \in actor[bg].handles : Key(h) \in Scope(bg)'
  <2>1. compact.version # 0 => FilesOf(compact.version)' = FilesOf(compact.version)
    <3> HAVE compact.version # 0
    <3>1. compact.version \in 1..Len(versions) /\ compact.version \in 1..Len(versions')
      BY <1>8, Live DEF Shrinks
    <3>2. versions'[compact.version].refs > 0
      BY <1>1, <1>8, <3>1, LiveNext
    <3>3. FilesOf(compact.version)' = versions'[compact.version].level0 \cup versions'[compact.version].level1
      BY <1>1 DEF FilesOf
    <3>4. QED  BY <1>8, <3>1, <3>2, <3>3 DEF Shrinks, FilesOf
  <2>2. Scope(bg)' = Scope(bg)
    BY <1>1, <1>2, <1>4, <1>5, <2>1 DEF Scope
  <2>3. QED  BY <1>4, <2>2 DEF InScope
<1>11. FilesInv'
  <2>1. Kept' = Kept
    BY <1>1 DEF Kept
  <2>2. \A v \in 1..Len(versions) : \A f \in FilesOf(v) : f # 0
    <3>1. \A v \in 1..Len(versions) : versions[v] \in VersionState
      BY <1>6
    <3>2. \A v \in 1..Len(versions) : FilesOf(v) \subseteq Files
      BY <3>1 DEF FilesOf, VersionState
    <3>3. 0 \notin Files
      BY ReadersAssumption DEF Files
    <3>4. QED  BY <3>2, <3>3
  <2>3. \A v \in 1..Len(versions') :
          /\ \A f \in FilesOf(v)' : f < next_file_number_ /\ f # 0 /\ f \notin compact.outputs
          /\ versions'[v].refs > 0 => FilesOf(v)' \subseteq Kept
    BY <1>4, <1>8, <2>2, FilesOfShrinks DEF FilesInv
  <2>4. \A f \in compact.outputs : f < next_file_number_ /\ f # 0 /\ f \in pending_outputs_' /\ f \in Kept
    <3>1. 0 \notin compact.outputs
      BY <1>6, ReadersAssumption DEF Typed, Files
    <3>2. QED  BY <1>1, <1>4, <3>1 DEF FilesInv
  <2>5. 0 < next_file_number_
    BY <1>6 DEF Typed
  <2>6. QED  BY <1>1, <1>2, <1>4, <1>5, <1>7, <2>1, <2>3, <2>4, <2>5 DEF FilesInv
<1>12. /\ pending_outputs_' \subseteq Files /\ next_file_number_' \in 1..(MaxFiles + 1)
       /\ compact' \in [version : Nat, outputs : SUBSET Files, builder : Files \cup {0}]
       /\ bg_error_' \in BOOLEAN
  BY <1>1, <1>6 DEF Typed
<1>13. UNCHANGED <<disk, memtables, mem_, imm_, mutex_, files_to_delete>>
  BY <1>1
<1>14. Phase(bg)' \notin {"verified", "finished"}
  BY <1>2, <1>5
<1>15. QED
  BY <1>1, <1>3, <1>7, <1>8, <1>9, <1>10, <1>11, <1>12, <1>13, <1>14, BgDbStep

LEMMA OpenCompactionOutputFileStep ==
  ASSUME Inv, OpenCompactionOutputFile
  PROVE  Inv'
<1> DEFINE n == next_file_number_
<1>1. /\ actor[bg].pc = "merge" /\ files_to_delete = {} /\ compact.builder = 0
      /\ n <= MaxFiles /\ next_file_number_' = n + 1
      /\ pending_outputs_' = pending_outputs_ \cup {n}
      /\ compact' = [compact EXCEPT !.builder = next_file_number_, !.outputs = @ \cup {next_file_number_}]
      /\ Goto(bg, "create") /\ UNCHANGED fileVars /\ versions' = versions /\ flush' = flush
      /\ mutex_' = mutex_ /\ disk' = disk /\ memtables' = memtables /\ mem_' = mem_ /\ imm_' = imm_
      /\ bg_error_' = bg_error_ /\ files_to_delete' = files_to_delete
  BY DEF OpenCompactionOutputFile, BgAt, At, NewFileNumber
<1>2. "create" \in PCs \ {"open", "table", "collect"} /\ actor[bg].pc \in PCs \ {"open", "table", "collect"}
  BY <1>1 DEF PCs
<1>3. /\ Phase(bg) = "merge" /\ ~Finding(bg) /\ BgCall /\ CallOf(bg) /\ InScope(bg) /\ FilesInv
  BY <1>1, <1>2, BgFacts
<1>4. /\ SameCall(bg) /\ Phase(bg)' = "create" /\ ~Finding(bg)' /\ cache_' = cache_
      /\ \A b \in Clients : actor'[b] = actor[b]
  BY <1>1, <1>2, <1>3, BgGoto
<1>5. /\ Typed /\ n \in 1..(MaxFiles + 1) /\ versions \in Seq(VersionState) /\ disk \subseteq Files
      /\ compact \in [version : Nat, outputs : SUBSET Files, builder : Files \cup {0}]
      /\ flush \in [output : Files \cup {0}, base : Nat]
  BY DEF Inv, Typed
<1>6. n \in Files /\ n + 1 \in 1..(MaxFiles + 1) /\ n \in Nat /\ n # 0
  BY <1>1, <1>5, ReadersAssumption DEF Files
<1>7. /\ compact' \in [version : Nat, outputs : SUBSET Files, builder : Files \cup {0}]
      /\ compact'.version = compact.version /\ compact'.builder = n
      /\ compact'.outputs = compact.outputs \cup {n}
  <2> HIDE DEF n
  <2>1. compact.outputs \cup {n} \subseteq Files
    BY <1>5, <1>6
  <2> DEFINE z == compact
  <2>2. z \in [version : Nat, outputs : SUBSET Files, builder : Files \cup {0}]
    BY <1>5
  <2>3. compact' = [z EXCEPT !.builder = n, !.outputs = z.outputs \cup {n}]
    BY <1>1 DEF n
  <2> HIDE DEF z
  <2>4. compact'.version = z.version /\ compact'.builder = n /\ compact'.outputs = z.outputs \cup {n}
    BY <2>2, <2>3
  <2>5. compact' \in [version : Nat, outputs : SUBSET Files, builder : Files \cup {0}]
    BY <1>6, <2>1, <2>2, <2>3 DEF z
  <2>6. QED  BY <2>4, <2>5 DEF z
<1>8. Shrinks
  BY <1>1, <1>5 DEF Shrinks
<1>9. VersionRefs'
  BY <1>1, <1>4, <1>7, VersionsStay DEF Inv
<1>10. BgCall'
  <2>1. compact'.builder \in compact'.outputs /\ compact'.builder # 0
    BY <1>6, <1>7
  <2>2. compact'.version # 0
    BY <1>3, <1>7 DEF BgCall, MergePhases
  <2>3. QED  BY <1>1, <1>3, <1>4, <1>7, <2>1, <2>2 DEF BgCall, FlushPhases, MergePhases, SameCall
<1>11. \A h \in actor[bg].handles : Key(h) \in Scope(bg)'
  <2>1. Scope(bg)' = Scope(bg)
    BY <1>1, <1>3, <1>4, <1>7 DEF Scope, FilesOf
  <2>2. QED  BY <1>3, <2>1 DEF InScope
<1>12. FilesInv'
  <2>1. \A f \in Files \cup {0} : f < n => f < n + 1 /\ f # n
    BY <1>6 DEF Files
  <2>2. \A v \in 1..Len(versions) : FilesOf(v) \subseteq Files
    <3>1. \A v \in 1..Len(versions) : versions[v] \in VersionState
      BY <1>5
    <3>2. QED  BY <3>1 DEF FilesOf, VersionState
  <2>3. Kept' = Kept /\ \A v : FilesOf(v)' = FilesOf(v)
    BY <1>1 DEF Kept, FilesOf
  <2>4. \A f \in disk : f < n + 1
    BY <1>3, <1>5, <2>1 DEF FilesInv
  <2>5. \A v \in 1..Len(versions) :
          /\ \A f \in FilesOf(v) : f < n + 1 /\ f # flush.output /\ f \notin compact.outputs \cup {n}
          /\ versions[v].refs > 0 => FilesOf(v) \subseteq Kept
    BY <1>3, <2>1, <2>2 DEF FilesInv
  <2>6. flush.output < n + 1 /\ flush.output # n
    BY <1>3, <1>5, <2>1 DEF FilesInv
  <2>7. \A f \in compact.outputs : f < n + 1 /\ f # flush.output /\ f \in pending_outputs_' /\ f \in Kept
    BY <1>1, <1>3, <1>5, <2>1 DEF FilesInv
  <2>8. n < n + 1 /\ n \in pending_outputs_'
    BY <1>1, <1>6
  <2>9. files_to_delete' \subseteq disk' /\ disk' = disk
    BY <1>1
  <2>10. \A h \in Handles : cache_.refs[h] > 0 => Key(h) \in Kept
    BY <1>3 DEF FilesInv
  <2>11. \A f \in compact'.outputs :
           /\ f < n + 1 /\ f # flush.output /\ f \in pending_outputs_'
           /\ f \in Kept \/ f = n
    BY <1>7, <2>6, <2>7, <2>8
  <2>12. QED
    BY <1>1, <1>4, <1>7, <2>3, <2>4, <2>5, <2>6, <2>9, <2>10, <2>11 DEF FilesInv
<1>13. /\ pending_outputs_' \subseteq Files /\ next_file_number_' \in 1..(MaxFiles + 1)
       /\ flush' \in [output : Files \cup {0}, base : Nat] /\ bg_error_' \in BOOLEAN
  BY <1>1, <1>5, <1>6 DEF Typed
<1>14. UNCHANGED <<disk, memtables, mem_, imm_, mutex_, files_to_delete>>
  BY <1>1
<1>15. QED
  BY <1>1, <1>2, <1>4, <1>7, <1>8, <1>9, <1>10, <1>11, <1>12, <1>13, <1>14, BgDbStep

LEMMA CompactionFailsStep ==
  ASSUME Inv, CompactionFails
  PROVE  Inv'
<1>1. /\ mutex_ = "free" /\ actor[bg].pc \in {"merged", "merge_failed"} /\ files_to_delete = {}
      /\ actor[bg].handles = {} /\ bg_error_' = TRUE
      /\ pending_outputs_' = pending_outputs_ \ compact.outputs
      /\ versions' = UnrefVersion(versions, compact.version)
      /\ compact' = NoCompaction /\ Goto(bg, "idle") /\ UNCHANGED fileVars
      /\ mutex_' = mutex_ /\ disk' = disk /\ memtables' = memtables /\ mem_' = mem_ /\ imm_' = imm_
      /\ next_file_number_' = next_file_number_ /\ flush' = flush /\ files_to_delete' = files_to_delete
  BY DEF CompactionFails, CleanupCompaction, Locked, BgAt, At
<1>2. "idle" \in PCs \ {"open", "table", "collect"} /\ actor[bg].pc \in PCs \ {"open", "table", "collect"}
  BY <1>1 DEF PCs
<1>3. /\ Phase(bg) = actor[bg].pc /\ ~Finding(bg) /\ BgCall /\ CallOf(bg) /\ InScope(bg) /\ FilesInv
  BY <1>1, <1>2, BgFacts
<1>4. /\ SameCall(bg) /\ Phase(bg)' = "idle" /\ ~Finding(bg)' /\ cache_' = cache_
      /\ \A b \in Clients : actor'[b] = actor[b]
  BY <1>1, <1>2, <1>3, BgGoto
<1>5. Typed /\ versions \in Seq(VersionState)
  BY DEF Inv, Typed
<1>6. /\ compact' \in [version : Nat, outputs : SUBSET Files, builder : Files \cup {0}]
      /\ compact'.version = 0 /\ compact'.builder = 0 /\ compact'.outputs = {}
  BY <1>1 DEF NoCompaction
<1>7. compact.version \in 1..Len(versions)
  BY <1>1, <1>3, Live DEF BgCall, MergePhases
<1>8. Shrinks
  BY <1>1, <1>5, <1>7, UnrefShrinks
<1>9. VersionRefs'
  <2>1. Given(0, compact.version)
    BY <1>1, <1>5, <1>7, VersionHeld DEF Given
  <2>2. QED  BY <1>1, <1>4, <1>6, <1>8, <2>1, VersionRefsGive DEF Shrinks
<1>10. flush.output = 0 /\ flush.base = 0
  BY <1>1, <1>3 DEF BgCall, FlushPhases
<1>11. BgCall'
  BY <1>1, <1>3, <1>4, <1>6, <1>10 DEF BgCall, FlushPhases, MergePhases, SameCall
<1>12. FilesInv'
  <2>1. Kept' = Kept
    BY <1>1 DEF Kept
  <2>2. \A v \in 1..Len(versions') :
          /\ \A f \in FilesOf(v)' : f < next_file_number_ /\ f # flush.output /\ f \notin {}
          /\ versions'[v].refs > 0 => FilesOf(v)' \subseteq Kept
    BY <1>3, <1>8, FilesOfShrinks DEF FilesInv
  <2>3. QED  BY <1>1, <1>3, <1>4, <1>6, <2>1, <2>2 DEF FilesInv
<1>13. /\ pending_outputs_' \subseteq Files /\ next_file_number_' \in 1..(MaxFiles + 1)
       /\ flush' \in [output : Files \cup {0}, base : Nat] /\ bg_error_' \in BOOLEAN
  BY <1>1, <1>5 DEF Typed
<1>14. UNCHANGED <<disk, memtables, mem_, imm_, mutex_, files_to_delete>>
  BY <1>1
<1>15. QED
  BY <1>1, <1>2, <1>4, <1>6, <1>8, <1>9, <1>11, <1>12, <1>13, <1>14, BgDbStep

LEMMA OutputVerifiedStep ==
  ASSUME Inv, OutputVerified
  PROVE  Inv'
<1> DEFINE f == compact.builder
<1>1. PICK h \in HandleOf(bg, f) :
        /\ actor' = [actor EXCEPT ![bg].pc = "merge", ![bg].handles = @ \ {h}]
        /\ CacheStep(Unref(cache_, h))
  BY DEF OutputVerified
<1>2. /\ actor[bg].pc = "finished" /\ files_to_delete = {} /\ compact' = [compact EXCEPT !.builder = 0]
      /\ mutex_' = mutex_ /\ disk' = disk /\ versions' = versions /\ memtables' = memtables
      /\ mem_' = mem_ /\ imm_' = imm_ /\ next_file_number_' = next_file_number_
      /\ pending_outputs_' = pending_outputs_ /\ bg_error_' = bg_error_ /\ flush' = flush
      /\ files_to_delete' = files_to_delete
  BY DEF OutputVerified, BgAt, At
<1>3. "finished" \in PCs \ {"open", "table"} /\ "merge" \in PCs
  BY DEF PCs
<1>4. /\ Phase(bg) = "finished" /\ ~Finding(bg) /\ BgCall /\ CallOf(bg) /\ InScope(bg) /\ FilesInv
      /\ actor[bg].todo = {} /\ mutex_ # bg /\ bg \in Actors
      /\ actor[bg].file = 0 /\ actor[bg].how = "none" /\ Searching(bg)
      /\ \A e \in actor[bg].handles : Key(e) # 0
  BY <1>2, <1>3, BgFacts
<1>5. /\ actor \in [Actors -> ActorState] /\ mmap_allowed \in Int /\ fd_allowed \in Int
      /\ LimitsInv /\ CacheInv /\ opened \in [Handles -> Hows] /\ Typed /\ VersionRefs /\ MemRefs
      /\ compact \in [version : Nat, outputs : SUBSET Files, builder : Files \cup {0}]
  BY DEF Inv, Typed
<1>6. h \in actor[bg].handles /\ Key(h) = f /\ h \in Handles
  BY <1>1, <1>4, HandlesLive DEF HandleOf
<1>7. /\ Only(bg) /\ SameCall(bg) /\ SameSearch(bg) /\ actor'[bg].pc = "merge"
      /\ actor'[bg].todo = actor[bg].todo
      /\ actor'[bg].handles = actor[bg].handles \ {h}
  BY <1>1, <1>3, <1>4, <1>5, ReleaseToIs
<1>8. /\ \A b \in Actors \ {bg} : actor'[b] = actor[b]
      /\ \A b \in Clients : actor'[b] = actor[b]
  BY <1>7, ActorsFinite DEF Only, Actors
<1>9. /\ CacheInv' /\ LimitsInv' /\ NothingNew
      /\ opened' \in [Handles -> Hows] /\ mmap_allowed' \in Int /\ fd_allowed' \in Int
  BY <1>1, <1>4, <1>5, <1>6, <1>7, <1>8, ReleaseTables DEF SameSearch
<1>10. Phase(bg)' = "merge" /\ ~Finding(bg)'
  BY <1>7 DEF Phase, Finding
<1>11. /\ compact' \in [version : Nat, outputs : SUBSET Files, builder : Files \cup {0}]
       /\ compact'.version = compact.version /\ compact'.outputs = compact.outputs /\ compact'.builder = 0
  BY <1>2, <1>5
<1>12. Typed'
  BY <1>2, <1>5, <1>7, <1>9, <1>11 DEF Typed, Only
<1>13. VersionRefs' /\ MemRefs'
  BY <1>2, <1>5, <1>8, <1>11, VersionsStay, MemsStay
<1>14. BgCall'
  <2>1. compact'.version # 0
    BY <1>4, <1>11 DEF BgCall, MergePhases
  <2>2. QED  BY <1>2, <1>4, <1>7, <1>10, <1>11, <2>1 DEF BgCall, FlushPhases, MergePhases, SameCall
<1>15. CallOf(bg)'
  BY <1>2, <1>4, <1>7, <1>10 DEF CallOf, SameSearch
<1>16. InScope(bg)'
  <2>1. Scope(bg)' = (IF compact.version # 0 THEN FilesOf(compact.version) ELSE {})
    BY <1>2, <1>10, <1>11 DEF Scope, FilesOf
  <2>2. Scope(bg) = (IF compact.version # 0 THEN FilesOf(compact.version) ELSE {}) \cup {f}
    BY <1>4 DEF Scope
  <2>3. \A e \in actor'[bg].handles : Key(e) # f
    BY <1>4, <1>6, <1>7 DEF Searching
  <2>4. QED  BY <1>4, <1>7, <1>10, <2>1, <2>2, <2>3 DEF InScope, SameSearch
<1>17. FilesInv'
  <2>1. \A e \in Handles : cache_'.refs[e] > 0 => Key(e) \in Kept
    BY <1>4, <1>9 DEF FilesInv, NothingNew
  <2>2. Kept' = Kept /\ \A v : FilesOf(v)' = FilesOf(v)
    BY <1>2 DEF Kept, FilesOf
  <2>3. QED  BY <1>2, <1>4, <1>10, <1>11, <2>1, <2>2 DEF FilesInv
<1>18. Lasting
  BY <1>2, <1>5 DEF Lasting, Typed
<1>19. Len(memtables') >= Len(memtables)
  <2>1. Len(memtables) \in Int
    BY <1>5 DEF Typed
  <2>2. QED  BY <1>2, <2>1
<1>20. \A b \in Clients : actor'[b] = actor[b] /\ (mutex_' = b <=> mutex_ = b)
  BY <1>2, <1>8
<1>21. QED  BY <1>9, <1>12, <1>13, <1>14, <1>15, <1>16, <1>17, <1>18, <1>19, <1>20, BgMoves

LEMMA BeginCompactionStep ==
  ASSUME Inv, BeginCompaction
  PROVE  Inv'
<1>1. /\ mutex_ = "free" /\ actor[bg].pc = "idle" /\ files_to_delete = {} /\ imm_ = 0
      /\ mutex_' = bg /\ compact' = [NoCompaction EXCEPT !.version = current_]
      /\ versions' = RefVersion(versions, current_)
      /\ actor' = [actor EXCEPT ![bg].pc = "collect", ![bg].todo = versions[current_].level0]
      /\ UNCHANGED fileVars /\ disk' = disk /\ memtables' = memtables /\ mem_' = mem_ /\ imm_' = imm_
      /\ next_file_number_' = next_file_number_ /\ pending_outputs_' = pending_outputs_
      /\ bg_error_' = bg_error_ /\ flush' = flush /\ files_to_delete' = files_to_delete
  BY DEF BeginCompaction, Locked, BgAt, At
<1>2. "idle" \in PCs \ {"open", "table"}
  BY DEF PCs
<1>3. /\ Phase(bg) = "idle" /\ ~Finding(bg) /\ BgCall /\ CallOf(bg) /\ InScope(bg) /\ FilesInv
      /\ actor[bg].file = 0 /\ actor[bg].how = "none" /\ Searching(bg) /\ bg \in Actors /\ bg # "free"
  BY <1>1, <1>2, BgFacts
<1>4. /\ Typed /\ versions \in Seq(VersionState) /\ actor \in [Actors -> ActorState]
      /\ CacheInv /\ LimitsInv /\ MemRefs
  BY DEF Inv, Typed
<1>5. current_ \in 1..Len(versions) /\ versions[current_].refs > 0 /\ current_ \in Nat /\ current_ # 0
  <2>1. current_ \in 1..Len(versions) /\ versions[current_].refs > 0
    BY Live
  <2>2. QED  BY <2>1
<1>6. compact.version = 0 /\ compact = NoCompaction /\ flush.output = 0 /\ flush.base = 0
  BY <1>3 DEF BgCall, FlushPhases
<1>7. actor[bg].handles = {}
  BY <1>3, <1>6 DEF Scope, InScope
<1>8. versions[current_].level0 \in SUBSET Files
  <2>1. versions[current_] \in VersionState
    BY <1>4, <1>5
  <2>2. QED  BY <2>1 DEF VersionState
<1>9. /\ Only(bg) /\ SameCall(bg) /\ SameSearch(bg) /\ actor'[bg].pc = "collect"
      /\ actor'[bg].todo = versions[current_].level0 /\ actor'[bg].handles = {}
  BY <1>1, <1>3, <1>4, <1>7, <1>8, CollectIs
<1>10. /\ \A b \in Actors \ {bg} : actor'[b] = actor[b]
       /\ \A b \in Clients : actor'[b] = actor[b]
  BY <1>9, ActorsFinite DEF Only, Actors
<1>11. CacheInv' /\ LimitsInv'
  <2>1. StaysTables
    BY <1>1, <1>7, <1>9, <1>10 DEF StaysTables, SameSearch
  <2>2. QED  BY <1>4, <2>1, TablesStay
<1>12. /\ compact' \in [version : Nat, outputs : SUBSET Files, builder : Files \cup {0}]
       /\ compact'.version = current_ /\ compact'.outputs = {} /\ compact'.builder = 0
  BY <1>1, <1>5 DEF NoCompaction
<1>13. Shrinks
  BY <1>1, <1>4, <1>5, RefShrinks
<1>14. VersionRefs'
  <2>1. Given(current_, 0)
    BY <1>1, <1>4, <1>5, VersionHeld DEF Given
  <2>2. QED  BY <1>1, <1>6, <1>10, <1>12, <1>13, <2>1, VersionRefsGive DEF Shrinks
<1>15. MemRefs'
  BY <1>1, <1>4, <1>10, MemsStay
<1>16. Typed'
  <2>1. versions' \in Seq(VersionState) /\ versions' # <<>>
    BY <1>4, <1>13 DEF Shrinks, Typed
  <2>2. cache_' = cache_ /\ opened' = opened /\ mmap_allowed' = mmap_allowed /\ fd_allowed' = fd_allowed
    BY <1>1 DEF fileVars
  <2>3. actor' \in [Actors -> ActorState]
    BY <1>9 DEF Only
  <2>4. QED  BY <1>1, <1>3, <1>4, <1>12, <2>1, <2>2, <2>3 DEF Typed
<1>17. Phase(bg)' = "collect" /\ ~Finding(bg)'
  BY <1>9 DEF Phase, Finding
<1>18. BgCall'
  <2>1. flush'.base \in 0..Len(versions') /\ compact'.version \in 0..Len(versions')
    BY <1>1, <1>3, <1>5, <1>12, <1>13 DEF BgCall, Shrinks
  <2>2. QED
    BY <1>1, <1>3, <1>5, <1>6, <1>9, <1>12, <1>17, <2>1 DEF BgCall, FlushPhases, MergePhases, SameCall
<1>19. CallOf(bg)'
  BY <1>1, <1>3, <1>9, <1>17 DEF CallOf, SameSearch
<1>20. InScope(bg)'
  <2>1. versions'[current_].level0 = versions[current_].level0
    BY <1>1, <1>4, <1>5, RefVersionIs
  <2>2. Scope(bg)' = versions'[current_].level0 \cup versions'[current_].level1
    BY <1>5, <1>12, <1>17 DEF Scope, FilesOf
  <2>3. QED  BY <1>3, <1>9, <1>17, <2>1, <2>2 DEF InScope, SameSearch
<1>21. FilesInv'
  <2>1. Kept' = Kept
    BY <1>1 DEF Kept
  <2>2. \A v \in 1..Len(versions') :
          /\ \A f \in FilesOf(v)' : f < next_file_number_ /\ f # flush.output /\ f \notin {}
          /\ versions'[v].refs > 0 => FilesOf(v)' \subseteq Kept
    BY <1>3, <1>13, FilesOfShrinks DEF FilesInv
  <2>3. cache_' = cache_
    BY <1>1 DEF fileVars
  <2>4. QED  BY <1>1, <1>3, <1>12, <1>17, <2>1, <2>2, <2>3 DEF FilesInv
<1>22. Len(memtables') >= Len(memtables)
  <2>1. Len(memtables) \in Int
    BY <1>4 DEF Typed
  <2>2. QED  BY <1>1, <2>1
<1>23. \A b \in Clients : actor'[b] = actor[b] /\ (mutex_' = b <=> mutex_ = b)
  BY <1>1, <1>10, ActorsFinite DEF Actors
<1>24. QED
  BY <1>11, <1>13, <1>14, <1>15, <1>16, <1>18, <1>19, <1>20, <1>21, <1>22, <1>23, ShrinksLasts, BgMoves

(***************************************************************************)
(* The background thread: a version is installed, and the files nobody     *)
(* needs are chosen for removal.                                           *)
(***************************************************************************)
\* The current version gives way to one of these files.
Installs(files0, files1) ==
  /\ versions' \in Seq(VersionState) /\ Len(versions') = Len(versions) + 1
  /\ \A v \in 1..Len(versions) :
       /\ versions'[v].level0 \subseteq versions[v].level0
       /\ versions'[v].level1 \subseteq versions[v].level1
       /\ versions'[v].refs > 0 =>
            /\ versions[v].refs > 0
            /\ versions'[v].level0 = versions[v].level0 /\ versions'[v].level1 = versions[v].level1
  /\ versions'[Len(versions')].refs = 1
  /\ versions'[Len(versions')].level0 = files0 /\ versions'[Len(versions')].level1 = files1

\* r is vs with the current version released and one of these files after it.
Appended(vs, r, f0, f1) ==
  /\ r \in Seq(VersionState) /\ Len(r) = Len(vs) + 1
  /\ \A w \in 1..Len(vs) :
       /\ r[w].refs = vs[w].refs - One(w = Len(vs))
       /\ r[w].level0 \subseteq vs[w].level0 /\ r[w].level1 \subseteq vs[w].level1
       /\ r[w].refs # 0 \/ w # Len(vs) => r[w].level0 = vs[w].level0 /\ r[w].level1 = vs[w].level1
  /\ r[Len(r)].refs = 1 /\ r[Len(r)].level0 = f0 /\ r[Len(r)].level1 = f1

LEMMA AppendedIs ==
  ASSUME NEW vs \in Seq(VersionState), vs # <<>>, NEW f0 \in SUBSET Files, NEW f1 \in SUBSET Files
  PROVE  Appended(vs, AppendVersion(vs, f0, f1), f0, f1)
<1> DEFINE r == AppendVersion(vs, f0, f1)
           u == UnrefVersion(vs, Len(vs))
<1>1. Len(vs) \in 1..Len(vs)
  OBVIOUS
<1>2. /\ r \in Seq(VersionState) /\ Len(r) = Len(vs) + 1
      /\ \A w \in 1..Len(vs) : r[w] = u[w]
      /\ r[Len(r)].refs = 1 /\ r[Len(r)].level0 = f0 /\ r[Len(r)].level1 = f1
  BY AppendVersionIs
<1>3. \A w \in 1..Len(vs) :
        /\ u[w].refs = vs[w].refs - One(w = Len(vs))
        /\ u[w].level0 \subseteq vs[w].level0 /\ u[w].level1 \subseteq vs[w].level1
        /\ u[w].refs # 0 \/ w # Len(vs) => u[w].level0 = vs[w].level0 /\ u[w].level1 = vs[w].level1
  BY <1>1, UnrefVersionIs
<1> HIDE DEF r, u
<1>4. QED  BY <1>2, <1>3 DEF r, Appended

LEMMA InstallsLasts ==
  ASSUME NEW f0, NEW f1, Installs(f0, f1), mutex_ = "free", versions \in Seq(VersionState)
  PROVE  /\ Lasting
         /\ \A v \in 1..Len(versions) :
              /\ FilesOf(v)' \subseteq FilesOf(v)
              /\ versions'[v].refs > 0 => versions[v].refs > 0 /\ FilesOf(v)' = FilesOf(v)
         /\ \A v \in 1..Len(versions') : v \in 1..Len(versions) \/ FilesOf(v)' = f0 \cup f1
         /\ current_' = Len(versions) + 1 /\ current_' \in 1..Len(versions')
<1>1. Len(versions) \in Nat
  OBVIOUS
<1>2. \A v \in 1..Len(versions') : v \in 1..Len(versions) \/ v = Len(versions')
  BY <1>1 DEF Installs
<1>3. \A v \in 1..Len(versions') : v \in 1..Len(versions) \/ FilesOf(v)' = f0 \cup f1
  BY <1>2 DEF Installs, FilesOf
<1>4. Lasting
  BY <1>1 DEF Installs, Lasting
<1>5. current_' = Len(versions) + 1 /\ current_' \in 1..Len(versions')
  BY <1>1 DEF Installs, current_
<1>6. QED  BY <1>3, <1>4, <1>5 DEF Installs, FilesOf

LEMMA ObsoleteRemoved ==
  ASSUME Inv, mutex_ = "free", VersionRefs', Lasting, disk' = disk, files_to_delete = {},
         \A b \in Clients : actor'[b] = actor[b],
         actor'[bg].handles = actor[bg].handles, actor'[bg].how = actor[bg].how,
         NEW pending, RemoveObsoleteFiles(versions', pending),
         \A h \in actor[bg].handles : Key(h) \in AddLiveFiles(versions')
  PROVE  /\ CacheInv' /\ LimitsInv'
         /\ opened' \in [Handles -> Hows] /\ mmap_allowed' \in Int /\ fd_allowed' \in Int
         /\ files_to_delete' \subseteq disk
         /\ \A v \in 1..Len(versions') : versions'[v].refs > 0 =>
              \A f \in FilesOf(v)' : f \in disk => f \in Kept'
         /\ \A f \in disk : f \in pending => f \in Kept'
         /\ \A h \in Handles : cache_'.refs[h] > 0 => Key(h) \in Kept'
<1> DEFINE S == IF bg_error_ THEN {} ELSE disk \ (pending \cup AddLiveFiles(versions'))
<1>1. files_to_delete' = S /\ CacheStep(Evicted(cache_, S))
  BY DEF RemoveObsoleteFiles
<1>2. S \subseteq disk /\ \A f \in S : f \notin pending /\ f \notin AddLiveFiles(versions')
  OBVIOUS
<1> HIDE DEF S
<1>3. /\ CacheInv /\ LimitsInv /\ FilesInv /\ CallsInv /\ ScopeInv /\ disk \subseteq Files
      /\ opened \in [Handles -> Hows] /\ mmap_allowed \in Int /\ fd_allowed \in Int
  BY DEF Inv, Typed
<1>4. \A v \in 1..Len(versions') : versions'[v].refs > 0 =>
        \A f \in FilesOf(v)' : f \in AddLiveFiles(versions')
  <2> SUFFICES ASSUME NEW v \in 1..Len(versions'), versions'[v].refs > 0,
                      NEW f \in versions'[v].level0 \cup versions'[v].level1
               PROVE  f \in AddLiveFiles(versions')
    BY DEF FilesOf
  <2>1. QED  BY DEF AddLiveFiles
<1>5. ASSUME NEW b \in Clients, NEW h \in actor[b].handles
      PROVE  Key(h) \in AddLiveFiles(versions')
  <2>1. b \in Actors /\ b # bg /\ b # "free"
    BY ActorsFinite DEF Actors
  <2>2. ClientCall(b) /\ CallOf(b) /\ InScope(b) /\ Phase(b) # "collect"
    BY <1>3, <2>1 DEF CallsInv, CallOf, ScopeInv
  <2>3. Phase(b) \in {"read", "end"} /\ Key(h) \in FilesOf(actor[b].version)
    BY <2>1, <2>2 DEF InScope, Scope
  <2>4. actor[b].version \in 1..Len(versions)
    BY <2>3, Live
  <2>5. actor[b].version \in 1..Len(versions')
    BY <2>4 DEF Lasting
  <2>6. versions'[actor[b].version].refs > 0
    BY <2>5, LiveNext
  <2>7. Key(h) \in versions'[actor[b].version].level0 \cup versions'[actor[b].version].level1
    BY <2>3, <2>4, <2>6 DEF Lasting, FilesOf
  <2>8. QED  BY <2>5, <2>6, <2>7 DEF AddLiveFiles
<1>6. \A b \in Actors : \A h \in actor[b].handles : Key(h) \notin S
  BY <1>2, <1>5 DEF Actors
<1>7. \A b \in Actors : actor'[b].handles = actor[b].handles /\ actor'[b].how = actor[b].how
  BY DEF Actors
<1>8. S \in SUBSET Files
  BY <1>2, <1>3
<1>9. /\ CacheInv' /\ LimitsInv' /\ NothingNew
      /\ opened' \in [Handles -> Hows] /\ mmap_allowed' \in Int /\ fd_allowed' \in Int
      /\ \A h \in Handles : cache_'.refs[h] > 0 => Key(h) \notin S
  BY <1>1, <1>3, <1>6, <1>7, <1>8, EvictTables
<1>10. \A f : f \in Kept' <=> f \in disk /\ f \notin S
  BY <1>1 DEF Kept
<1>11. \A h \in Handles : cache_'.refs[h] > 0 => Key(h) \in Kept'
  BY <1>3, <1>9, <1>10 DEF NothingNew, FilesInv, Kept
<1>12. \A v \in 1..Len(versions') : versions'[v].refs > 0 =>
         \A f \in FilesOf(v)' : f \in disk => f \in Kept'
  BY <1>2, <1>4, <1>10
<1>13. QED  BY <1>1, <1>2, <1>9, <1>10, <1>11, <1>12

LEMMA FlushCommittedStep ==
  ASSUME Inv, FlushCommitted
  PROVE  Inv'
<1> DEFINE new == IF Merging THEN "merge" ELSE "idle"
           f0 == versions[current_].level0 \cup {flush.output}
           f1 == versions[current_].level1
<1>1. /\ mutex_ = "free" /\ actor[bg].pc = "flush_manifest" /\ files_to_delete = {}
      /\ versions' = AppendVersion(versions, f0, f1)
      /\ memtables' = UnrefMem(memtables, imm_) /\ imm_' = 0 /\ flush' = NoFlush
      /\ RemoveObsoleteFiles(versions', pending_outputs_) /\ Goto(bg, new)
      /\ mutex_' = mutex_ /\ disk' = disk /\ mem_' = mem_ /\ next_file_number_' = next_file_number_
      /\ pending_outputs_' = pending_outputs_ /\ bg_error_' = bg_error_ /\ compact' = compact
  BY DEF FlushCommitted, Locked, BgAt, At, Resume
<1>2. /\ new \in {"merge", "idle"} /\ (new = "merge" <=> compact.version # 0)
  BY DEF Merging
<1> HIDE DEF new
<1>3. "flush_manifest" \in PCs \ {"open", "table"} /\ new \in PCs
  BY <1>2 DEF PCs
<1>4. /\ Phase(bg) = "flush_manifest" /\ ~Finding(bg) /\ BgCall /\ CallOf(bg) /\ InScope(bg) /\ FilesInv
      /\ bg \in Actors /\ actor[bg].file = 0 /\ actor[bg].how = "none" /\ actor[bg].todo = {}
      /\ mutex_ # bg
  BY <1>1, <1>3, BgFacts
<1>5. /\ Typed /\ versions \in Seq(VersionState) /\ versions # <<>> /\ actor \in [Actors -> ActorState]
      /\ memtables \in Seq(Int) /\ mem_ \in 1..Len(memtables) /\ imm_ \in 0..Len(memtables)
      /\ mem_ # imm_ /\ MemRefs
      /\ flush \in [output : Files \cup {0}, base : Nat]
  BY DEF Inv, Typed
<1>6. /\ Only(bg) /\ SameCall(bg) /\ SameSearch(bg) /\ actor'[bg].pc = new
      /\ actor'[bg].todo = actor[bg].todo /\ actor'[bg].handles = actor[bg].handles
  BY <1>1, <1>3, <1>4, <1>5, GotoIs
<1>7. /\ actor' \in [Actors -> ActorState] /\ \A b \in Clients : actor'[b] = actor[b]
  BY <1>6, ActorsFinite DEF Only, Actors
<1>8. Phase(bg)' = new /\ ~Finding(bg)'
  BY <1>2, <1>6 DEF Phase, Finding
<1>9. flush.output # 0 /\ flush.output \in Files /\ flush.base = 0 /\ flush.output \in disk
  BY <1>4, <1>5 DEF BgCall, FlushPhases, FilesInv
<1>10. current_ \in 1..Len(versions) /\ versions[current_].refs > 0 /\ current_ = Len(versions)
       /\ Len(versions) \in Nat
  BY <1>5, Live DEF current_
<1>11. f0 \in SUBSET Files /\ f1 \in SUBSET Files /\ f0 \cup f1 = FilesOf(current_) \cup {flush.output}
  <2>1. versions[current_] \in VersionState
    BY <1>5, <1>10
  <2>2. QED  BY <1>9, <2>1 DEF VersionState, FilesOf
<1> HIDE DEF f0, f1
<1>12. /\ versions' \in Seq(VersionState) /\ Len(versions') = Len(versions) + 1
       /\ \A w \in 1..Len(versions) :
            /\ versions'[w].refs = versions[w].refs - One(w = Len(versions))
            /\ versions'[w].level0 \subseteq versions[w].level0
            /\ versions'[w].level1 \subseteq versions[w].level1
            /\ versions'[w].refs # 0 \/ w # Len(versions) =>
                 versions'[w].level0 = versions[w].level0 /\ versions'[w].level1 = versions[w].level1
       /\ versions'[Len(versions')].refs = 1
       /\ versions'[Len(versions')].level0 = f0 /\ versions'[Len(versions')].level1 = f1
  <2>1. Appended(versions, AppendVersion(versions, f0, f1), f0, f1)
    BY <1>5, <1>11, AppendedIs
  <2>2. QED  BY <1>1, <2>1 DEF Appended
<1>13. \A w \in 1..Len(versions) : versions[w].refs \in Int
  <2>1. \A w \in 1..Len(versions) : versions[w] \in VersionState
    BY <1>5
  <2>2. QED  BY <2>1 DEF VersionState
<1>14. Installs(f0, f1)
  <2>1. \A w \in 1..Len(versions) : versions'[w].refs > 0 => versions[w].refs > 0
    <3> SUFFICES ASSUME NEW w \in 1..Len(versions), versions'[w].refs > 0 PROVE versions[w].refs > 0
      OBVIOUS
    <3> DEFINE o == One(w = Len(versions))
               r == versions[w].refs
    <3>1. o \in {0, 1} /\ r \in Int /\ r - o > 0
      BY <1>12, <1>13 DEF One
    <3> HIDE DEF o, r
    <3>2. r > 0
      BY <3>1
    <3>3. QED  BY <3>2 DEF r
  <2>2. QED  BY <1>12, <2>1 DEF Installs
<1>15. flush' \in [output : Files \cup {0}, base : Nat] /\ flush'.output = 0 /\ flush'.base = 0
  BY <1>1 DEF NoFlush
<1>16. /\ Lasting
       /\ \A v \in 1..Len(versions) :
            /\ FilesOf(v)' \subseteq FilesOf(v)
            /\ versions'[v].refs > 0 => versions[v].refs > 0 /\ FilesOf(v)' = FilesOf(v)
       /\ \A v \in 1..Len(versions') : v \in 1..Len(versions) \/ FilesOf(v)' = f0 \cup f1
       /\ current_' = Len(versions) + 1 /\ current_' \in 1..Len(versions')
  BY <1>1, <1>5, <1>14, InstallsLasts
<1>17. compact.version \in 0..Len(versions)
  BY <1>4 DEF BgCall
<1>18. VersionRefs'
  <2>1. ASSUME NEW v \in 1..Len(versions)
        PROVE  versions'[v].refs = versions[v].refs
                 + (One(v = current_') - One(v = current_))
                 + (One(flush'.base = v) - One(flush.base = v))
                 + (One(compact'.version = v) - One(compact.version = v))
    <3> DEFINE r == versions[v].refs
               c0 == One(v = current_)
               c1 == One(v = current_')
               b0 == One(flush.base = v)
               b1 == One(flush'.base = v)
               m0 == One(compact.version = v)
               m1 == One(compact'.version = v)
    <3>1. c1 = 0
      BY <1>10, <1>16 DEF One
    <3>2. b0 = b1 /\ m0 = m1 /\ r \in Int
      BY <1>1, <1>9, <1>13, <1>15
    <3>3. c0 \in Int /\ b0 \in Int /\ m0 \in Int
      BY DEF One
    <3>4. versions'[v].refs = r - c0
      BY <1>10, <1>12
    <3> HIDE DEF r, c0, c1, b0, b1, m0, m1
    <3>5. versions'[v].refs = r + (c1 - c0) + (b1 - b0) + (m1 - m0)
      BY <3>1, <3>2, <3>3, <3>4
    <3>6. QED  BY <3>5 DEF r, c0, c1, b0, b1, m0, m1
  <2>2. compact'.version # Len(versions') /\ flush'.base # Len(versions')
    BY <1>1, <1>10, <1>12, <1>15, <1>17
  <2>3. QED  BY <1>7, <1>12, <2>1, <2>2, VersionRefsShift
<1>19. \A h \in actor[bg].handles : Key(h) \in Scope(bg)'
  <2>1. compact.version # 0 => FilesOf(compact.version)' = FilesOf(compact.version)
    <3> HAVE compact.version # 0
    <3>1. compact.version \in 1..Len(versions) /\ compact.version \in 1..Len(versions')
      BY <1>10, <1>12, <1>17
    <3>2. versions'[compact.version].refs > 0
      BY <1>1, <1>18, <3>1, LiveNext
    <3>3. FilesOf(compact.version)' = versions'[compact.version].level0 \cup versions'[compact.version].level1
      BY <1>1 DEF FilesOf
    <3>4. QED  BY <1>16, <3>1, <3>2, <3>3 DEF Lasting, FilesOf
  <2>2. Scope(bg)' = Scope(bg)
    BY <1>1, <1>2, <1>4, <1>8, <2>1 DEF Scope
  <2>3. QED  BY <1>4, <2>2 DEF InScope
<1>20. \A h \in actor[bg].handles : Key(h) \in AddLiveFiles(versions')
  <2> SUFFICES ASSUME NEW h \in actor[bg].handles PROVE Key(h) \in AddLiveFiles(versions')
    OBVIOUS
  <2>1. Key(h) \in Scope(bg)'
    BY <1>19
  <2>2. compact.version # 0 /\ Key(h) \in FilesOf(compact.version)'
    BY <1>1, <1>2, <1>8, <2>1 DEF Scope
  <2>3. compact.version \in 1..Len(versions')
    BY <1>10, <1>12, <1>17, <2>2
  <2>4. versions'[compact.version].refs > 0
    BY <1>1, <1>18, <2>3, LiveNext
  <2>5. Key(h) \in versions'[compact.version].level0 \cup versions'[compact.version].level1
    BY <1>1, <2>2 DEF FilesOf
  <2>6. QED  BY <2>3, <2>4, <2>5 DEF AddLiveFiles
<1>21. /\ CacheInv' /\ LimitsInv'
       /\ opened' \in [Handles -> Hows] /\ mmap_allowed' \in Int /\ fd_allowed' \in Int
       /\ files_to_delete' \subseteq disk
       /\ \A v \in 1..Len(versions') : versions'[v].refs > 0 =>
            \A f \in FilesOf(v)' : f \in disk => f \in Kept'
       /\ \A f \in disk : f \in pending_outputs_ => f \in Kept'
       /\ \A h \in Handles : cache_'.refs[h] > 0 => Key(h) \in Kept'
  BY <1>1, <1>6, <1>7, <1>16, <1>18, <1>20, ObsoleteRemoved DEF SameSearch
<1>22. /\ memtables' \in Seq(Int) /\ Len(memtables') = Len(memtables)
       /\ \A m \in 1..Len(memtables) : memtables'[m] = memtables[m] - One(m = imm_)
  BY <1>1, <1>5, RefMemIs
<1>23. MemRefs'
  <2>1. \A m : Cardinality(Using(m))' = Cardinality(Using(m)) /\ Cardinality(Using(m)) \in Nat
    BY <1>7, UsingStay
  <2> SUFFICES ASSUME NEW m \in 1..Len(memtables)
               PROVE  memtables'[m] = Cardinality(Using(m))' + One(m \in {mem_', imm_'})
    BY <1>22 DEF MemRefs
  <2> DEFINE n == Cardinality(Using(m))
             r == memtables[m]
             o == One(m = imm_)
             x == One(m \in {mem_, imm_})
             y == One(m \in {mem_', imm_'})
  <2>2. n \in Nat /\ n' = n /\ r = n + x /\ memtables'[m] = r - o
    BY <1>5, <1>22, <2>1 DEF MemRefs
  <2>3. o \in Int /\ x \in Int /\ y \in Int /\ y = x - o
    BY <1>1, <1>5 DEF One
  <2> HIDE DEF n, r, o, x, y
  <2>4. memtables'[m] = n' + y
    BY <2>2, <2>3
  <2>5. QED  BY <2>4 DEF n, y
<1>24. Typed'
  <2>1. mem_' \in 1..Len(memtables') /\ imm_' \in 0..Len(memtables') /\ mem_' # imm_'
    <3>1. Len(memtables) \in Nat /\ mem_ # 0
      BY <1>5
    <3>2. QED  BY <1>1, <1>5, <1>22, <3>1
  <2>2. versions' # <<>>
    BY <1>10, <1>12
  <2>3. files_to_delete' \subseteq Files
    BY <1>5, <1>21 DEF Typed
  <2>4. QED  BY <1>1, <1>5, <1>7, <1>12, <1>15, <1>21, <1>22, <2>1, <2>2, <2>3 DEF Typed
<1>25. BgCall'
  <2>1. flush'.base \in 0..Len(versions') /\ compact'.version \in 0..Len(versions')
    BY <1>1, <1>10, <1>12, <1>15, <1>17
  <2>2. QED  BY <1>1, <1>2, <1>4, <1>6, <1>8, <1>15, <2>1 DEF BgCall, FlushPhases, MergePhases, SameCall
<1>26. CallOf(bg)'
  BY <1>1, <1>2, <1>4, <1>6, <1>8 DEF CallOf, SameSearch
<1>27. InScope(bg)'
  BY <1>2, <1>4, <1>6, <1>8, <1>19 DEF InScope, SameSearch
<1>28. FilesInv'
  <2>1. \A v \in 1..Len(versions) : \A f \in FilesOf(v) : f \in Files
    <3>1. \A v \in 1..Len(versions) : versions[v] \in VersionState
      BY <1>5
    <3>2. QED  BY <3>1 DEF FilesOf, VersionState
  <2>2. 0 \notin Files /\ compact.outputs \subseteq Files
    BY <1>5, ReadersAssumption DEF Files, Typed
  <2>3. \A v \in 1..Len(versions) : \A f \in FilesOf(v) :
          /\ f < next_file_number_ /\ f # 0 /\ f \notin compact.outputs
          /\ versions[v].refs > 0 => f \in disk
    BY <1>4, <2>1, <2>2 DEF FilesInv, Kept
  <2>4. flush.output < next_file_number_ /\ flush.output \notin compact.outputs
    BY <1>4 DEF FilesInv
  <2>5. \A f \in f0 \cup f1 :
          f < next_file_number_ /\ f # 0 /\ f \notin compact.outputs /\ f \in disk
    BY <1>9, <1>10, <1>11, <2>3, <2>4
  <2>6. ASSUME NEW v \in 1..Len(versions')
        PROVE  /\ \A f \in FilesOf(v)' : f < next_file_number_ /\ f # 0 /\ f \notin compact.outputs
               /\ versions'[v].refs > 0 => FilesOf(v)' \subseteq Kept'
    <3>1. \A f \in FilesOf(v)' : /\ f < next_file_number_ /\ f # 0 /\ f \notin compact.outputs
                                 /\ versions'[v].refs > 0 => f \in disk
      BY <1>16, <2>3, <2>5
    <3>2. QED  BY <1>21, <3>1
  <2>7. \A f \in compact.outputs : /\ f < next_file_number_ /\ f # 0 /\ f \in pending_outputs_ /\ f \in Kept'
    <3>1. \A f \in compact.outputs : f < next_file_number_ /\ f \in pending_outputs_ /\ f \in disk
      BY <1>4 DEF FilesInv, Kept
    <3>2. QED  BY <1>21, <2>2, <3>1
  <2>8. 0 < next_file_number_
    BY <1>5 DEF Typed
  <2>9. \A f \in disk : f < next_file_number_
    BY <1>4 DEF FilesInv
  <2>10. Phase(bg)' \notin {"build", "verify", "verified", "built", "flush_manifest"}
    BY <1>2, <1>8
  <2>11. QED
    BY <1>1, <1>15, <1>21, <2>6, <2>7, <2>8, <2>9, <2>10 DEF FilesInv
<1>29. Len(memtables') >= Len(memtables)
  <2>1. Len(memtables) \in Int
    BY <1>5
  <2>2. QED  BY <1>22, <2>1
<1>30. \A b \in Clients : actor'[b] = actor[b] /\ (mutex_' = b <=> mutex_ = b)
  BY <1>1, <1>7
<1>31. QED
  BY <1>16, <1>18, <1>21, <1>23, <1>24, <1>25, <1>26, <1>27, <1>28, <1>29, <1>30, BgMoves

\* A version is installed, and the reference on w is released.
LEMMA InstalledIs ==
  ASSUME versions \in Seq(VersionState), versions # <<>>,
         NEW f0 \in SUBSET Files, NEW f1 \in SUBSET Files, NEW w \in 1..Len(versions),
         versions' = UnrefVersion(AppendVersion(versions, f0, f1), w)
  PROVE  /\ Installs(f0, f1)
         /\ \A v \in 1..Len(versions) :
              versions'[v].refs = versions[v].refs - One(v = Len(versions)) - One(v = w)
<1> DEFINE a == AppendVersion(versions, f0, f1)
<1>1. Appended(versions, a, f0, f1)
  BY AppendedIs
<1>2. versions' = UnrefVersion(a, w)
  OBVIOUS
<1> HIDE DEF a
<1>3. /\ a \in Seq(VersionState) /\ Len(a) = Len(versions) + 1 /\ Len(versions) \in Nat
      /\ w \in 1..Len(a)
  <2>1. a \in Seq(VersionState) /\ Len(a) = Len(versions) + 1
    BY <1>1 DEF Appended
  <2>2. QED  BY <2>1
<1>4. /\ versions' \in Seq(VersionState) /\ Len(versions') = Len(a)
      /\ \A v \in 1..Len(a) :
           /\ versions'[v].refs = a[v].refs - One(v = w)
           /\ versions'[v].level0 \subseteq a[v].level0 /\ versions'[v].level1 \subseteq a[v].level1
           /\ versions'[v].refs # 0 \/ v # w =>
                versions'[v].level0 = a[v].level0 /\ versions'[v].level1 = a[v].level1
  BY <1>2, <1>3, UnrefVersionIs
<1>5. ASSUME NEW v \in 1..Len(versions)
      PROVE  /\ versions'[v].refs = versions[v].refs - One(v = Len(versions)) - One(v = w)
             /\ versions'[v].level0 \subseteq versions[v].level0
             /\ versions'[v].level1 \subseteq versions[v].level1
             /\ versions'[v].refs > 0 =>
                  /\ versions[v].refs > 0
                  /\ versions'[v].level0 = versions[v].level0
                  /\ versions'[v].level1 = versions[v].level1
  <2> DEFINE r == versions[v].refs
             p == a[v].refs
             q == versions'[v].refs
             c == One(v = Len(versions))
             o == One(v = w)
  <2>1. v \in 1..Len(a)
    BY <1>3
  <2>2. r \in Int /\ c \in {0, 1} /\ o \in {0, 1} /\ p = r - c /\ q = p - o
    <3>1. versions[v] \in VersionState
      OBVIOUS
    <3>2. r \in Int
      BY <3>1 DEF VersionState
    <3>3. QED  BY <1>1, <1>4, <2>1, <3>2 DEF Appended, One
  <2>3. /\ a[v].level0 \subseteq versions[v].level0 /\ a[v].level1 \subseteq versions[v].level1
        /\ p # 0 \/ v # Len(versions) =>
             a[v].level0 = versions[v].level0 /\ a[v].level1 = versions[v].level1
    BY <1>1 DEF Appended
  <2>4. /\ versions'[v].level0 \subseteq a[v].level0 /\ versions'[v].level1 \subseteq a[v].level1
        /\ q # 0 => versions'[v].level0 = a[v].level0 /\ versions'[v].level1 = a[v].level1
    BY <1>4, <2>1
  <2> HIDE DEF r, p, q, c, o
  <2>5. q = r - c - o /\ (q > 0 => q # 0 /\ p # 0 /\ r > 0)
    BY <2>2
  <2>6. /\ versions'[v].level0 \subseteq versions[v].level0
        /\ versions'[v].level1 \subseteq versions[v].level1
        /\ q > 0 => versions'[v].level0 = versions[v].level0 /\ versions'[v].level1 = versions[v].level1
    BY <2>3, <2>4, <2>5
  <2>7. QED  BY <2>5, <2>6 DEF r, q, c, o
<1>6. /\ versions'[Len(versions')].refs = 1
      /\ versions'[Len(versions')].level0 = f0 /\ versions'[Len(versions')].level1 = f1
  <2>1. Len(versions') = Len(a) /\ Len(a) \in 1..Len(a) /\ Len(a) # w
    BY <1>3, <1>4
  <2>2. a[Len(a)].refs = 1 /\ a[Len(a)].level0 = f0 /\ a[Len(a)].level1 = f1
    BY <1>1 DEF Appended
  <2>3. One(Len(a) = w) = 0
    BY <2>1 DEF One
  <2>4. versions'[Len(a)].refs = 1 - 0
    BY <1>4, <2>1, <2>2, <2>3
  <2>5. QED  BY <1>4, <2>1, <2>2, <2>4
<1>7. Len(versions') = Len(versions) + 1
  BY <1>3, <1>4
<1>8. QED  BY <1>4, <1>5, <1>6, <1>7 DEF Installs

LEMMA CompactionInstalledStep ==
  ASSUME Inv, CompactionInstalled
  PROVE  Inv'
<1> DEFINE inputs == FilesOf(compact.version)
           f0 == versions[current_].level0 \ inputs
           f1 == (versions[current_].level1 \ inputs) \cup compact.outputs
           pending == pending_outputs_ \ compact.outputs
<1>1. /\ mutex_ = "free" /\ actor[bg].pc = "merged" /\ files_to_delete = {} /\ actor[bg].handles = {}
      /\ pending_outputs_' = pending /\ compact' = NoCompaction
      /\ versions' = UnrefVersion(AppendVersion(versions, f0, f1), compact.version)
      /\ RemoveObsoleteFiles(versions', pending_outputs_') /\ Goto(bg, "idle")
      /\ mutex_' = mutex_ /\ disk' = disk /\ memtables' = memtables /\ mem_' = mem_ /\ imm_' = imm_
      /\ next_file_number_' = next_file_number_ /\ flush' = flush /\ bg_error_' = bg_error_
  BY DEF CompactionInstalled, CleanupCompaction, Locked, BgAt, At
<1>2. "merged" \in PCs \ {"open", "table"} /\ "idle" \in PCs
  BY DEF PCs
<1>3. /\ Phase(bg) = "merged" /\ ~Finding(bg) /\ BgCall /\ CallOf(bg) /\ InScope(bg) /\ FilesInv
      /\ bg \in Actors /\ actor[bg].file = 0 /\ actor[bg].how = "none" /\ actor[bg].todo = {}
      /\ mutex_ # bg
  BY <1>1, <1>2, BgFacts
<1>4. /\ Typed /\ versions \in Seq(VersionState) /\ versions # <<>> /\ actor \in [Actors -> ActorState]
      /\ MemRefs /\ memtables \in Seq(Int) /\ disk \subseteq Files /\ compact.outputs \subseteq Files
      /\ pending_outputs_ \subseteq Files
  BY DEF Inv, Typed
<1>5. /\ Only(bg) /\ SameCall(bg) /\ SameSearch(bg) /\ actor'[bg].pc = "idle"
      /\ actor'[bg].todo = actor[bg].todo /\ actor'[bg].handles = actor[bg].handles
  BY <1>1, <1>2, <1>3, <1>4, GotoIs
<1>6. /\ actor' \in [Actors -> ActorState] /\ \A b \in Clients : actor'[b] = actor[b]
  BY <1>5, ActorsFinite DEF Only, Actors
<1>7. Phase(bg)' = "idle" /\ ~Finding(bg)'
  BY <1>5 DEF Phase, Finding
<1>8. flush.output = 0 /\ flush.base = 0 /\ compact.version # 0 /\ compact.version \in 1..Len(versions)
  BY <1>3, Live DEF BgCall, FlushPhases, MergePhases
<1>9. current_ \in 1..Len(versions) /\ versions[current_].refs > 0 /\ current_ = Len(versions)
      /\ Len(versions) \in Nat
  BY <1>4, Live DEF current_
<1>10. /\ f0 \in SUBSET Files /\ f1 \in SUBSET Files
       /\ \A f \in f0 \cup f1 : f \in FilesOf(current_) \/ f \in compact.outputs
  <2>1. versions[current_] \in VersionState
    BY <1>4, <1>9
  <2>2. QED  BY <1>4, <2>1 DEF VersionState, FilesOf
<1> HIDE DEF f0, f1, pending
<1>11. /\ Installs(f0, f1)
       /\ \A v \in 1..Len(versions) :
            versions'[v].refs = versions[v].refs - One(v = Len(versions)) - One(v = compact.version)
  BY <1>1, <1>4, <1>8, <1>10, InstalledIs
<1>12. /\ Lasting
       /\ \A v \in 1..Len(versions) :
            /\ FilesOf(v)' \subseteq FilesOf(v)
            /\ versions'[v].refs > 0 => versions[v].refs > 0 /\ FilesOf(v)' = FilesOf(v)
       /\ \A v \in 1..Len(versions') : v \in 1..Len(versions) \/ FilesOf(v)' = f0 \cup f1
       /\ current_' = Len(versions) + 1 /\ current_' \in 1..Len(versions')
  BY <1>1, <1>4, <1>11, InstallsLasts
<1>13. /\ compact' \in [version : Nat, outputs : SUBSET Files, builder : Files \cup {0}]
       /\ compact'.version = 0 /\ compact'.outputs = {} /\ compact'.builder = 0
  BY <1>1 DEF NoCompaction
<1>14. versions' \in Seq(VersionState) /\ Len(versions') = Len(versions) + 1
       /\ versions'[Len(versions')].refs = 1
  BY <1>11 DEF Installs
<1>15. VersionRefs'
  <2>1. ASSUME NEW v \in 1..Len(versions)
        PROVE  versions'[v].refs = versions[v].refs
                 + (One(v = current_') - One(v = current_))
                 + (One(flush'.base = v) - One(flush.base = v))
                 + (One(compact'.version = v) - One(compact.version = v))
    <3> DEFINE r == versions[v].refs
               c0 == One(v = current_)
               c1 == One(v = current_')
               b0 == One(flush.base = v)
               b1 == One(flush'.base = v)
               m0 == One(compact.version = v)
               m1 == One(compact'.version = v)
    <3>1. c1 = 0 /\ m1 = 0
      BY <1>9, <1>12, <1>13 DEF One
    <3>2. b0 = b1
      BY <1>1
    <3>3. c0 \in Int /\ b0 \in Int /\ m0 \in Int
      BY DEF One
    <3>4. r \in Int
      <4>1. versions[v] \in VersionState
        BY <1>4
      <4>2. QED  BY <4>1 DEF VersionState
    <3>5. One(v = compact.version) = m0
      BY DEF One
    <3>6. versions'[v].refs = r - c0 - m0
      BY <1>9, <1>11, <3>5
    <3> HIDE DEF r, c0, c1, b0, b1, m0, m1
    <3>7. versions'[v].refs = r + (c1 - c0) + (b1 - b0) + (m1 - m0)
      BY <3>1, <3>2, <3>3, <3>4, <3>6
    <3>8. QED  BY <3>7 DEF r, c0, c1, b0, b1, m0, m1
  <2>2. compact'.version # Len(versions') /\ flush'.base # Len(versions')
    BY <1>1, <1>8, <1>9, <1>13, <1>14
  <2>3. QED  BY <1>6, <1>14, <2>1, <2>2, VersionRefsShift
<1>16. \A h \in actor[bg].handles : Key(h) \in AddLiveFiles(versions')
  BY <1>1
<1>17. /\ CacheInv' /\ LimitsInv'
       /\ opened' \in [Handles -> Hows] /\ mmap_allowed' \in Int /\ fd_allowed' \in Int
       /\ files_to_delete' \subseteq disk
       /\ \A v \in 1..Len(versions') : versions'[v].refs > 0 =>
            \A f \in FilesOf(v)' : f \in disk => f \in Kept'
       /\ \A h \in Handles : cache_'.refs[h] > 0 => Key(h) \in Kept'
  <2>1. RemoveObsoleteFiles(versions', pending)
    BY <1>1
  <2>2. QED  BY <1>1, <1>5, <1>6, <1>12, <1>15, <1>16, <2>1, ObsoleteRemoved DEF SameSearch
<1>18. Typed'
  <2>1. versions' # <<>>
    BY <1>9, <1>14
  <2>2. files_to_delete' \subseteq Files /\ pending_outputs_' \subseteq Files
    BY <1>1, <1>4, <1>17 DEF pending
  <2>3. QED  BY <1>1, <1>4, <1>6, <1>13, <1>14, <1>17, <2>1, <2>2 DEF Typed
<1>19. MemRefs'
  BY <1>1, <1>4, <1>6, MemsStay
<1>20. BgCall'
  <2>1. flush'.base \in 0..Len(versions') /\ compact'.version \in 0..Len(versions')
    BY <1>1, <1>8, <1>9, <1>13, <1>14
  <2>2. QED
    BY <1>1, <1>3, <1>5, <1>7, <1>8, <1>13, <2>1 DEF BgCall, FlushPhases, MergePhases, SameCall
<1>21. CallOf(bg)'
  BY <1>1, <1>3, <1>5, <1>7 DEF CallOf, SameSearch
<1>22. InScope(bg)'
  BY <1>1, <1>3, <1>5, <1>7 DEF InScope, SameSearch
<1>23. FilesInv'
  <2>1. 0 \notin Files /\ \A f \in compact.outputs : f < next_file_number_ /\ f \in disk
    BY <1>3, ReadersAssumption DEF Files, FilesInv, Kept
  <2>2. \A v \in 1..Len(versions) : \A f \in FilesOf(v) :
          /\ f < next_file_number_ /\ f # flush.output
          /\ versions[v].refs > 0 => f \in disk
    BY <1>3 DEF FilesInv, Kept
  <2>3. \A f \in f0 \cup f1 : f < next_file_number_ /\ f # flush.output /\ f \in disk
    BY <1>4, <1>8, <1>9, <1>10, <2>1, <2>2
  <2>4. ASSUME NEW v \in 1..Len(versions')
        PROVE  /\ \A f \in FilesOf(v)' : f < next_file_number_ /\ f # flush.output /\ f \notin {}
               /\ versions'[v].refs > 0 => FilesOf(v)' \subseteq Kept'
    <3>1. \A f \in FilesOf(v)' : /\ f < next_file_number_ /\ f # flush.output
                                 /\ versions'[v].refs > 0 => f \in disk
      BY <1>12, <2>2, <2>3
    <3>2. QED  BY <1>17, <3>1
  <2>5. flush.output < next_file_number_ /\ \A f \in disk : f < next_file_number_
    BY <1>3 DEF FilesInv
  <2>6. Phase(bg)' \notin {"build", "verify", "verified", "built", "flush_manifest"}
    BY <1>7
  <2>7. QED  BY <1>1, <1>13, <1>17, <2>4, <2>5, <2>6 DEF FilesInv
<1>24. Len(memtables') >= Len(memtables)
  <2>1. Len(memtables) \in Int
    BY <1>4
  <2>2. QED  BY <1>1, <2>1
<1>25. \A b \in Clients : actor'[b] = actor[b] /\ (mutex_' = b <=> mutex_ = b)
  BY <1>1, <1>6
<1>26. QED
  BY <1>12, <1>15, <1>17, <1>18, <1>19, <1>20, <1>21, <1>22, <1>23, <1>24, <1>25, BgMoves

(***************************************************************************)
(* The invariant.                                                          *)
(***************************************************************************)
LEMMA BgSteps ==
  ASSUME Inv, BgStep
  PROVE  Inv'
BY BeginFlushStep, DiskSteps, VerifyTableStep, TableVerifiedStep, FlushBuiltStep,
   FlushCommittedStep, FlushFailsStep, DeleteFileStep, BeginCompactionStep, InputSteps,
   StartMergeStep, OpenCompactionOutputFileStep, FinishOutputStep, OutputVerifiedStep,
   EndMergeStep, CompactionInstalledStep, CompactionFailsStep DEF BgStep

LEMMA StutterStep ==
  ASSUME Inv, UNCHANGED vars
  PROVE  Inv'
<1>1. /\ mutex_' = mutex_ /\ disk' = disk /\ actor' = actor /\ cache_' = cache_
      /\ versions' = versions /\ memtables' = memtables /\ mem_' = mem_ /\ imm_' = imm_
      /\ next_file_number_' = next_file_number_ /\ pending_outputs_' = pending_outputs_
      /\ bg_error_' = bg_error_ /\ flush' = flush /\ compact' = compact
      /\ files_to_delete' = files_to_delete /\ opened' = opened
      /\ mmap_allowed' = mmap_allowed /\ fd_allowed' = fd_allowed
  BY DEF vars, dbVars, workVars, fileVars
<1>2. Typed'
  BY <1>1 DEF Inv, Typed
<1>3. (\A a : Phase(a)' = Phase(a) /\ Finding(a)' = Finding(a)) /\ Kept' = Kept
      /\ Held' = Held /\ \A v : FilesOf(v)' = FilesOf(v)
  BY <1>1 DEF Phase, Finding, Kept, Held, FilesOf
<1>4. CallsInv'
  <2>1. \A a \in Clients : ClientCall(a)'
    BY <1>1, <1>3 DEF Inv, CallsInv, ClientCall
  <2>2. BgCall'
    BY <1>1, <1>3 DEF Inv, CallsInv, BgCall
  <2>3. \A a \in Actors : CallOf(a)'
    BY <1>1, <1>3 DEF Inv, CallsInv, CallOf
  <2>4. QED  BY <2>1, <2>2, <2>3 DEF CallsInv
<1>5. ScopeInv'
  <2>1. \A a : Scope(a)' = Scope(a)
    BY <1>1, <1>3 DEF Scope, current_
  <2>2. QED  BY <1>1, <1>3, <2>1 DEF Inv, ScopeInv, InScope
<1>6. FilesInv'
  BY <1>1, <1>3 DEF Inv, FilesInv, Unseen, HandleOf
<1>7. VersionRefs' /\ MemRefs'
  BY <1>1, VersionsStay, MemsStay DEF Inv
<1>8. CacheInv' /\ LimitsInv'
  <2>1. StaysTables
    BY <1>1 DEF StaysTables, fileVars
  <2>2. QED  BY <2>1, TablesStay DEF Inv
<1>9. QED  BY <1>2, <1>4, <1>5, <1>6, <1>7, <1>8 DEF Inv

LEMMA NextKeeps ==
  ASSUME Inv, [Next]_vars
  PROVE  Inv'
<1>1. CASE SwitchMemTable
  BY <1>1, SwitchMemTableStep
<1>2. CASE BgStep
  BY <1>2, BgSteps
<1>3. ASSUME NEW a \in Actors, FindTableStep(a) \/ (a # bg /\ ClientStep(a)) PROVE Inv'
  BY <1>3, FindTableSteps, ClientSteps DEF Actors
<1>4. CASE UNCHANGED vars
  BY <1>4, StutterStep
<1>5. QED  BY <1>1, <1>2, <1>3, <1>4 DEF Next

\* No actor does anything at first; of the clients all may call, or one.
LEMMA InitialActors ==
  ASSUME Init
  PROVE  /\ actor \in [Actors -> ActorState]
         /\ \A a \in Actors :
              /\ actor[a].pc \in {"idle", "gone"} /\ actor[a].version = 0 /\ actor[a].mem = 0
              /\ actor[a].imm = 0 /\ actor[a].todo = {} /\ actor[a].file = 0
              /\ actor[a].how = "none" /\ actor[a].handles = {}
         /\ actor[bg].pc = "idle"
<1>1. AllRun \/ OneRuns
  BY DEF Init
<1>2. NoCall \in ActorState /\ [NoCall EXCEPT !.pc = "gone"] \in ActorState
  BY DEF NoCall, ActorState, PCs, Hows
<1>3. /\ actor \in [Actors -> ActorState]
      /\ \A a \in Actors : actor[a] = NoCall \/ actor[a] = [NoCall EXCEPT !.pc = "gone"]
      /\ actor[bg] = NoCall
  <2>1. CASE AllRun
    BY <1>2, <2>1, ActorsFinite DEF AllRun
  <2>2. CASE OneRuns
    <3>1. PICK c \in Clients :
            actor = [a \in Actors |-> IF a \in {c, bg} THEN NoCall ELSE [NoCall EXCEPT !.pc = "gone"]]
      BY <2>2 DEF OneRuns
    <3>2. QED  BY <1>2, <3>1, ActorsFinite
  <2>3. QED  BY <1>1, <2>1, <2>2
<1>4. QED  BY <1>3 DEF NoCall

LEMMA InitialCache ==
  ASSUME Init
  PROVE  CacheInv /\ Held = [h \in Handles |-> 0]
<1>1. \A a \in Actors : actor[a].handles = {}
  BY InitialActors
<1>2. Held = [h \in Handles |-> 0]
  <2>1. \A h \in Handles : Cardinality({a \in Actors : h \in actor[a].handles}) = 0
    <3> SUFFICES ASSUME NEW h \in Handles
                 PROVE  Cardinality({a \in Actors : h \in actor[a].handles}) = 0
      OBVIOUS
    <3>1. {a \in Actors : h \in actor[a].handles} = {}
      BY <1>1
    <3>2. QED  BY <3>1, FS_EmptySet
  <2>2. QED  BY <2>1 DEF Held
<1>3. cache_ = EmptyCache
  BY DEF Init
<1>4. /\ EmptyCache \in Shard /\ EmptyCache.dead = {}
      /\ \A h \in Handles : EmptyCache.refs[h] = 0 /\ EmptyCache.in_cache[h] = FALSE
      /\ EmptyCache.lru = <<>> /\ EmptyCache.in_use = {} /\ EmptyCache.usage = 0
      /\ \A k \in CacheKeys : EmptyCache.table[k] = None
  BY DEF EmptyCache, Shard
<1>5. Cardinality(Cached(EmptyCache)) = 0
  <2>1. Cached(EmptyCache) = {}
    BY <1>4 DEF Cached
  <2>2. QED  BY <2>1, FS_EmptySet
<1>6. \A h \in Handles : ~On(EmptyCache.lru, h)
  BY <1>4 DEF On
<1>7. Once(EmptyCache.lru)
  BY <1>4 DEF Once
<1>8. Exact(EmptyCache, Held)
  BY <1>2, <1>4, <1>5, <1>6, <1>7 DEF Exact, ExactBut
<1>9. QED  BY <1>2, <1>3, <1>4, <1>8 DEF CacheInv

LEMMA InitKeeps ==
  ASSUME Init
  PROVE  Inv
<1>1. /\ actor \in [Actors -> ActorState]
      /\ \A a \in Actors :
           /\ actor[a].pc \in {"idle", "gone"} /\ actor[a].version = 0 /\ actor[a].mem = 0
           /\ actor[a].imm = 0 /\ actor[a].todo = {} /\ actor[a].file = 0
           /\ actor[a].how = "none" /\ actor[a].handles = {}
      /\ actor[bg].pc = "idle"
  BY InitialActors
<1>2. /\ mutex_ = "free" /\ disk = {1} /\ pending_outputs_ = {} /\ bg_error_ = FALSE
      /\ versions = <<[refs |-> 1, level0 |-> {1}, level1 |-> {}]>>
      /\ \/ memtables = <<1, 1>> /\ mem_ = 2 /\ imm_ = 1
         \/ memtables = <<1>> /\ mem_ = 1 /\ imm_ = 0
      /\ mmap_allowed = MmapLimit /\ fd_allowed = FdLimit /\ opened = [h \in Handles |-> "none"]
      /\ next_file_number_ = 2 /\ flush = NoFlush /\ compact = NoCompaction /\ files_to_delete = {}
      /\ cache_ = EmptyCache
  BY DEF Init
<1>3. 1 \in Files /\ 2 \in 1..(MaxFiles + 1)
  BY ReadersAssumption DEF Files
<1>4. /\ versions \in Seq(VersionState) /\ Len(versions) = 1 /\ versions # <<>>
      /\ versions[1].refs = 1 /\ versions[1].level0 = {1} /\ versions[1].level1 = {}
  <2>1. [refs |-> 1, level0 |-> {1}, level1 |-> {}] \in VersionState
    BY <1>3 DEF VersionState
  <2>2. QED  BY <1>2, <2>1
<1>5. /\ memtables \in Seq(Int) /\ mem_ \in 1..Len(memtables) /\ imm_ \in 0..Len(memtables)
      /\ mem_ # imm_
      /\ \A m \in 1..Len(memtables) : memtables[m] = 1 /\ m \in {mem_, imm_}
  <2>1. CASE memtables = <<1, 1>> /\ mem_ = 2 /\ imm_ = 1
    <3>1. memtables \in Seq(Int) /\ Len(memtables) = 2 /\ memtables[1] = 1 /\ memtables[2] = 1
      BY <2>1
    <3>2. \A m \in 1..Len(memtables) : m = 1 \/ m = 2
      BY <3>1
    <3>3. QED  BY <2>1, <3>1, <3>2
  <2>2. CASE memtables = <<1>> /\ mem_ = 1 /\ imm_ = 0
    <3>1. memtables \in Seq(Int) /\ Len(memtables) = 1 /\ memtables[1] = 1
      BY <2>2
    <3>2. \A m \in 1..Len(memtables) : m = 1
      BY <3>1
    <3>3. QED  BY <2>2, <3>1, <3>2
  <2>3. QED  BY <1>2, <2>1, <2>2
<1>6. /\ flush.output = 0 /\ flush.base = 0
      /\ compact.version = 0 /\ compact.outputs = {} /\ compact.builder = 0
      /\ flush \in [output : Files \cup {0}, base : Nat]
      /\ compact \in [version : Nat, outputs : SUBSET Files, builder : Files \cup {0}]
  BY <1>2 DEF NoFlush, NoCompaction
<1>7. Typed
  <2>1. opened \in [Handles -> Hows]
    BY <1>2 DEF Hows
  <2>2. mmap_allowed \in Int /\ fd_allowed \in Int
    BY <1>2, ReadersAssumption
  <2>3. disk \subseteq Files /\ files_to_delete \subseteq Files /\ pending_outputs_ \subseteq Files
    BY <1>2, <1>3
  <2>4. QED  BY <1>1, <1>2, <1>3, <1>4, <1>5, <1>6, <2>1, <2>2, <2>3 DEF Typed
<1>8. \A a \in Actors : Phase(a) = actor[a].pc /\ ~Finding(a)
  BY <1>1 DEF Phase, Finding
<1>9. CallsInv
  <2>1. \A a \in Clients : ClientCall(a)
    BY <1>1, <1>8 DEF ClientCall, Actors
  <2>2. BgCall
    BY <1>1, <1>2, <1>4, <1>6, <1>8, ActorsFinite DEF BgCall, FlushPhases, MergePhases
  <2>3. \A a \in Actors : CallOf(a)
    BY <1>1, <1>2, <1>8, ReadersAssumption DEF CallOf
  <2>4. QED  BY <2>1, <2>2, <2>3 DEF CallsInv
<1>10. ScopeInv
  BY <1>1, <1>8 DEF ScopeInv, InScope
<1>11. FilesInv
  <2>1. \A h \in Handles : cache_.refs[h] = 0
    BY <1>2 DEF EmptyCache
  <2>2. \A v \in 1..Len(versions) : v = 1
    BY <1>4
  <2>3. Kept = {1} /\ FilesOf(1) = {1}
    BY <1>2, <1>4 DEF Kept, FilesOf
  <2>4. Phase(bg) = "idle"
    BY <1>1, <1>8, ActorsFinite
  <2>5. QED  BY <1>2, <1>6, <2>1, <2>2, <2>3, <2>4 DEF FilesInv
<1>12. VersionRefs
  <2>1. Cardinality(Readings(1)) = 0
    <3>1. Readings(1) = {}
      BY <1>1 DEF Readings, Actors
    <3>2. QED  BY <3>1, FS_EmptySet
  <2>2. current_ = 1
    BY <1>4 DEF current_
  <2>3. \A v \in 1..Len(versions) : v = 1
    BY <1>4
  <2>4. QED  BY <1>4, <1>6, <2>1, <2>2, <2>3 DEF VersionRefs, One
<1>13. MemRefs
  <2> SUFFICES ASSUME NEW m \in 1..Len(memtables)
               PROVE  memtables[m] = Cardinality(Using(m)) + One(m \in {mem_, imm_})
    BY DEF MemRefs
  <2>1. m # 0
    OBVIOUS
  <2>2. Using(m) = {}
    BY <1>1, <2>1 DEF Using, Actors
  <2>3. Cardinality(Using(m)) = 0
    BY <2>2, FS_EmptySet
  <2>4. QED  BY <1>5, <2>3 DEF One
<1>14. LimitsInv
  <2>1. \A how : how # "none" => Cardinality(Opened(how)) = 0 /\ Cardinality(Opening(how)) = 0
    <3> SUFFICES ASSUME NEW how, how # "none"
                 PROVE  Cardinality(Opened(how)) = 0 /\ Cardinality(Opening(how)) = 0
      OBVIOUS
    <3>1. Opened(how) = {} /\ Opening(how) = {}
      BY <1>1, <1>2 DEF Opened, Opening
    <3>2. QED  BY <3>1, FS_EmptySet
  <2>2. \A h \in Handles : opened[h] = "none"
    BY <1>2
  <2>3. QED  BY <1>2, <2>1, <2>2, ReadersAssumption DEF LimitsInv
<1>15. QED  BY <1>7, <1>9, <1>10, <1>11, <1>12, <1>13, <1>14, InitialCache DEF Inv

LEMMA Invariance == Spec => []Inv
<1>1. Init => Inv
  BY InitKeeps
<1>2. Inv /\ [Next]_vars => Inv'
  BY NextKeeps
<1>3. QED  BY <1>1, <1>2, PTL DEF Spec

(***************************************************************************)
(* The theorems.                                                           *)
(***************************************************************************)
\* Version::Ref and Unref, MemTable::Ref and Unref, and Cache::Lookup and
\* Release are each undone exactly once on every path, whether a Get, an
\* iterator, a flush or a compaction succeeds or fails, for any number of
\* readers.
THEOREM RefsAreExact == Spec => []RefsExact
<1>1. Inv => RefsExact
  <2> SUFFICES ASSUME Inv PROVE RefsExact
    OBVIOUS
  <2>1. \A v \in 1..Len(versions) : versions[v].refs = Holders(v)
    BY DEF Inv, VersionRefs, Holders, Readings, One
  <2>2. \A m \in 1..Len(memtables) :
          memtables[m] = Cardinality({a \in Clients : m \in {actor[a].mem, actor[a].imm}})
                         + (IF m \in {mem_, imm_} THEN 1 ELSE 0)
    BY DEF Inv, MemRefs, Using, One
  <2>3. \A h \in Handles :
          cache_.refs[h] = Cardinality({a \in Actors : h \in actor[a].handles})
                           + (IF cache_.in_cache[h] THEN 1 ELSE 0)
    BY DEF Inv, CacheInv, Exact, ExactBut, Held
  <2>4. QED  BY <2>1, <2>2, <2>3 DEF RefsExact
<1>2. QED  BY <1>1, Invariance, PTL

\* The two lists of the LRU cache, its hash table and its charge agree with its
\* entries after every Insert, Lookup, Release and Erase, in any order, whatever
\* the capacity and however many entries of one key are alive.
THEOREM CacheAgrees == Spec => []TableCacheExact
<1>1. Inv => TableCacheExact
  BY HeldIs, ExactMeans DEF Inv, CacheInv, TableCacheExact
<1>2. QED  BY <1>1, Invariance, PTL

\* RemoveObsoleteFiles removes no table file that a Get, an iterator, a flush or
\* a compaction has open, is about to open, or may come to through the version
\* it reads.
THEOREM FilesAreKept == Spec => []FilesStay
<1>1. Inv => FilesStay
  <2> SUFFICES ASSUME Inv, NEW a \in Actors
               PROVE  /\ {Key(h) : h \in actor[a].handles} \subseteq disk
                      /\ actor[a].file \in disk \cup {0}
                      /\ actor[a].version # 0 => FilesOf(actor[a].version) \subseteq disk
    BY DEF FilesStay
  <2>1. \A f \in Scope(a) : f \in disk
    BY ScopeKept DEF Kept
  <2>2. /\ \A h \in actor[a].handles : Key(h) \in Scope(a)
        /\ actor[a].file \in Scope(a) \cup {0}
    BY DEF Inv, ScopeInv, InScope
  <2>3. ASSUME actor[a].version # 0 PROVE FilesOf(actor[a].version) \subseteq disk
    <3>1. a \in Clients /\ a # bg
      BY <2>3, ActorsFinite DEF Inv, CallsInv, BgCall, Actors
    <3>2. Phase(a) \in {"read", "end"}
      BY <2>3, <3>1 DEF Inv, CallsInv, ClientCall
    <3>3. Scope(a) = FilesOf(actor[a].version)
      BY <3>1, <3>2 DEF Scope
    <3>4. QED  BY <2>1, <3>3
  <2>4. QED  BY <2>1, <2>2, <2>3
<1>2. QED  BY <1>1, Invariance, PTL

\* When RemoveObsoleteFiles chooses a file its table leaves the table cache and
\* is closed, and no lookup that had begun before brings it back.
THEOREM NoTableOutlivesItsFile == Spec => []NoStaleTable
<1>1. Inv => NoStaleTable
  BY DEF Inv, FilesInv, NoStaleTable, Kept
<1>2. QED  BY <1>1, Invariance, PTL

\* Limiter::Acquire and Release: the mappings and descriptors in use and those
\* still allowed make up the limit, also when Table::Open fails or an insert
\* replaces a table that another reader opened meanwhile.
THEOREM LimitersAreExact == Spec => []LimitersExact
<1>1. Inv => LimitersExact
  BY DEF Inv, LimitsInv, LimitersExact, Opened, Opening
<1>2. QED  BY <1>1, Invariance, PTL

===============================================================================
