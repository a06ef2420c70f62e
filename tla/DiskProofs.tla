------------------------------ MODULE DiskProofs ------------------------------
(***************************************************************************)
(* What the files of a database say, whatever is left of them, and what    *)
(* the steps of the disk do to it (modules Disk and Durability).           *)
(*                                                                         *)
(* A crash leaves one of the directories Dirs, and of each file a prefix.  *)
(* DiskInv therefore speaks of every directory and every prefix of its     *)
(* MANIFEST that may be left (a View): its tables are whole, what it says  *)
(* is part of what the files say now (Full), and what is durable of it has *)
(* every synced operation.  The lemmas show under which conditions a step  *)
(* of the disk keeps that, a power failure under none.                     *)
(***************************************************************************)
EXTENDS Durability, SequenceTheorems, NaturalsInduction, WellFoundedInduction, TLAPS

(***************************************************************************)
(* Types.                                                                  *)
(***************************************************************************)
Update == [op : Nat, seq : Nat]
VersionEdit == [log : Nat, next : Nat, seq : Nat, add : SUBSET Nat, del : SUBSET Nat]
FileNames == {"log", "table", "manifest", "temp"} \X Nat
Directory == [names : SUBSET FileNames, current : Nat]

RecordsOf(kind) ==
  IF kind = "log" THEN Update
  ELSE IF kind = "table" THEN SUBSET Update
  ELSE IF kind = "manifest" THEN VersionEdit ELSE Nat

FilesTyped ==
  /\ files = [f \in DOMAIN files |-> files[f]]
  /\ Reachable(dirs) \subseteq DOMAIN files /\ DOMAIN files \subseteq FileNames
  /\ \A f \in DOMAIN files : /\ files[f] \in [recs : Seq(RecordsOf(f[1])), durable : Nat]
                             /\ files[f].durable <= Len(files[f].recs)
DiskTyped == dirs \in Seq(Directory) /\ dirs # <<>> /\ FilesTyped

(***************************************************************************)
(* What a directory says, and what is sure to be left of it.               *)
(***************************************************************************)
Dirs == {dirs[i] : i \in DOMAIN dirs}

View(recs) ==
  [tables |-> Tables(recs), log |-> LastEdit(recs).log, next |-> LastEdit(recs).next,
   seq |-> LastEdit(recs).seq]

\* The views that the MANIFEST m has, as much of it as is left.
ViewOf(m, n) == View(SubSeq(Recs(Manifest(m)), 1, n))
Views(m) == {ViewOf(m, n) : n \in files[Manifest(m)].durable..Len(Recs(Manifest(m)))}

LogsFor(d, n) == {l \in Nat : l >= n /\ Log(l) \in d.names}
LogEntries(l) == EntriesOf(Recs(Log(l)))
SafeEntries(l) == EntriesOf(SubSeq(Recs(Log(l)), 1, files[Log(l)].durable))
Logged(d, n) == UNION {LogEntries(l) : l \in LogsFor(d, n)}
LoggedSafely(d, n) == UNION {SafeEntries(l) : l \in LogsFor(d, n)}

Says(d, v) == TableEntries(v.tables) \cup Logged(d, v.log)
IsSure(d, v) == TableEntries(v.tables) \cup LoggedSafely(d, v.log)

\* What the files say if the process dies now.
Final == View(Recs(Manifest(Dir.current)))
Full == IF Dir.current = 0 THEN {} ELSE Says(Dir, Final)

OpsOf(S) == {e.op : e \in S}

\* The table t is whole and on the disk.
Whole(t) == files[Table(t)].durable = 1 /\ Len(Recs(Table(t))) = 1

Sound(d, v) ==
  /\ \A t \in v.tables : Table(t) \in d.names /\ Whole(t) /\ t < v.next
  /\ v.log < v.next /\ d.current < v.next /\ v.next <= Final.next
  /\ v.seq <= writes /\ \A e \in TableEntries(v.tables) : e.seq <= v.seq
  /\ Says(d, v) \subseteq Full
  /\ synced \subseteq OpsOf(IsSure(d, v))

HasCounters(m) ==
  \E i \in 1..files[Manifest(m)].durable : Recs(Manifest(m))[i].next # 0

DirInv(d) ==
  IF d.current = 0
  THEN synced = {} /\ \A l \in Nat : Log(l) \notin d.names
  ELSE /\ Dir.current # 0 /\ Manifest(d.current) \in d.names /\ HasCounters(d.current)
       /\ \A v \in Views(d.current) : Sound(d, v)

\* A log that has been removed is one that no view of the directory needs.
LogsGone ==
  Dir.current # 0 =>
    \A l \in Nat : Log(l) \in Reachable(dirs) /\ Log(l) \notin Dir.names =>
      \A v \in Views(Dir.current) : l < v.log

FullInv ==
  /\ \A e \in Full : e.op \in 1..writes /\ e.seq <= e.op
  /\ \A d, e \in Full : d.op < e.op => d.seq < e.seq

DiskInv == DiskTyped /\ (\A d \in Dirs : DirInv(d)) /\ LogsGone /\ FullInv

\* The tables of every view.
InUse ==
  UNION {v.tables : v \in UNION {Views(d.current) : d \in {d \in Dirs : d.current # 0}}}

(***************************************************************************)
(* Numbers and sequences.                                                  *)
(***************************************************************************)
LEMMA LeastNumber ==
  ASSUME NEW T \in SUBSET Nat, T # {}
  PROVE  \E m \in T : \A k \in T : m <= k
<1> DEFINE R == {p \in Nat \X Nat : p[1] < p[2]}
<1>1. IsWellFoundedOn(R, Nat)
  BY NatLessThanWellFounded DEF OpToRel
<1>2. \A i, j \in Nat : i < j => <<i, j>> \in R
  OBVIOUS
<1> HIDE DEF R
<1>3. PICK m \in T : \A k \in T : ~(<<k, m>> \in R)
  BY <1>1, WFMin
<1>4. ASSUME NEW k \in T PROVE ~(k < m)
  <2>1. k \in Nat /\ m \in Nat /\ ~(<<k, m>> \in R)
    BY <1>3
  <2>2. QED  BY <1>2, <2>1
<1>5. QED  BY <1>4

LEMMA GreatestNumber ==
  ASSUME NEW b \in Nat, NEW T \in SUBSET Nat, T # {}, \A k \in T : k <= b
  PROVE  \E m \in T : \A k \in T : k <= m
<1> DEFINE S == {k \in Nat : b - k \in T}
<1>1. \A k \in T : b - k \in Nat /\ b - (b - k) = k
  OBVIOUS
<1>2. \A k \in T : b - k \in S
  BY <1>1
<1>3. PICK m \in S : \A k \in S : m <= k
  <2>1. S \in SUBSET Nat /\ S # {}
    BY <1>2
  <2>2. QED  BY <2>1, LeastNumber
<1>4. b - m \in T /\ \A k \in T : k <= b - m
  BY <1>1, <1>2, <1>3
<1>5. QED  BY <1>4

LEMMA AppendToOne ==
  ASSUME NEW x, NEW y
  PROVE  Append(<<x>>, y) = <<x, y>>
<1> DEFINE s == <<x>>
           t == <<x, y>>
           S == {x, y}
<1>1. s \in Seq(S) /\ y \in S /\ Len(s) = 1 /\ s[1] = x
  OBVIOUS
<1>2. t \in Seq(S) /\ Len(t) = 2 /\ t[1] = x /\ t[2] = y
  OBVIOUS
<1> HIDE DEF s, t, S
<1>3. Append(s, y) \in Seq(S) /\ Len(Append(s, y)) = 2 /\ Append(s, y)[1] = x
  <2>1. Append(s, y) \in Seq(S)
    BY <1>1
  <2>2. Len(Append(s, y)) = 2
    BY <1>1
  <2>3. Append(s, y)[1] = x
    BY <1>1
  <2>4. QED  BY <2>1, <2>2, <2>3
<1>4. Append(s, y)[Len(s) + 1] = y /\ Len(s) + 1 = 2
  <2>1. s \in Seq(S) /\ y \in S
    BY <1>1
  <2>2. Append(s, y)[Len(s) + 1] = y
    BY <2>1, AppendProperties
  <2>3. QED  BY <1>1, <2>2
<1>5. \A i \in 1..Len(Append(s, y)) : i = 1 \/ i = 2
  BY <1>3
<1>6. \A i \in 1..Len(Append(s, y)) : Append(s, y)[i] = t[i]
  BY <1>2, <1>3, <1>4, <1>5
<1>7. Append(s, y) = t
  BY <1>2, <1>3, <1>6, SeqEqual
<1>8. QED  BY <1>7 DEF s, t

LEMMA EntriesAppend ==
  ASSUME NEW S, NEW recs \in Seq(S), NEW e \in S
  PROVE  EntriesOf(Append(recs, e)) = EntriesOf(recs) \cup {e}
<1> DEFINE new == Append(recs, e)
<1>1. /\ new \in Seq(S) /\ Len(new) = Len(recs) + 1 /\ new[Len(recs) + 1] = e
      /\ \A i \in 1..Len(recs) : new[i] = recs[i]
  BY AppendProperties
<1>2. DOMAIN new = 1..(Len(recs) + 1) /\ DOMAIN recs = 1..Len(recs) /\ Len(recs) \in Nat
  BY <1>1
<1>3. 1..(Len(recs) + 1) = 1..Len(recs) \cup {Len(recs) + 1}
  BY <1>2
<1> HIDE DEF new
<1>4. QED  BY <1>1, <1>2, <1>3 DEF EntriesOf, new

\* A prefix, and what it is a prefix of.
LEMMA Prefix ==
  ASSUME NEW S, NEW recs \in Seq(S), NEW n \in 0..Len(recs)
  PROVE  /\ SubSeq(recs, 1, n) \in Seq(S) /\ Len(SubSeq(recs, 1, n)) = n
         /\ DOMAIN SubSeq(recs, 1, n) = 1..n
         /\ \A i \in 1..n : SubSeq(recs, 1, n)[i] = recs[i]
         /\ EntriesOf(SubSeq(recs, 1, n)) = {recs[i] : i \in 1..n}
<1>1. \A i \in 1..n : recs[i] \in S
  OBVIOUS
<1>2. n - 1 + 1 = n /\ (1 <= n \/ n = 0) /\ n \in Int
  OBVIOUS
<1>3. /\ SubSeq(recs, 1, n) \in Seq(S)
      /\ Len(SubSeq(recs, 1, n)) = n
      /\ \A i \in 1..n : SubSeq(recs, 1, n)[i] = recs[i]
  OBVIOUS
<1>4. DOMAIN SubSeq(recs, 1, n) = 1..n
  BY <1>3
<1>5. QED  BY <1>3, <1>4 DEF EntriesOf

LEMMA PrefixGrows ==
  ASSUME NEW S, NEW recs \in Seq(S), NEW m \in 0..Len(recs), NEW n \in m..Len(recs)
  PROVE  /\ EntriesOf(SubSeq(recs, 1, m)) \subseteq EntriesOf(SubSeq(recs, 1, n))
         /\ EntriesOf(SubSeq(recs, 1, n)) \subseteq EntriesOf(recs)
<1>1. n \in 0..Len(recs) /\ Len(recs) \in 0..Len(recs) /\ DOMAIN recs = 1..Len(recs)
  OBVIOUS
<1>2. 1..m \subseteq 1..n /\ 1..n \subseteq 1..Len(recs)
  OBVIOUS
<1>3. EntriesOf(recs) = {recs[i] : i \in 1..Len(recs)}
  BY <1>1 DEF EntriesOf
<1>4. EntriesOf(SubSeq(recs, 1, m)) = {recs[i] : i \in 1..m}
  BY Prefix
<1>5. EntriesOf(SubSeq(recs, 1, n)) = {recs[i] : i \in 1..n}
  BY <1>1, Prefix
<1>6. QED  BY <1>2, <1>3, <1>4, <1>5

LEMMA AppendPrefix ==
  ASSUME NEW S, NEW recs \in Seq(S), NEW e \in S, NEW n \in 0..Len(recs)
  PROVE  SubSeq(Append(recs, e), 1, n) = SubSeq(recs, 1, n)
<1> DEFINE new == Append(recs, e)
<1>1. /\ new \in Seq(S) /\ Len(new) = Len(recs) + 1
      /\ \A i \in 1..Len(recs) : new[i] = recs[i]
  BY AppendProperties
<1>2. n \in 0..Len(new) /\ 1..n \subseteq 1..Len(recs)
  BY <1>1
<1>3. Len(SubSeq(new, 1, n)) = n /\ \A i \in 1..n : SubSeq(new, 1, n)[i] = new[i]
  BY <1>1, <1>2, Prefix
<1>4. SubSeq(new, 1, n) \in Seq(S) /\ SubSeq(recs, 1, n) \in Seq(S)
  BY <1>1, <1>2, Prefix
<1>5. Len(SubSeq(recs, 1, n)) = n /\ \A i \in 1..n : SubSeq(recs, 1, n)[i] = recs[i]
  BY Prefix
<1> HIDE DEF new
<1>6. \A i \in 1..n : SubSeq(new, 1, n)[i] = SubSeq(recs, 1, n)[i]
  BY <1>1, <1>2, <1>3, <1>5
<1>7. SubSeq(new, 1, n) = SubSeq(recs, 1, n)
  BY <1>3, <1>4, <1>5, <1>6, SeqEqual
<1>8. QED  BY <1>7 DEF new

LEMMA EntriesSimple == EntriesOf(<<>>) = {} /\ \A e : EntriesOf(<<e>>) = {e}
<1>1. DOMAIN <<>> = {}
  OBVIOUS
<1>2. \A e : DOMAIN <<e>> = {1} /\ <<e>>[1] = e
  OBVIOUS
<1>3. QED  BY <1>1, <1>2 DEF EntriesOf

(***************************************************************************)
(* What the edits of a MANIFEST add up to.                                 *)
(***************************************************************************)
ViewType == [tables : SUBSET Nat, log : Nat, next : Nat, seq : Nat]

LEMMA LastEditFound ==
  ASSUME NEW recs \in Seq(VersionEdit), Numbered(recs) # {}
  PROVE  \E i \in Numbered(recs) : /\ LastEdit(recs) = recs[i]
                                   /\ \A j \in Numbered(recs) : j <= i
<1>1. Numbered(recs) \in SUBSET Nat /\ \A j \in Numbered(recs) : j <= Len(recs)
  BY DEF Numbered
<1>2. Len(recs) \in Nat
  OBVIOUS
<1>3. \E i \in Numbered(recs) : \A j \in Numbered(recs) : j <= i
  BY <1>1, <1>2, GreatestNumber
<1>4. QED  BY <1>3 DEF LastEdit

LEMMA ViewTyped ==
  ASSUME NEW recs \in Seq(VersionEdit), Numbered(recs) # {}
  PROVE  View(recs) \in ViewType /\ View(recs).next # 0
<1>1. LastEdit(recs) \in VersionEdit /\ LastEdit(recs).next # 0
  BY LastEditFound DEF Numbered
<1>2. \A i \in DOMAIN recs : recs[i].add \subseteq Nat
  <2>1. \A i \in DOMAIN recs : recs[i] \in VersionEdit
    OBVIOUS
  <2>2. QED  BY <2>1 DEF VersionEdit
<1>3. ASSUME NEW t \in Tables(recs) PROVE t \in Nat
  <2>1. PICK i \in DOMAIN recs : t \in recs[i].add
    BY DEF Tables
  <2>2. QED  BY <1>2, <2>1
<1>4. QED  BY <1>1, <1>3 DEF View, ViewType, VersionEdit

LEMMA ViewAppend ==
  ASSUME NEW recs \in Seq(VersionEdit), NEW e \in VersionEdit, e.next # 0, e.add \cap e.del = {}
  PROVE  View(Append(recs, e)) = [tables |-> (Tables(recs) \ e.del) \cup e.add, log |-> e.log,
                                  next |-> e.next, seq |-> e.seq]
<1> DEFINE new == Append(recs, e)
           n == Len(recs)
<1>1. /\ new \in Seq(VersionEdit) /\ Len(new) = n + 1 /\ new[n + 1] = e
      /\ \A i \in 1..n : new[i] = recs[i]
  BY AppendProperties
<1>2. n \in Nat /\ DOMAIN recs = 1..n /\ DOMAIN new = 1..(n + 1)
  BY <1>1
<1> HIDE DEF new, n
<1>3. LastEdit(new) = e
  <2>1. n + 1 \in Numbered(new)
    BY <1>1, <1>2 DEF Numbered
  <2>2. \A j \in Numbered(new) : j \in Nat /\ j <= n + 1
    BY <1>2 DEF Numbered
  <2>3. PICK i \in Numbered(new) : LastEdit(new) = new[i] /\ \A j \in Numbered(new) : j <= i
    <3>1. new \in Seq(VersionEdit) /\ Numbered(new) # {}
      BY <1>1, <2>1
    <3>2. QED  BY <3>1, LastEditFound
  <2>4. i = n + 1
    BY <1>2, <2>1, <2>2, <2>3
  <2>5. QED  BY <1>1, <2>3, <2>4
<1>4. ASSUME NEW t \in Tables(new) PROVE t \in (Tables(recs) \ e.del) \cup e.add
  <2>1. PICK i \in 1..(n + 1) : t \in new[i].add /\ \A j \in i..(n + 1) : t \notin new[j].del
    BY <1>1, <1>2 DEF Tables
  <2>2. CASE i = n + 1
    BY <1>1, <2>1, <2>2
  <2>3. CASE i \in 1..n
    <3>1. \A j \in i..n : j \in i..(n + 1) /\ j \in 1..n
      BY <1>2, <2>3
    <3>2. t \in recs[i].add /\ \A j \in i..n : t \notin recs[j].del
      BY <1>1, <2>1, <2>3, <3>1
    <3>3. t \in Tables(recs)
      BY <1>2, <2>3, <3>2 DEF Tables, n
    <3>4. n + 1 \in i..(n + 1)
      BY <1>2, <2>3
    <3>5. QED  BY <1>1, <2>1, <3>3, <3>4
  <2>4. QED  BY <1>2, <2>1, <2>2, <2>3
<1>5. ASSUME NEW t \in e.add PROVE t \in Tables(new)
  <2>1. n + 1 \in 1..(n + 1) /\ \A j \in (n + 1)..(n + 1) : j = n + 1
    BY <1>2
  <2>2. t \in new[n + 1].add /\ \A j \in (n + 1)..(n + 1) : t \notin new[j].del
    BY <1>1, <1>5, <2>1
  <2>3. QED  BY <1>1, <1>2, <2>1, <2>2 DEF Tables
<1>6. ASSUME NEW t \in Tables(recs), t \notin e.del PROVE t \in Tables(new)
  <2>1. PICK i \in 1..n : t \in recs[i].add /\ \A j \in i..n : t \notin recs[j].del
    BY <1>2 DEF Tables, n
  <2>2. \A j \in i..(n + 1) : j = n + 1 \/ (j \in i..n /\ j \in 1..n)
    BY <1>2, <2>1
  <2>3. t \in new[i].add /\ \A j \in i..(n + 1) : t \notin new[j].del
    BY <1>1, <1>6, <2>1, <2>2
  <2>4. i \in 1..(n + 1)
    BY <1>2, <2>1
  <2>5. QED  BY <1>1, <1>2, <2>3, <2>4 DEF Tables
<1>7. Tables(new) = (Tables(recs) \ e.del) \cup e.add
  BY <1>4, <1>5, <1>6
<1>8. QED  BY <1>3, <1>7 DEF View, new

LEMMA ViewFirst ==
  View(<<FirstEdit>>) = [tables |-> {}, log |-> 0, next |-> 2, seq |-> 0]
<1>1. /\ FirstEdit \in VersionEdit /\ FirstEdit.next = 2 /\ FirstEdit.add = {} /\ FirstEdit.del = {}
      /\ FirstEdit.log = 0 /\ FirstEdit.seq = 0
  BY DEF FirstEdit, NoEdit, VersionEdit
<1>2. <<>> \in Seq(VersionEdit) /\ Append(<<>>, FirstEdit) = <<FirstEdit>> /\ Tables(<<>>) = {}
  <2>1. DOMAIN <<>> = {}
    OBVIOUS
  <2>2. Tables(<<>>) = {}
    BY <2>1 DEF Tables
  <2>3. \A e : Append(<<>>, e) = <<e>>
    OBVIOUS
  <2>4. QED  BY <2>2, <2>3
<1> DEFINE e == FirstEdit
           none == <<>>
<1> HIDE DEF e, none
<1>3. /\ e \in VersionEdit /\ e.next = 2 /\ e.add = {} /\ e.del = {} /\ e.log = 0 /\ e.seq = 0
      /\ none \in Seq(VersionEdit) /\ Append(none, e) = <<FirstEdit>> /\ Tables(none) = {}
  BY <1>1, <1>2 DEF e, none
<1>4. e.next # 0 /\ e.add \cap e.del = {}
  BY <1>3
<1>5. View(Append(none, e)) = [tables |-> (Tables(none) \ e.del) \cup e.add, log |-> e.log,
                               next |-> e.next, seq |-> e.seq]
  BY <1>3, <1>4, ViewAppend
<1>6. (Tables(none) \ e.del) \cup e.add = {}
  BY <1>3
<1>7. View(Append(none, e)) = [tables |-> {}, log |-> 0, next |-> 2, seq |-> 0]
  BY <1>3, <1>5, <1>6
<1>8. QED  BY <1>3, <1>7

LEMMA ViewOfSnapshot ==
  ASSUME version \in SUBSET Nat, NEW e \in VersionEdit, e.next # 0, e.del = {}
  PROVE  /\ View(<<Snapshot, e>>) = [tables |-> version \cup e.add, log |-> e.log,
                                     next |-> e.next, seq |-> e.seq]
         /\ <<Snapshot>> \in Seq(VersionEdit) /\ Append(<<Snapshot>>, e) = <<Snapshot, e>>
<1>1. Snapshot \in VersionEdit /\ Snapshot.add = version /\ Snapshot.del = {}
  BY DEF Snapshot, NoEdit, VersionEdit
<1>2. <<Snapshot>> \in Seq(VersionEdit) /\ Append(<<Snapshot>>, e) = <<Snapshot, e>>
  <2>1. Append(<<Snapshot>>, e) = <<Snapshot, e>>
    BY AppendToOne
  <2>2. \A x \in VersionEdit : <<x>> \in Seq(VersionEdit)
    OBVIOUS
  <2>3. QED  BY <1>1, <2>1, <2>2
<1>3. Tables(<<Snapshot>>) = version
  <2> DEFINE s == <<Snapshot>>
  <2>1. DOMAIN s = {1} /\ s[1] = Snapshot /\ Len(s) = 1 /\ 1..1 = {1}
    OBVIOUS
  <2> HIDE DEF s
  <2>2. UNION {s[i].add : i \in DOMAIN s} = version
    BY <1>1, <2>1
  <2>3. Tables(s) = version
    BY <1>1, <2>1, <2>2 DEF Tables
  <2>4. QED  BY <2>3 DEF s
<1> DEFINE s == <<Snapshot>>
<1>4. s \in Seq(VersionEdit) /\ Append(s, e) = <<Snapshot, e>> /\ Tables(s) = version
  BY <1>2, <1>3
<1> HIDE DEF s
<1>5. e.add \cap e.del = {}
  OBVIOUS
<1>6. View(Append(s, e)) = [tables |-> (Tables(s) \ e.del) \cup e.add, log |-> e.log,
                            next |-> e.next, seq |-> e.seq]
  BY <1>4, <1>5, ViewAppend
<1>7. (Tables(s) \ e.del) \cup e.add = version \cup e.add
  BY <1>4
<1>8. View(<<Snapshot, e>>) = [tables |-> version \cup e.add, log |-> e.log, next |-> e.next,
                               seq |-> e.seq]
  BY <1>4, <1>6, <1>7
<1>9. QED  BY <1>2, <1>8

(***************************************************************************)
(* The entries of tables.                                                  *)
(***************************************************************************)
LEMMA TableEntriesUnion ==
  ASSUME NEW A, NEW B
  PROVE  /\ TableEntries(A \cup B) = TableEntries(A) \cup TableEntries(B)
         /\ A \subseteq B => TableEntries(A) \subseteq TableEntries(B)
         /\ TableEntries({}) = {}
  BY DEF TableEntries

LEMMA TableEntriesOne ==
  ASSUME NEW t, NEW S, Recs(Table(t)) = <<S>>
  PROVE  TableEntries({t}) = S
  BY DEF TableEntries

(***************************************************************************)
(* Names, directories and files.                                           *)
(***************************************************************************)
LEMMA Names ==
  /\ \A n \in Nat : {Log(n), Table(n), Manifest(n), Temp(n)} \subseteq FileNames
  /\ \A n : Log(n)[1] = "log" /\ Table(n)[1] = "table" /\ Manifest(n)[1] = "manifest"
            /\ Temp(n)[1] = "temp"
  /\ \A m, n : /\ (Log(m) = Log(n) <=> m = n) /\ (Table(m) = Table(n) <=> m = n)
               /\ (Manifest(m) = Manifest(n) <=> m = n)
               /\ Log(m) # Table(n) /\ Log(m) # Manifest(n) /\ Log(m) # Temp(n)
               /\ Table(m) # Manifest(n) /\ Table(m) # Temp(n) /\ Manifest(m) # Temp(n)
  BY DEF Log, Table, Manifest, Temp, FileNames

LEMMA RecordKinds ==
  \A n : /\ RecordsOf(Log(n)[1]) = Update /\ RecordsOf(Table(n)[1]) = SUBSET Update
         /\ RecordsOf(Manifest(n)[1]) = VersionEdit /\ RecordsOf(Temp(n)[1]) = Nat
  BY Names DEF RecordsOf

LEMMA FileTyped ==
  ASSUME FilesTyped, NEW f \in DOMAIN files
  PROVE  /\ files[f] = Contents(Recs(f), files[f].durable)
         /\ Recs(f) \in Seq(RecordsOf(f[1]))
         /\ files[f].durable \in Nat /\ Len(Recs(f)) \in Nat
         /\ files[f].durable <= Len(Recs(f))
  BY DEF FilesTyped, Recs, Contents

LEMMA RecordsTyped ==
  ASSUME FilesTyped, NEW n
  PROVE  /\ Log(n) \in DOMAIN files => Recs(Log(n)) \in Seq(Update)
         /\ Table(n) \in DOMAIN files => Recs(Table(n)) \in Seq(SUBSET Update)
         /\ Manifest(n) \in DOMAIN files => Recs(Manifest(n)) \in Seq(VersionEdit)
<1>1. \A f \in DOMAIN files : Recs(f) \in Seq(RecordsOf(f[1]))
  BY FileTyped
<1>2. QED  BY <1>1, RecordKinds

LEMMA DirFacts ==
  ASSUME DiskTyped
  PROVE  /\ Dir \in Dirs /\ \A d \in Dirs : d \in Directory
         /\ \A d \in Dirs : d.names \subseteq Reachable(dirs)
         /\ \A f \in Reachable(dirs) : \E d \in Dirs : f \in d.names
         /\ Reachable(dirs) \subseteq DOMAIN files /\ FilesTyped
<1>1. dirs \in Seq(Directory) /\ Len(dirs) \in DOMAIN dirs
  BY DEF DiskTyped
<1>2. Dir \in Dirs /\ \A d \in Dirs : d \in Directory
  BY <1>1 DEF Dirs, Dir
<1>3. QED  BY <1>2 DEF DiskTyped, FilesTyped, Dirs, Reachable

LEMMA DirsAppend ==
  ASSUME DiskTyped, NEW d \in Directory, dirs' = Append(dirs, d)
  PROVE  dirs' \in Seq(Directory) /\ dirs' # <<>> /\ Dir' = d /\ Dirs' = Dirs \cup {d}
<1>1. dirs \in Seq(Directory)
  BY DEF DiskTyped
<1> DEFINE new == Append(dirs, d)
<1>2. /\ new \in Seq(Directory) /\ new # <<>> /\ Len(new) = Len(dirs) + 1
      /\ new[Len(dirs) + 1] = d
  BY <1>1, AppendProperties
<1>3. EntriesOf(new) = EntriesOf(dirs) \cup {d}
  BY <1>1, EntriesAppend
<1>4. dirs' = new
  OBVIOUS
<1> HIDE DEF new
<1>5. dirs' \in Seq(Directory) /\ dirs' # <<>> /\ dirs'[Len(dirs')] = d
  BY <1>2, <1>4
<1>6. {dirs'[i] : i \in DOMAIN dirs'} = {dirs[i] : i \in DOMAIN dirs} \cup {d}
  BY <1>3, <1>4 DEF EntriesOf
<1>7. QED  BY <1>5, <1>6 DEF Dir, Dirs

LEMMA DirsOne ==
  ASSUME NEW d \in Directory, dirs' = <<d>>
  PROVE  dirs' \in Seq(Directory) /\ dirs' # <<>> /\ Dir' = d /\ Dirs' = {d}
<1>1. EntriesOf(<<d>>) = {d}
  BY EntriesSimple
<1>2. <<d>> \in Seq(Directory) /\ <<d>> # <<>> /\ Len(<<d>>) = 1 /\ <<d>>[1] = d
  OBVIOUS
<1>3. dirs' \in Seq(Directory) /\ dirs' # <<>> /\ dirs'[Len(dirs')] = d
  BY <1>2
<1>4. {dirs'[i] : i \in DOMAIN dirs'} = {d}
  BY <1>1 DEF EntriesOf
<1>5. QED  BY <1>3, <1>4 DEF Dir, Dirs

LEMMA ReachableIs ==
  ASSUME NEW ds
  PROVE  \A f : f \in Reachable(ds) <=> \E d \in {ds[i] : i \in DOMAIN ds} : f \in d.names
  BY DEF Reachable

(***************************************************************************)
(* A step of the disk that leaves everything as it is except the names X   *)
(* and the contents of Y.                                                  *)
(***************************************************************************)
Frame(X, Y) ==
  /\ \A f \in DOMAIN files' \ Y : /\ f \in DOMAIN files /\ Recs(f)' = Recs(f)
                                  /\ files'[f].durable >= files[f].durable
  /\ \A d \in Dirs' : \/ d \in Dirs
                      \/ /\ d.current = Dir.current /\ d.names \ X = Dir.names \ X
                         /\ d = Dir' \/ d.names \subseteq Dir.names
  /\ Dir'.current = Dir.current /\ Dir'.names \ X = Dir.names \ X

LEMMA SameDirs ==
  ASSUME UNCHANGED dirs
  PROVE  Dirs' = Dirs /\ Dir' = Dir /\ Reachable(dirs)' = Reachable(dirs)
  BY DEF Dirs, Dir, Reachable

LEMMA NewFile ==
  ASSUME DiskTyped, NEW f \in FileNames, NEW recs \in Seq(RecordsOf(f[1])),
         NewWritableFile(f, recs)
  PROVE  /\ DiskTyped' /\ Frame({f}, {f})
         /\ Dir'.names = Dir.names \cup {f} /\ files'[f] = Contents(recs, 0)
         /\ Dirs \subseteq Dirs' /\ \A d \in Dirs' : d \in Dirs \/ d = Dir'
<1> DEFINE d == [Dir EXCEPT !.names = @ \cup {f}]
<1>1. Dir \in Dirs /\ Dir \in Directory /\ Reachable(dirs) \subseteq DOMAIN files /\ FilesTyped
  BY DirFacts
<1>2. d \in Directory /\ d.names = Dir.names \cup {f} /\ d.current = Dir.current
  BY <1>1 DEF Directory
<1>3. Contents(recs, 0) \in [recs : Seq(RecordsOf(f[1])), durable : Nat] /\ Len(recs) \in Nat
      /\ Contents(recs, 0).durable = 0 /\ Contents(recs, 0).recs = recs
  BY DEF Contents
<1>4. CASE f \in Dir.names
  <2>1. files' = [files EXCEPT ![f] = Contents(recs, 0)] /\ UNCHANGED dirs
    BY <1>4 DEF NewWritableFile
  <2>2. Dirs' = Dirs /\ Dir' = Dir /\ Reachable(dirs)' = Reachable(dirs) /\ f \in DOMAIN files
    <3>1. Dirs' = Dirs /\ Dir' = Dir /\ Reachable(dirs)' = Reachable(dirs)
      BY <2>1, SameDirs
    <3>2. Dir.names \subseteq Reachable(dirs) /\ Reachable(dirs) \subseteq DOMAIN files
      BY DirFacts
    <3>3. QED  BY <1>4, <3>1, <3>2
  <2>3. /\ DOMAIN files' = DOMAIN files /\ files'[f] = Contents(recs, 0)
        /\ \A g \in DOMAIN files \ {f} : files'[g] = files[g]
    BY <2>1, <2>2
  <2>4. FilesTyped'
    <3>1. files' = [g \in DOMAIN files' |-> files'[g]]
      BY <2>1, <1>1 DEF FilesTyped
    <3>2. /\ files'[f] \in [recs : Seq(RecordsOf(f[1])), durable : Nat]
          /\ files'[f].durable <= Len(files'[f].recs)
      <4>1. PICK c : c = Contents(recs, 0)
        OBVIOUS
      <4>2. c \in [recs : Seq(RecordsOf(f[1])), durable : Nat] /\ c.durable <= Len(c.recs)
        BY <1>3, <4>1
      <4>3. QED  BY <2>3, <4>1, <4>2
    <3>3. \A g \in DOMAIN files \ {f} :
            /\ files'[g] \in [recs : Seq(RecordsOf(g[1])), durable : Nat]
            /\ files'[g].durable <= Len(files'[g].recs)
      <4>1. \A g \in DOMAIN files : /\ files[g] \in [recs : Seq(RecordsOf(g[1])), durable : Nat]
                                    /\ files[g].durable <= Len(files[g].recs)
        BY <1>1 DEF FilesTyped
      <4>2. QED  BY <2>3, <4>1
    <3>4. \A g \in DOMAIN files' : /\ files'[g] \in [recs : Seq(RecordsOf(g[1])), durable : Nat]
                                   /\ files'[g].durable <= Len(files'[g].recs)
      BY <2>3, <3>2, <3>3
    <3>5. Reachable(dirs)' \subseteq DOMAIN files' /\ DOMAIN files' \subseteq FileNames
      BY <1>1, <2>2, <2>3 DEF FilesTyped
    <3>6. QED  BY <3>1, <3>4, <3>5 DEF FilesTyped
  <2>5. Frame({f}, {f})
    <3>1. \A g \in DOMAIN files : files[g].durable \in Nat
      BY <1>1, FileTyped
    <3>2. QED  BY <2>2, <2>3, <3>1 DEF Frame, Recs
  <2>6. QED  BY <1>4, <2>1, <2>2, <2>3, <2>4, <2>5 DEF DiskTyped
<1>5. CASE f \notin Dir.names
  <2>1. /\ dirs' = Append(dirs, d)
        /\ files' = [g \in Reachable(dirs) \cup d.names |-> IF g = f THEN Contents(recs, 0) ELSE files[g]]
    BY <1>5 DEF NewWritableFile, Change
  <2>2. /\ dirs' \in Seq(Directory) /\ dirs' # <<>> /\ Dir' = d /\ Dirs' = Dirs \cup {d}
    <3> HIDE DEF d
    <3>1. QED  BY <1>2, <2>1, DirsAppend
  <2>3. Dir.names \subseteq Reachable(dirs)
    BY DirFacts
  <2>4. \A g : g \in Reachable(dirs)' <=> g \in Reachable(dirs) \cup {f}
    <3>1. \A g : g \in Reachable(dirs)' <=> \E c \in Dirs' : g \in c.names
      BY ReachableIs DEF Dirs
    <3>2. \A g : g \in Reachable(dirs) <=> \E c \in Dirs : g \in c.names
      BY ReachableIs DEF Dirs
    <3>3. QED  BY <1>2, <2>2, <2>3, <3>1, <3>2
  <2>5. /\ DOMAIN files' = Reachable(dirs) \cup {f} /\ files'[f] = Contents(recs, 0)
        /\ \A g \in DOMAIN files' \ {f} : files'[g] = files[g] /\ g \in DOMAIN files
    BY <1>1, <1>2, <2>1, <2>3
  <2>6. FilesTyped'
    <3>1. files' = [g \in DOMAIN files' |-> files'[g]]
      BY <2>1
    <3>2. DOMAIN files' \subseteq FileNames
      BY <1>1, <2>5 DEF FilesTyped
    <3>3. \A g \in DOMAIN files' : /\ files'[g] \in [recs : Seq(RecordsOf(g[1])), durable : Nat]
                                   /\ files'[g].durable <= Len(files'[g].recs)
      BY <1>1, <1>3, <2>5 DEF FilesTyped
    <3>4. QED  BY <2>4, <2>5, <3>1, <3>2, <3>3 DEF FilesTyped
  <2>7. Frame({f}, {f})
    <3>1. \A g \in DOMAIN files : files[g].durable \in Nat
      BY <1>1, FileTyped
    <3>2. \A g \in DOMAIN files' \ {f} : /\ g \in DOMAIN files /\ Recs(g)' = Recs(g)
                                         /\ files'[g].durable >= files[g].durable
      BY <2>5, <3>1 DEF Recs
    <3>3. d.names \ {f} = Dir.names \ {f}
      BY <1>2
    <3>4. QED  BY <1>2, <2>2, <3>2, <3>3 DEF Frame
  <2>8. QED  BY <1>2, <2>2, <2>5, <2>6, <2>7 DEF DiskTyped
<1>6. QED  BY <1>4, <1>5

LEMMA SameDisk ==
  ASSUME DiskTyped, UNCHANGED diskVars
  PROVE  DiskTyped' /\ Frame({}, {}) /\ Dirs' = Dirs /\ Dir' = Dir
<1>1. UNCHANGED dirs /\ UNCHANGED files
  BY DEF diskVars
<1>2. Dirs' = Dirs /\ Dir' = Dir /\ Reachable(dirs)' = Reachable(dirs)
  BY <1>1, SameDirs
<1>3. \A g \in DOMAIN files : files[g].durable \in Nat
  BY DirFacts, FileTyped
<1>4. DiskTyped'
  BY <1>1, <1>2 DEF DiskTyped, FilesTyped
<1>5. QED  BY <1>1, <1>2, <1>3, <1>4 DEF Frame, Recs

LEMMA Appended ==
  ASSUME DiskTyped, NEW f \in DOMAIN files, NEW r \in RecordsOf(f[1]), AppendRecord(f, r)
  PROVE  /\ DiskTyped' /\ Frame({}, {f}) /\ Dirs' = Dirs /\ Dir' = Dir
         /\ Recs(f)' = Append(Recs(f), r) /\ files'[f].durable = files[f].durable
         /\ DOMAIN files' = DOMAIN files /\ \A g \in DOMAIN files : g # f => files'[g] = files[g]
<1>1. FilesTyped
  BY DirFacts
<1>2. /\ files[f] \in [recs : Seq(RecordsOf(f[1])), durable : Nat]
      /\ files[f].durable <= Len(files[f].recs)
  BY <1>1 DEF FilesTyped
<1>3. files' = [files EXCEPT ![f].recs = Append(@, r)] /\ UNCHANGED dirs
  BY DEF AppendRecord
<1>4. Dirs' = Dirs /\ Dir' = Dir /\ Reachable(dirs)' = Reachable(dirs)
  BY <1>3, SameDirs
<1>5. /\ DOMAIN files' = DOMAIN files /\ files' = [g \in DOMAIN files' |-> files'[g]]
      /\ \A g \in DOMAIN files : g # f => files'[g] = files[g]
  BY <1>1, <1>3 DEF FilesTyped
<1>6. /\ files'[f] = [files[f] EXCEPT !.recs = Append(@, r)]
  BY <1>1, <1>3 DEF FilesTyped
<1>7. files'[f].recs = Append(files[f].recs, r) /\ files'[f].durable = files[f].durable
  BY <1>2, <1>6
<1>8. files'[f] \in [recs : Seq(RecordsOf(f[1])), durable : Nat]
  <2>1. files[f].recs \in Seq(RecordsOf(f[1])) /\ files[f].durable \in Nat
    BY <1>2
  <2>2. files'[f].recs \in Seq(RecordsOf(f[1]))
    BY <1>7, <2>1
  <2>3. files'[f] = [recs |-> files'[f].recs, durable |-> files'[f].durable]
    BY <1>2, <1>6
  <2>4. QED  BY <1>7, <2>1, <2>2, <2>3
<1>9. Len(files'[f].recs) = Len(files[f].recs) + 1 /\ Len(files[f].recs) \in Nat
  BY <1>2, <1>7
<1>10. files'[f].durable <= Len(files'[f].recs)
  BY <1>2, <1>7, <1>9
<1>11. FilesTyped'
  <2>1. \A g \in DOMAIN files' : /\ files'[g] \in [recs : Seq(RecordsOf(g[1])), durable : Nat]
                                 /\ files'[g].durable <= Len(files'[g].recs)
    BY <1>1, <1>5, <1>8, <1>10 DEF FilesTyped
  <2>2. Reachable(dirs)' \subseteq DOMAIN files' /\ DOMAIN files' \subseteq FileNames
    BY <1>1, <1>4, <1>5 DEF FilesTyped
  <2>3. QED  BY <1>5, <2>1, <2>2 DEF FilesTyped
<1>12. Frame({}, {f})
  <2>1. \A g \in DOMAIN files : files[g].durable \in Nat
    BY <1>1, FileTyped
  <2>2. QED  BY <1>4, <1>5, <2>1 DEF Frame, Recs
<1>13. QED  BY <1>3, <1>4, <1>5, <1>7, <1>11, <1>12 DEF DiskTyped, Recs

LEMMA Synced ==
  ASSUME DiskTyped, NEW f \in Dir.names, NEW recs \in Seq(RecordsOf(f[1])), SyncFile(f, recs)
  PROVE  /\ DiskTyped' /\ Frame({}, {f}) /\ (recs = Recs(f) => Frame({}, {}))
         /\ Dirs' = {Dir} /\ Dir' = Dir /\ files'[f] = Contents(recs, Len(recs))
         /\ \A g \in Dir.names : g # f => files'[g] = files[g]
<1>1. Dir \in Dirs /\ Dir \in Directory /\ Dir.names \subseteq DOMAIN files /\ FilesTyped
  BY DirFacts
<1>2. /\ dirs' = <<Dir>>
      /\ files' = [g \in Dir.names |-> IF g = f THEN Contents(recs, Len(recs)) ELSE files[g]]
  BY DEF SyncFile
<1>3. dirs' \in Seq(Directory) /\ dirs' # <<>> /\ Dir' = Dir /\ Dirs' = {Dir}
  <2> DEFINE d == Dir
  <2> HIDE DEF d
  <2>1. d \in Directory /\ dirs' = <<d>>
    BY <1>1, <1>2 DEF d
  <2>2. dirs' \in Seq(Directory) /\ dirs' # <<>> /\ Dir' = d /\ Dirs' = {d}
    BY <2>1, DirsOne
  <2>3. QED  BY <2>2 DEF d
<1>4. \A g : g \in Reachable(dirs)' <=> g \in Dir.names
  <2>1. \A g : g \in Reachable(dirs)' <=> \E c \in Dirs' : g \in c.names
    BY ReachableIs DEF Dirs
  <2>2. QED  BY <1>3, <2>1
<1>5. /\ DOMAIN files' = Dir.names /\ files'[f] = Contents(recs, Len(recs))
      /\ \A g \in Dir.names : g # f => files'[g] = files[g]
      /\ files' = [g \in DOMAIN files' |-> files'[g]]
  BY <1>2
<1>6. /\ Contents(recs, Len(recs)) \in [recs : Seq(RecordsOf(f[1])), durable : Nat]
      /\ Contents(recs, Len(recs)).recs = recs /\ Contents(recs, Len(recs)).durable = Len(recs)
      /\ Len(recs) <= Len(recs) /\ Len(recs) \in Nat
  BY DEF Contents
<1>7. FilesTyped'
  <2>1. \A g \in DOMAIN files' : /\ files'[g] \in [recs : Seq(RecordsOf(g[1])), durable : Nat]
                                 /\ files'[g].durable <= Len(files'[g].recs)
    BY <1>1, <1>5, <1>6 DEF FilesTyped
  <2>2. Reachable(dirs)' \subseteq DOMAIN files' /\ DOMAIN files' \subseteq FileNames
    BY <1>1, <1>4, <1>5 DEF FilesTyped
  <2>3. QED  BY <1>5, <2>1, <2>2 DEF FilesTyped
<1>8. \A g \in DOMAIN files : files[g].durable \in Nat /\ files[g].durable <= Len(Recs(g))
  BY <1>1, FileTyped
<1>9. Frame({}, {f})
  BY <1>1, <1>3, <1>5, <1>8 DEF Frame, Recs
<1>10. ASSUME recs = Recs(f) PROVE Frame({}, {})
  <2>1. Recs(f)' = recs /\ files'[f].durable = Len(recs) /\ f \in DOMAIN files
    BY <1>1, <1>5, <1>6 DEF Recs
  <2>2. files'[f].durable >= files[f].durable /\ Recs(f)' = Recs(f)
    BY <1>6, <1>8, <1>10, <2>1
  <2>3. \A g \in DOMAIN files' : /\ g \in DOMAIN files /\ Recs(g)' = Recs(g)
                                 /\ files'[g].durable >= files[g].durable
    BY <1>1, <1>5, <1>8, <2>1, <2>2 DEF Recs
  <2>4. QED  BY <1>3, <2>3 DEF Frame
<1>11. QED  BY <1>3, <1>5, <1>7, <1>9, <1>10 DEF DiskTyped

LEMMA WroteFile ==
  ASSUME DiskTyped, NEW f \in FileNames, NEW r \in RecordsOf(f[1]), WriteFileSync(f, r)
  PROVE  /\ DiskTyped' /\ Frame({f}, {f}) /\ Dirs' = {Dir'} /\ Dir'.names = Dir.names \cup {f}
         /\ \A g \in Dir.names : g # f => files'[g] = files[g]
<1> DEFINE d == [Dir EXCEPT !.names = @ \cup {f}]
<1>1. Dir \in Dirs /\ Dir \in Directory /\ Dir.names \subseteq DOMAIN files /\ FilesTyped
  BY DirFacts
<1>2. d \in Directory /\ d.names = Dir.names \cup {f} /\ d.current = Dir.current
  BY <1>1 DEF Directory
<1>3. /\ dirs' = <<d>>
      /\ files' = [g \in Dir.names \cup {f} |-> IF g = f THEN Contents(<<r>>, 1) ELSE files[g]]
  BY DEF WriteFileSync
<1> HIDE DEF d
<1>4. dirs' \in Seq(Directory) /\ dirs' # <<>> /\ Dir' = d /\ Dirs' = {d}
  BY <1>2, <1>3, DirsOne
<1>5. \A g : g \in Reachable(dirs)' <=> g \in Dir.names \cup {f}
  <2>1. \A g : g \in Reachable(dirs)' <=> \E c \in Dirs' : g \in c.names
    BY ReachableIs DEF Dirs
  <2>2. QED  BY <1>2, <1>4, <2>1
<1>6. /\ DOMAIN files' = Dir.names \cup {f} /\ files'[f] = Contents(<<r>>, 1)
      /\ \A g \in Dir.names : g # f => files'[g] = files[g]
      /\ files' = [g \in DOMAIN files' |-> files'[g]]
  BY <1>3
<1>7. /\ Contents(<<r>>, 1) \in [recs : Seq(RecordsOf(f[1])), durable : Nat]
      /\ Contents(<<r>>, 1).durable <= Len(Contents(<<r>>, 1).recs)
  BY DEF Contents
<1>8. FilesTyped'
  <2>1. \A g \in DOMAIN files' : /\ files'[g] \in [recs : Seq(RecordsOf(g[1])), durable : Nat]
                                 /\ files'[g].durable <= Len(files'[g].recs)
    BY <1>1, <1>6, <1>7 DEF FilesTyped
  <2>2. Reachable(dirs)' \subseteq DOMAIN files' /\ DOMAIN files' \subseteq FileNames
    BY <1>1, <1>5, <1>6 DEF FilesTyped
  <2>3. QED  BY <1>6, <2>1, <2>2 DEF FilesTyped
<1>9. Frame({f}, {f})
  <2>1. \A g \in DOMAIN files : files[g].durable \in Nat
    BY <1>1, FileTyped
  <2>2. \A g \in DOMAIN files' \ {f} : /\ g \in DOMAIN files /\ Recs(g)' = Recs(g)
                                       /\ files'[g].durable >= files[g].durable
    BY <1>1, <1>6, <2>1 DEF Recs
  <2>3. QED  BY <1>2, <1>4, <2>2 DEF Frame
<1>10. QED  BY <1>2, <1>4, <1>6, <1>8, <1>9 DEF DiskTyped

\* Removing files, of which some may not be there.
LEMMA WithoutTyped ==
  ASSUME DiskTyped, NEW f, dirs' = Without(dirs, f), UNCHANGED files
  PROVE  /\ DiskTyped' /\ Frame({f}, {}) /\ Dir'.names = Dir.names \ {f}
         /\ \A d \in Dirs' : d \in Dirs \/ d = Dir'
<1>1. Dir \in Dirs /\ Dir \in Directory /\ Dir.names \subseteq Reachable(dirs) /\ FilesTyped
  BY DirFacts
<1>2. \A g \in DOMAIN files : files[g].durable \in Nat
  BY <1>1, FileTyped
<1>3. CASE f \in Dir.names
  <2> DEFINE d == [Dir EXCEPT !.names = @ \ {f}]
  <2>1. d \in Directory /\ d.names = Dir.names \ {f} /\ d.current = Dir.current
    BY <1>1 DEF Directory
  <2>2. dirs' = Append(dirs, d)
    BY <1>3 DEF Without, Dir
  <2> HIDE DEF d
  <2>3. dirs' \in Seq(Directory) /\ dirs' # <<>> /\ Dir' = d /\ Dirs' = Dirs \cup {d}
    BY <2>1, <2>2, DirsAppend
  <2>4. \A g : g \in Reachable(dirs)' => g \in Reachable(dirs)
    <3>1. \A g : g \in Reachable(dirs)' <=> \E c \in Dirs' : g \in c.names
      BY ReachableIs DEF Dirs
    <3>2. \A g : g \in Reachable(dirs) <=> \E c \in Dirs : g \in c.names
      BY ReachableIs DEF Dirs
    <3>3. QED  BY <1>1, <2>1, <2>3, <3>1, <3>2
  <2>5. DiskTyped'
    BY <1>1, <2>3, <2>4 DEF DiskTyped, FilesTyped
  <2>6. d.names \ {f} = Dir.names \ {f}
    BY <2>1
  <2>7. QED  BY <1>2, <2>1, <2>3, <2>5, <2>6 DEF Frame, Recs
<1>4. CASE f \notin Dir.names
  <2>1. UNCHANGED dirs
    BY <1>4 DEF Without, Dir
  <2>2. UNCHANGED diskVars
    BY <2>1 DEF diskVars
  <2>3. DiskTyped' /\ Dirs' = Dirs /\ Dir' = Dir
    BY <2>2, SameDisk
  <2>4. Dir.names \ {f} = Dir.names
    BY <1>4
  <2>5. QED  BY <1>2, <2>3, <2>4 DEF Frame, Recs
<1>5. QED  BY <1>3, <1>4

LEMMA WithoutOf ==
  ASSUME NEW ds \in Seq(Directory), ds # <<>>, NEW f, NEW w, w = Without(ds, f)
  PROVE  /\ w \in Seq(Directory) /\ w # <<>>
         /\ w[Len(w)].names = ds[Len(ds)].names \ {f}
         /\ w[Len(w)].current = ds[Len(ds)].current
         /\ EntriesOf(ds) \subseteq EntriesOf(w)
         /\ EntriesOf(w) \subseteq EntriesOf(ds) \cup {w[Len(w)]}
<1> DEFINE last == ds[Len(ds)]
<1>1. last \in Directory
  OBVIOUS
<1>2. CASE f \in last.names
  <2> DEFINE d == [last EXCEPT !.names = @ \ {f}]
  <2>1. d \in Directory /\ d.names = last.names \ {f} /\ d.current = last.current
    BY <1>1 DEF Directory
  <2>2. w = Append(ds, d)
    BY <1>2 DEF Without
  <2> HIDE DEF d
  <2>3. /\ Append(ds, d) \in Seq(Directory) /\ Append(ds, d) # <<>>
        /\ Len(Append(ds, d)) = Len(ds) + 1 /\ Append(ds, d)[Len(ds) + 1] = d
    BY <2>1, AppendProperties
  <2>4. EntriesOf(Append(ds, d)) = EntriesOf(ds) \cup {d}
    BY <2>1, EntriesAppend
  <2>5. w[Len(w)] = d /\ w \in Seq(Directory) /\ w # <<>>
    BY <2>2, <2>3
  <2>6. QED  BY <2>1, <2>2, <2>4, <2>5
<1>3. CASE f \notin last.names
  <2>1. w = ds /\ last.names \ {f} = last.names
    BY <1>3 DEF Without
  <2>2. QED  BY <2>1
<1>4. QED  BY <1>2, <1>3

LEMMA WithoutTwo ==
  ASSUME DiskTyped, NEW f, NEW g, dirs' = Without(Without(dirs, f), g), UNCHANGED files
  PROVE  DiskTyped' /\ Frame({f, g}, {}) /\ Dir'.names = Dir.names \ {f, g}
<1> DEFINE w == Without(dirs, f)
           last == w[Len(w)]
<1>1. Dir \in Dirs /\ Dir \in Directory /\ Dir.names \subseteq Reachable(dirs) /\ FilesTyped
  BY DirFacts
<1>2. dirs \in Seq(Directory) /\ dirs # <<>>
  BY DEF DiskTyped
<1> HIDE DEF w
<1>3. /\ w \in Seq(Directory) /\ w # <<>> /\ last.names = Dir.names \ {f}
      /\ last.current = Dir.current /\ EntriesOf(w) \subseteq EntriesOf(dirs) \cup {last}
  BY <1>2, WithoutOf DEF w, Dir
<1> HIDE DEF last
<1>4. dirs' = Without(w, g)
  BY DEF w
<1>5. /\ dirs' \in Seq(Directory) /\ dirs' # <<>>
      /\ Dir'.names = last.names \ {g} /\ Dir'.current = last.current
      /\ EntriesOf(dirs') \subseteq EntriesOf(w) \cup {Dir'}
  BY <1>3, <1>4, WithoutOf DEF last, Dir
<1>6. Dirs' = EntriesOf(dirs') /\ Dirs = EntriesOf(dirs)
  BY DEF Dirs, EntriesOf
<1>7. /\ Dir'.names = Dir.names \ {f, g} /\ Dir'.current = Dir.current
      /\ \A d \in Dirs' : d \in Dirs \/ d = last \/ d = Dir'
  BY <1>3, <1>5, <1>6
<1>8. \A h : h \in Reachable(dirs)' => h \in Reachable(dirs)
  <2>1. \A h : h \in Reachable(dirs)' <=> \E c \in Dirs' : h \in c.names
    BY ReachableIs DEF Dirs
  <2>2. \A h : h \in Reachable(dirs) <=> \E c \in Dirs : h \in c.names
    BY ReachableIs DEF Dirs
  <2>3. QED  BY <1>1, <1>3, <1>7, <2>1, <2>2
<1>9. DiskTyped'
  BY <1>1, <1>5, <1>8 DEF DiskTyped, FilesTyped
<1>10. \A h \in DOMAIN files : files[h].durable \in Nat
  BY <1>1, FileTyped
<1>11. /\ last.names \ {f, g} = Dir.names \ {f, g} /\ last.names \subseteq Dir.names
       /\ Dir'.names \ {f, g} = Dir.names \ {f, g}
  BY <1>3, <1>7
<1>12. QED  BY <1>3, <1>7, <1>9, <1>10, <1>11 DEF Frame, Recs

(***************************************************************************)
(* Views.                                                                  *)
(***************************************************************************)
LEMMA ViewsTyped ==
  ASSUME FilesTyped, NEW m, Manifest(m) \in DOMAIN files, HasCounters(m)
  PROVE  /\ \A v \in Views(m) : v \in ViewType
         /\ View(Recs(Manifest(m))) \in Views(m)
<1> DEFINE recs == Recs(Manifest(m))
           dur == files[Manifest(m)].durable
<1>1. recs \in Seq(VersionEdit) /\ dur \in Nat /\ dur <= Len(recs) /\ Len(recs) \in Nat
  BY FileTyped, RecordsTyped
<1>2. PICK k \in 1..dur : recs[k].next # 0
  BY DEF HasCounters
<1> HIDE DEF recs, dur
<1>3. ASSUME NEW n \in dur..Len(recs) PROVE View(SubSeq(recs, 1, n)) \in ViewType
  <2>1. n \in 0..Len(recs) /\ k \in 1..n
    BY <1>1
  <2> DEFINE s == SubSeq(recs, 1, n)
  <2>2. s \in Seq(VersionEdit) /\ DOMAIN s = 1..n /\ s[k] = recs[k]
    BY <1>1, <2>1, Prefix
  <2> HIDE DEF s
  <2>3. k \in Numbered(s)
    BY <1>2, <2>1, <2>2 DEF Numbered
  <2>4. View(s) \in ViewType
    BY <2>2, <2>3, ViewTyped
  <2>5. QED  BY <2>4 DEF s
<1>4. SubSeq(recs, 1, Len(recs)) = recs /\ Len(recs) \in dur..Len(recs)
  BY <1>1, SubSeqFull
<1>5. Views(m) = {View(SubSeq(recs, 1, n)) : n \in dur..Len(recs)}
  BY DEF Views, ViewOf, recs, dur
<1>6. View(recs) \in Views(m)
  BY <1>4, <1>5
<1>7. QED  BY <1>3, <1>5, <1>6 DEF recs

\* What the invariant says of one directory that has a CURRENT file.
LEMMA DirOpen ==
  ASSUME DiskTyped, NEW d \in Dirs, d.current # 0, DirInv(d)
  PROVE  /\ Manifest(d.current) \in d.names /\ Manifest(d.current) \in DOMAIN files
         /\ HasCounters(d.current) /\ Dir.current # 0
         /\ View(Recs(Manifest(d.current))) \in Views(d.current)
         /\ \A v \in Views(d.current) : v \in ViewType /\ Sound(d, v)
<1>1. /\ Manifest(d.current) \in d.names /\ HasCounters(d.current) /\ Dir.current # 0
      /\ \A v \in Views(d.current) : Sound(d, v)
  BY DEF DirInv
<1>2. Manifest(d.current) \in DOMAIN files /\ FilesTyped
  BY <1>1, DirFacts
<1>3. QED  BY <1>1, <1>2, ViewsTyped

LEMMA SaysSplit ==
  ASSUME NEW d, NEW v
  PROVE  /\ \A e : e \in Says(d, v) <=> \/ e \in TableEntries(v.tables)
                                        \/ \E l \in Nat : l >= v.log /\ Log(l) \in d.names /\ e \in LogEntries(l)
         /\ \A e : e \in IsSure(d, v) <=> \/ e \in TableEntries(v.tables)
                                          \/ \E l \in Nat : l >= v.log /\ Log(l) \in d.names /\ e \in SafeEntries(l)
  BY DEF Says, IsSure, Logged, LoggedSafely, LogsFor

(***************************************************************************)
(* What a step of the disk keeps.                                          *)
(***************************************************************************)
LEMMA FrameTables ==
  ASSUME NEW X, NEW Y, Frame(X, Y), NEW T, \A t \in T : Table(t) \in DOMAIN files' \ Y
  PROVE  TableEntries(T)' = TableEntries(T)
<1>1. \A t \in T : Recs(Table(t))' = Recs(Table(t))
  BY DEF Frame
<1>2. QED  BY <1>1 DEF TableEntries

LEMMA FrameWhole ==
  ASSUME DiskTyped, DiskTyped', NEW X, NEW Y, Frame(X, Y),
         NEW t, Table(t) \in DOMAIN files' \ Y, Whole(t)
  PROVE  Whole(t)'
<1>1. Recs(Table(t))' = Recs(Table(t)) /\ files'[Table(t)].durable >= files[Table(t)].durable
  BY DEF Frame
<1>2. FilesTyped'
  BY DEF DiskTyped
<1>3. files'[Table(t)].durable \in Nat /\ files'[Table(t)].durable <= Len(Recs(Table(t))')
  BY <1>2 DEF FilesTyped, Recs
<1>4. Len(Recs(Table(t))') = 1 /\ files[Table(t)].durable = 1
  BY <1>1 DEF Whole
<1>5. \A a \in Nat : a >= 1 /\ a <= 1 => a = 1
  OBVIOUS
<1>6. files'[Table(t)].durable = 1
  BY <1>1, <1>3, <1>4, <1>5
<1>7. QED  BY <1>4, <1>6 DEF Whole

LEMMA FrameViews ==
  ASSUME DiskTyped, DiskTyped', NEW X, NEW Y, Frame(X, Y),
         NEW m, Manifest(m) \in DOMAIN files' \ Y
  PROVE  /\ Views(m)' \subseteq Views(m) /\ (HasCounters(m) => HasCounters(m)')
         /\ View(Recs(Manifest(m)))' = View(Recs(Manifest(m)))
<1> DEFINE f == Manifest(m)
<1>1. /\ Recs(f)' = Recs(f) /\ files'[f].durable >= files[f].durable
      /\ f \in DOMAIN files
  BY DEF Frame
<1>2. files'[f].durable \in Nat /\ files[f].durable \in Nat /\ Len(Recs(f)) \in Nat
  BY <1>1 DEF DiskTyped, FilesTyped, Recs
<1>3. files'[f].durable..Len(Recs(f)) \subseteq files[f].durable..Len(Recs(f))
  BY <1>1, <1>2
<1>4. 1..files[f].durable \subseteq 1..files'[f].durable
  BY <1>1, <1>2
<1>5. Views(m)' \subseteq Views(m)
  BY <1>1, <1>3 DEF Views, ViewOf
<1>6. HasCounters(m) => HasCounters(m)'
  BY <1>1, <1>4 DEF HasCounters
<1>7. View(Recs(f))' = View(Recs(f))
  <2>1. \A r : View(r)' = View(r)
    BY DEF View, Tables, LastEdit, Numbered
  <2>2. QED  BY <1>1, <2>1
<1>8. QED  BY <1>5, <1>6, <1>7

LEMMA FrameLogs ==
  ASSUME DiskTyped, DiskTyped', NEW X, NEW Y, Frame(X, Y),
         NEW l \in Nat, Log(l) \in DOMAIN files' \ Y
  PROVE  LogEntries(l)' = LogEntries(l) /\ SafeEntries(l) \subseteq SafeEntries(l)'
<1> DEFINE f == Log(l)
           recs == Recs(f)
<1>1. Recs(f)' = recs /\ files'[f].durable >= files[f].durable /\ f \in DOMAIN files
  BY DEF Frame
<1>2. FilesTyped /\ FilesTyped'
  BY DEF DiskTyped
<1>3. recs \in Seq(Update)
  BY <1>1, <1>2, RecordsTyped
<1>4. /\ files'[f].durable \in Nat /\ files[f].durable \in Nat /\ Len(recs) \in Nat
      /\ files'[f].durable <= Len(recs)
  BY <1>1, <1>2, <1>3 DEF FilesTyped, Recs
<1> HIDE DEF recs
<1>5. files[f].durable \in 0..Len(recs) /\ files'[f].durable \in files[f].durable..Len(recs)
  BY <1>1, <1>4
<1>6. EntriesOf(SubSeq(recs, 1, files[f].durable)) \subseteq EntriesOf(SubSeq(recs, 1, files'[f].durable))
  BY <1>3, <1>5, PrefixGrows
<1>7. LogEntries(l)' = EntriesOf(recs) /\ LogEntries(l) = EntriesOf(recs)
  BY <1>1 DEF LogEntries, EntriesOf, recs
<1>8. /\ SafeEntries(l)' = EntriesOf(SubSeq(recs, 1, files'[f].durable))
      /\ SafeEntries(l) = EntriesOf(SubSeq(recs, 1, files[f].durable))
  BY <1>1 DEF SafeEntries, EntriesOf, recs
<1>9. QED  BY <1>6, <1>7, <1>8

(***************************************************************************)
(* Nothing that is needed is among the names X and the contents Y: no      *)
(* MANIFEST that CURRENT names, no table in use, and of the logs only ones *)
(* that are new, and empty, or that no view needs.                         *)
(***************************************************************************)
Harmless(X, Y) ==
  /\ \A f \in Y : /\ \A d \in Dirs : d.current # 0 => f # Manifest(d.current)
                  /\ \A t \in InUse : f # Table(t)
  /\ Dir.current # 0 =>
       \A f \in X : /\ f # Manifest(Dir.current)
                    /\ \A v \in Views(Dir.current) : \A t \in v.tables : f # Table(t)
  /\ \A l \in Nat : Log(l) \in X \cup Y =>
       /\ Dir.current # 0
       /\ \/ Log(l) \notin Reachable(dirs) /\ (Log(l) \in DOMAIN files' => Recs(Log(l))' = <<>>)
          \/ Log(l) \notin Y /\ \A v \in Views(Dir.current) : l < v.log

\* The directory d1 says after the step what d said before it.
Follows(d1, d, X) ==
  /\ d1.current = d.current
  /\ d1 = d \/ (d = Dir /\ d1.names \ X = Dir.names \ X)

LEMMA FrameSays ==
  ASSUME DiskInv, DiskTyped', NEW X, NEW Y, Frame(X, Y), Harmless(X, Y),
         NEW d \in Dirs, NEW d1 \in Dirs', Follows(d1, d, X), d.current # 0,
         NEW v \in Views(d.current)
  PROVE  /\ \A t \in v.tables : Table(t) \in d1.names /\ Whole(t)'
         /\ TableEntries(v.tables)' = TableEntries(v.tables)
         /\ Says(d1, v)' = Says(d, v) /\ IsSure(d, v) \subseteq IsSure(d1, v)'
<1>1. DiskTyped /\ DirInv(d)
  BY DEF DiskInv
<1>2. v \in ViewType /\ Sound(d, v)
  BY <1>1, DirOpen
<1>3. d1.names \subseteq DOMAIN files' /\ d.names \subseteq Reachable(dirs)
  <2>1. d.names \subseteq Reachable(dirs)
    BY <1>1, DirFacts
  <2>2. \A g : g \in Reachable(dirs)' <=> \E c \in Dirs' : g \in c.names
    BY ReachableIs DEF Dirs
  <2>3. Reachable(dirs)' \subseteq DOMAIN files'
    BY DEF DiskTyped, FilesTyped
  <2>4. QED  BY <2>1, <2>2, <2>3
<1>4. ASSUME NEW t \in v.tables PROVE Table(t) \in d1.names /\ Table(t) \notin Y /\ Whole(t)
  <2>1. Table(t) \in d.names /\ Whole(t)
    BY <1>2 DEF Sound
  <2>2. t \in InUse
    BY DEF InUse
  <2>3. Table(t) \notin Y
    BY <2>2 DEF Harmless
  <2>4. d = Dir => Table(t) \notin X
    BY DEF Harmless
  <2>5. QED  BY <2>1, <2>3, <2>4 DEF Follows
<1>5. \A t \in v.tables : Whole(t)'
  BY <1>1, <1>3, <1>4, FrameWhole
<1>6. TableEntries(v.tables)' = TableEntries(v.tables)
  BY <1>3, <1>4, FrameTables
<1>7. ASSUME NEW l \in Nat, l >= v.log
      PROVE  /\ Log(l) \in d.names => /\ Log(l) \in d1.names /\ LogEntries(l)' = LogEntries(l)
                                      /\ SafeEntries(l) \subseteq SafeEntries(l)'
             /\ Log(l) \in d1.names => Log(l) \in d.names \/ LogEntries(l)' = {}
  <2>1. \/ Log(l) \notin X \cup Y
        \/ Log(l) \notin Reachable(dirs) /\ (Log(l) \in DOMAIN files' => Recs(Log(l))' = <<>>)
        \/ Log(l) \notin Y /\ d1 = d
    <3>1. CASE d1 = d
      BY <3>1 DEF Harmless
    <3>2. CASE d = Dir
      <4>1. v.log \in Nat /\ ~(l < v.log)
        BY <1>2, <1>7 DEF ViewType
      <4>2. QED  BY <3>2, <4>1 DEF Harmless
    <3>3. QED  BY <3>1, <3>2 DEF Follows
  <2>2. ASSUME Log(l) \in d1.names, Log(l) \notin Y
        PROVE  LogEntries(l)' = LogEntries(l) /\ SafeEntries(l) \subseteq SafeEntries(l)'
    BY <1>1, <1>3, <2>2, FrameLogs
  <2>3. CASE Log(l) \notin X \cup Y
    BY <2>2, <2>3 DEF Follows
  <2>4. CASE Log(l) \notin Reachable(dirs) /\ (Log(l) \in DOMAIN files' => Recs(Log(l))' = <<>>)
    <3>1. Log(l) \notin d.names
      BY <1>3, <2>4
    <3>2. Log(l) \in d1.names => LogEntries(l)' = {}
      <4>1. EntriesOf(<<>>) = {}
        BY EntriesSimple
      <4>2. Log(l) \in d1.names => Recs(Log(l))' = <<>>
        BY <1>3, <2>4
      <4>3. LogEntries(l)' = EntriesOf(Recs(Log(l))')
        BY DEF LogEntries, EntriesOf
      <4>4. QED  BY <4>1, <4>2, <4>3
    <3>3. QED  BY <3>1, <3>2
  <2>5. CASE Log(l) \notin Y /\ d1 = d
    BY <2>2, <2>5
  <2>6. QED  BY <2>1, <2>3, <2>4, <2>5
<1>8. /\ \A e : e \in Says(d1, v)' <=> \/ e \in TableEntries(v.tables)'
                                       \/ \E l \in Nat : l >= v.log /\ Log(l) \in d1.names /\ e \in LogEntries(l)'
      /\ \A e : e \in IsSure(d1, v)' <=> \/ e \in TableEntries(v.tables)'
                                         \/ \E l \in Nat : l >= v.log /\ Log(l) \in d1.names /\ e \in SafeEntries(l)'
  BY DEF Says, IsSure, Logged, LoggedSafely, LogsFor, Log
<1>9. Says(d1, v)' = Says(d, v)
  <2>1. \A e : e \in Says(d1, v)' <=> e \in Says(d, v)
    BY <1>6, <1>7, <1>8, SaysSplit
  <2>2. QED  BY <2>1
<1>10. IsSure(d, v) \subseteq IsSure(d1, v)'
  BY <1>6, <1>7, <1>8, SaysSplit
<1>11. QED  BY <1>4, <1>5, <1>6, <1>9, <1>10

LEMMA FrameCurrent ==
  ASSUME DiskInv, DiskTyped', NEW X, NEW Y, Frame(X, Y), Harmless(X, Y),
         NEW d \in Dirs, NEW d1 \in Dirs', Follows(d1, d, X), d.current # 0
  PROVE  /\ Manifest(d.current) \in d1.names /\ Views(d.current)' \subseteq Views(d.current)
         /\ HasCounters(d.current)'
         /\ View(Recs(Manifest(d.current)))' = View(Recs(Manifest(d.current)))
<1>1. DiskTyped /\ DirInv(d)
  BY DEF DiskInv
<1>2. Manifest(d.current) \in d.names /\ HasCounters(d.current)
  BY <1>1, DirOpen
<1>3. Manifest(d.current) \notin Y /\ (d = Dir => Manifest(d.current) \notin X)
  BY DEF Harmless
<1>4. Manifest(d.current) \in d1.names
  BY <1>2, <1>3 DEF Follows
<1>5. Manifest(d.current) \in DOMAIN files'
  <2>1. \A g : g \in Reachable(dirs)' <=> \E c \in Dirs' : g \in c.names
    BY ReachableIs DEF Dirs
  <2>2. QED  BY <1>4, <2>1 DEF DiskTyped, FilesTyped
<1>6. QED  BY <1>1, <1>2, <1>3, <1>4, <1>5, FrameViews

LEMMA NextDirs ==
  ASSUME DiskTyped'
  PROVE  /\ Dir' \in Dirs' /\ FilesTyped'
         /\ \A d \in Dirs' : d \in Directory /\ d.names \subseteq DOMAIN files'
         /\ \A f : f \in Reachable(dirs)' <=> \E d \in Dirs' : f \in d.names
<1>1. dirs' \in Seq(Directory) /\ Len(dirs') \in DOMAIN dirs' /\ FilesTyped'
  BY DEF DiskTyped
<1>2. Dir' \in Dirs' /\ \A d \in Dirs' : d \in Directory
  BY <1>1 DEF Dirs, Dir
<1>3. \A f : f \in Reachable(dirs)' <=> \E d \in Dirs' : f \in d.names
  BY ReachableIs DEF Dirs
<1>4. QED  BY <1>1, <1>2, <1>3 DEF FilesTyped

LEMMA FullIs ==
  ASSUME NEW d, NEW v, Dir' = d, Final' = v
  PROVE  Full' = IF d.current = 0 THEN {} ELSE Says(d, v)'
  BY DEF Full, Says, TableEntries, Logged, LogsFor

LEMMA FrameFull ==
  ASSUME DiskInv, DiskTyped', NEW X, NEW Y, Frame(X, Y), Harmless(X, Y)
  PROVE  /\ Full' = Full /\ Dir'.current = Dir.current
         /\ Dir.current # 0 => /\ Final' = Final /\ Final \in Views(Dir.current)
                               /\ Views(Dir.current)' \subseteq Views(Dir.current)
<1>1. Dir \in Dirs /\ DirInv(Dir) /\ DiskTyped
  BY DirFacts DEF DiskInv
<1>2. Dir' \in Dirs' /\ Follows(Dir', Dir, X) /\ Dir'.current = Dir.current
  BY NextDirs DEF Frame, Follows
<1>3. CASE Dir.current = 0
  <2>1. Full = {}
    BY <1>3 DEF Full
  <2>2. Full' = {}
    BY <1>2, <1>3 DEF Full
  <2>3. QED  BY <1>2, <1>3, <2>1, <2>2
<1>4. CASE Dir.current # 0
  <2>1. PICK d1 \in Dirs' : d1 = Dir'
    BY <1>2
  <2>2. /\ Views(Dir.current)' \subseteq Views(Dir.current)
        /\ View(Recs(Manifest(Dir.current)))' = View(Recs(Manifest(Dir.current)))
    <3> DEFINE m == Dir.current
    <3>1. QED  BY <1>1, <1>2, <1>4, <2>1, FrameCurrent
  <2>3. Final' = Final /\ Final \in Views(Dir.current)
    BY <1>1, <1>4, <2>2, DirOpen DEF Final
  <2>4. Says(d1, Final)' = Says(Dir, Final)
    BY <1>1, <1>2, <1>4, <2>1, <2>3, FrameSays
  <2>5. QED  BY <1>2, <1>4, <2>1, <2>2, <2>3, <2>4, FullIs DEF Full
<1>5. QED  BY <1>3, <1>4

LEMMA FrameInUse ==
  ASSUME DiskInv, DiskTyped', NEW X, NEW Y, Frame(X, Y), Harmless(X, Y)
  PROVE  InUse' \subseteq InUse
<1> SUFFICES ASSUME NEW t \in InUse' PROVE t \in InUse
  OBVIOUS
<1>1. PICK d1 \in Dirs' : d1.current # 0 /\ \E v \in Views(d1.current)' : t \in v.tables
  BY DEF InUse
<1>2. PICK d \in Dirs : Follows(d1, d, X)
  BY DirFacts DEF Frame, Follows, DiskInv
<1>3. d1.current = d.current
  BY <1>2 DEF Follows
<1>4. Views(d.current)' \subseteq Views(d.current)
  BY <1>1, <1>2, <1>3, FrameCurrent
<1>5. \E v \in Views(d.current) : t \in v.tables
  BY <1>1, <1>3, <1>4
<1>6. QED  BY <1>1, <1>3, <1>5 DEF InUse

LEMMA FrameDisk ==
  ASSUME DiskInv, DiskTyped', NEW X, NEW Y, Frame(X, Y), Harmless(X, Y),
         synced' = synced, writes \in Nat, writes' \in Nat, writes' >= writes
  PROVE  DiskInv'
<1>1. DiskTyped /\ \A d \in Dirs : DirInv(d)
  BY DEF DiskInv
<1>2. /\ Full' = Full /\ Dir'.current = Dir.current
      /\ Dir.current # 0 => /\ Final' = Final /\ Final \in Views(Dir.current)
                            /\ Views(Dir.current)' \subseteq Views(Dir.current)
  BY FrameFull
<1>3. ASSUME NEW d1 \in Dirs' PROVE DirInv(d1)'
  <2>1. PICK d \in Dirs : Follows(d1, d, X)
    BY <1>1, DirFacts DEF Frame, Follows
  <2>2. DirInv(d) /\ d1.current = d.current
    BY <1>1, <2>1 DEF Follows
  <2>3. CASE d1.current = 0
    <3>1. synced = {} /\ \A l \in Nat : Log(l) \notin d.names
      BY <2>2, <2>3 DEF DirInv
    <3>2. ASSUME NEW l \in Nat PROVE Log(l) \notin d1.names
      <4>1. CASE d1 = d
        BY <3>1, <4>1
      <4>2. CASE d = Dir /\ d1.names \ X = Dir.names \ X
        <5>1. Log(l) \notin X
          BY <2>2, <2>3, <4>2 DEF Harmless
        <5>2. QED  BY <3>1, <4>2, <5>1
      <4>3. QED  BY <2>1, <4>1, <4>2 DEF Follows
    <3>3. QED  BY <2>3, <3>1, <3>2 DEF DirInv, Log
  <2>4. CASE d1.current # 0
    <3>1. /\ Manifest(d.current) \in d1.names /\ Views(d.current)' \subseteq Views(d.current)
          /\ HasCounters(d.current)'
      BY <2>1, <2>2, <2>4, FrameCurrent
    <3>2. Dir.current # 0
      BY <1>1, <2>2, <2>4, DirOpen
    <3>3. ASSUME NEW v \in Views(d.current)' PROVE Sound(d1, v)'
      <4>1. v \in Views(d.current) /\ Sound(d, v) /\ v \in ViewType
        BY <1>1, <2>2, <2>4, <3>1, DirOpen
      <4>2. /\ \A t \in v.tables : Table(t) \in d1.names /\ Whole(t)'
            /\ TableEntries(v.tables)' = TableEntries(v.tables)
            /\ Says(d1, v)' = Says(d, v) /\ IsSure(d, v) \subseteq IsSure(d1, v)'
        BY <2>1, <2>2, <2>4, <4>1, FrameSays
      <4>3. v.log < v.next /\ d1.current < v.next /\ v.next <= Final'.next
        BY <1>2, <2>2, <3>2, <4>1 DEF Sound
      <4>4. v.seq <= writes'
        BY <4>1 DEF Sound, ViewType
      <4>5. \A e \in TableEntries(v.tables)' : e.seq <= v.seq
        BY <4>1, <4>2 DEF Sound
      <4>6. Says(d1, v)' \subseteq Full'
        BY <1>2, <4>1, <4>2 DEF Sound
      <4>7. synced' \subseteq OpsOf(IsSure(d1, v))'
        <5>1. synced \subseteq OpsOf(IsSure(d, v))
          BY <4>1 DEF Sound
        <5>2. OpsOf(IsSure(d, v)) \subseteq OpsOf(IsSure(d1, v)')
          BY <4>2 DEF OpsOf
        <5>3. OpsOf(IsSure(d1, v))' = OpsOf(IsSure(d1, v)')
          BY DEF OpsOf
        <5>4. QED  BY <5>1, <5>2, <5>3
      <4>8. \A t \in v.tables : t < v.next
        BY <4>1 DEF Sound
      <4>9. QED  BY <4>2, <4>3, <4>4, <4>5, <4>6, <4>7, <4>8 DEF Sound, Table
    <3>4. QED  BY <1>2, <2>2, <2>4, <3>1, <3>2, <3>3 DEF DirInv, Manifest
  <2>5. QED  BY <2>3, <2>4
<1>4. LogsGone'
  <2> SUFFICES ASSUME Dir.current # 0, NEW l \in Nat, Log(l) \in Reachable(dirs)',
                      Log(l) \notin Dir'.names, NEW v \in Views(Dir.current)'
               PROVE  l < v.log
    BY <1>2 DEF LogsGone, Log
  <2>1. v \in Views(Dir.current)
    BY <1>2
  <2>2. PICK d1 \in Dirs' : Log(l) \in d1.names
    BY NextDirs
  <2>3. CASE Log(l) \in X
    <3>1. Log(l) \notin Reachable(dirs) \/ l < v.log
      BY <2>1, <2>3 DEF Harmless
    <3>2. d1 \in Dirs \/ d1.names \subseteq Dir.names
      BY <2>2 DEF Frame
    <3>3. Log(l) \in Reachable(dirs)
      BY <1>1, <2>2, <3>2, DirFacts
    <3>4. QED  BY <3>1, <3>3
  <2>4. CASE Log(l) \notin X
    <3>1. Log(l) \notin Dir.names
      BY <2>4 DEF Frame
    <3>2. d1 \in Dirs
      BY <2>2, <2>4, <3>1 DEF Frame
    <3>3. Log(l) \in Reachable(dirs)
      BY <1>1, <2>2, <3>2, DirFacts
    <3>4. QED  BY <2>1, <3>1, <3>3 DEF LogsGone, DiskInv
  <2>5. QED  BY <2>3, <2>4
<1>5. FullInv'
  <2>1. FullInv /\ 1..writes \subseteq 1..writes'
    BY DEF DiskInv
  <2>2. QED  BY <1>2, <2>1 DEF FullInv
<1>6. QED  BY <1>3, <1>4, <1>5 DEF DiskInv

(***************************************************************************)
(* A power failure.                                                        *)
(***************************************************************************)
LEMMA PowerLeaves ==
  ASSUME DiskTyped, PowerFails
  PROVE  \E d \in Dirs :
           /\ DiskTyped' /\ Dirs' = {d} /\ Dir' = d
           /\ \A f \in d.names :
                \E n \in files[f].durable..Len(Recs(f)) :
                  Recs(f)' = SubSeq(Recs(f), 1, n) /\ files'[f].durable = n
<1>1. PICK i \in DOMAIN dirs : \E kept \in [AtRisk(dirs[i]) -> 0..Longest(AtRisk(dirs[i]))] :
        /\ \A f \in DOMAIN kept : kept[f] \in files[f].durable..Len(Recs(f))
        /\ dirs' = <<dirs[i]>>
        /\ files' = [f \in dirs[i].names |->
                       LET n == IF f \in DOMAIN kept THEN kept[f] ELSE Len(Recs(f))
                       IN  Contents(SubSeq(Recs(f), 1, n), n)]
  BY DEF PowerFails
<1>2. PICK d : d = dirs[i]
  OBVIOUS
<1>3. d \in Dirs /\ d \in Directory /\ d.names \subseteq DOMAIN files /\ FilesTyped
  <2>1. d \in Dirs
    BY <1>2 DEF Dirs
  <2>2. QED  BY <2>1, DirFacts
<1>4. PICK kept \in [AtRisk(d) -> 0..Longest(AtRisk(d))] :
        /\ \A f \in DOMAIN kept : kept[f] \in files[f].durable..Len(Recs(f))
        /\ dirs' = <<d>>
        /\ files' = [f \in d.names |->
                       LET n == IF f \in DOMAIN kept THEN kept[f] ELSE Len(Recs(f))
                       IN  Contents(SubSeq(Recs(f), 1, n), n)]
  BY <1>1, <1>2
<1> DEFINE left(f) == IF f \in DOMAIN kept THEN kept[f] ELSE Len(Recs(f))
<1>5. ASSUME NEW f \in d.names PROVE left(f) \in files[f].durable..Len(Recs(f))
  <2>1. files[f].durable \in Nat /\ Len(Recs(f)) \in Nat /\ files[f].durable <= Len(Recs(f))
    BY <1>3, FileTyped
  <2>2. QED  BY <1>4, <2>1
<1>6. /\ DOMAIN files' = d.names /\ files' = [f \in DOMAIN files' |-> files'[f]]
      /\ \A f \in d.names : files'[f] = Contents(SubSeq(Recs(f), 1, left(f)), left(f))
  BY <1>4
<1> HIDE DEF left
<1>7. ASSUME NEW f \in d.names
      PROVE  /\ files'[f] \in [recs : Seq(RecordsOf(f[1])), durable : Nat]
             /\ Recs(f)' = SubSeq(Recs(f), 1, left(f)) /\ files'[f].durable = left(f)
             /\ Len(Recs(f)') = left(f)
  <2>1. /\ Recs(f) \in Seq(RecordsOf(f[1])) /\ files[f].durable \in Nat
        /\ Len(Recs(f)) \in Nat
    BY <1>3, FileTyped
  <2>2. left(f) \in 0..Len(Recs(f)) /\ left(f) \in Nat
    BY <1>5, <2>1
  <2>3. /\ SubSeq(Recs(f), 1, left(f)) \in Seq(RecordsOf(f[1]))
        /\ Len(SubSeq(Recs(f), 1, left(f))) = left(f)
    BY <2>1, <2>2, Prefix
  <2>4. files'[f] = Contents(SubSeq(Recs(f), 1, left(f)), left(f))
    BY <1>6
  <2>5. QED  BY <2>2, <2>3, <2>4 DEF Contents, Recs
<1>8. dirs' \in Seq(Directory) /\ dirs' # <<>> /\ Dir' = d /\ Dirs' = {d}
  BY <1>3, <1>4, DirsOne
<1>9. DiskTyped'
  <2>1. \A f : f \in Reachable(dirs)' <=> \E c \in Dirs' : f \in c.names
    BY ReachableIs DEF Dirs
  <2>2. Reachable(dirs)' \subseteq DOMAIN files'
    BY <1>6, <1>8, <2>1
  <2>3. DOMAIN files' \subseteq FileNames
    BY <1>3, <1>6 DEF FilesTyped
  <2>4. ASSUME NEW f \in DOMAIN files' PROVE files'[f].durable <= Len(files'[f].recs)
    <3>1. f \in d.names /\ files[f].durable \in Nat /\ Len(Recs(f)) \in Nat
      BY <1>3, <1>6, FileTyped
    <3>2. left(f) \in Nat
      BY <1>5, <3>1
    <3>3. QED  BY <1>7, <3>1, <3>2 DEF Recs
  <2>5. QED  BY <1>6, <1>7, <1>8, <2>2, <2>3, <2>4 DEF DiskTyped, FilesTyped
<1>10. QED  BY <1>3, <1>5, <1>7, <1>8, <1>9

\* The MANIFEST that is left has one of its views, and no other.
LEMMA PowerViews ==
  ASSUME DiskTyped, NEW d \in Dirs, DirInv(d), d.current # 0,
         \A f \in d.names :
           \E n \in files[f].durable..Len(Recs(f)) :
             Recs(f)' = SubSeq(Recs(f), 1, n) /\ files'[f].durable = n
  PROVE  \E v \in Views(d.current) :
           /\ Views(d.current)' = {v} /\ HasCounters(d.current)'
           /\ View(Recs(Manifest(d.current))') = v
<1> DEFINE m == d.current
           M == Manifest(m)
<1>1. M \in d.names /\ HasCounters(m) /\ d.names \subseteq DOMAIN files /\ FilesTyped
  BY DirOpen, DirFacts
<1>2. PICK n \in files[M].durable..Len(Recs(M)) :
        Recs(M)' = SubSeq(Recs(M), 1, n) /\ files'[M].durable = n
  BY <1>1
<1>3. /\ Recs(M) \in Seq(VersionEdit) /\ files[M].durable \in Nat /\ Len(Recs(M)) \in Nat
  BY <1>1, FileTyped, RecordsTyped
<1>4. n \in 0..Len(Recs(M)) /\ n \in Nat
  BY <1>2, <1>3
<1> PICK left : left = SubSeq(Recs(M), 1, n)
  OBVIOUS
<1>5. /\ left \in Seq(VersionEdit) /\ Len(left) = n /\ \A i \in 1..n : left[i] = Recs(M)[i]
      /\ SubSeq(left, 1, n) = left
  BY <1>3, <1>4, Prefix, SubSeqFull
<1>6. PICK v0 \in Views(m) : v0 = View(left)
  BY <1>2 DEF Views, ViewOf
<1>7. Recs(M)' = left /\ files'[M].durable = n
  BY <1>2
<1>8. Views(m)' = {v0}
  <2>1. n..Len(left) = {n}
    BY <1>4, <1>5
  <2>2. Views(m)' = {View(SubSeq(Recs(M)', 1, k)) : k \in files'[M].durable..Len(Recs(M)')}
    BY DEF Views, ViewOf, View, Tables, LastEdit, Numbered
  <2>3. Views(m)' = {View(SubSeq(left, 1, k)) : k \in n..Len(left)}
    BY <1>7, <2>2
  <2>4. \A k \in n..Len(left) : k = n
    BY <2>1
  <2>5. n \in n..Len(left) /\ View(SubSeq(left, 1, n)) = v0
    BY <1>5, <1>6, <2>1
  <2>6. QED  BY <2>3, <2>4, <2>5
<1>9. HasCounters(m)'
  <2>1. PICK i \in 1..files[M].durable : Recs(M)[i].next # 0
    BY <1>1 DEF HasCounters
  <2>2. i \in 1..n
    BY <1>2, <1>3, <2>1
  <2>3. QED  BY <1>5, <1>7, <2>1, <2>2 DEF HasCounters
<1>10. View(Recs(M)') = v0
  BY <1>6, <1>7
<1>11. QED  BY <1>6, <1>8, <1>9, <1>10

LEMMA PowerDisk ==
  ASSUME DiskInv, PowerFails, synced' = synced, writes' = writes
  PROVE  DiskInv' /\ Full' \subseteq Full
<1>1. DiskTyped /\ \A d \in Dirs : DirInv(d)
  BY DEF DiskInv
<1>2. PICK d \in Dirs :
        /\ DiskTyped' /\ Dirs' = {d} /\ Dir' = d
        /\ \A f \in d.names :
             \E n \in files[f].durable..Len(Recs(f)) :
               Recs(f)' = SubSeq(Recs(f), 1, n) /\ files'[f].durable = n
  BY <1>1, PowerLeaves
<1>3. d.names \subseteq DOMAIN files /\ FilesTyped /\ DirInv(d)
  BY <1>1, DirFacts
<1>4. LogsGone'
  <2>1. \A f : f \in Reachable(dirs)' => f \in Dir'.names
    BY <1>2, NextDirs
  <2>2. QED  BY <2>1 DEF LogsGone, Log
<1>5. CASE d.current = 0
  <2>1. Full' = {} /\ {} \subseteq Full
    BY <1>2, <1>5 DEF Full
  <2>2. DirInv(d)'
    BY <1>3, <1>5 DEF DirInv, Log
  <2>3. FullInv'
    BY <2>1 DEF FullInv
  <2>4. QED  BY <1>2, <1>4, <2>1, <2>2, <2>3 DEF DiskInv
<1>6. CASE d.current # 0
  <2> DEFINE m == d.current
  <2>1. Manifest(m) \in d.names /\ \A v \in Views(m) : v \in ViewType /\ Sound(d, v)
    BY <1>1, <1>6, DirOpen
  <2>2. PICK v0 \in Views(m) :
          Views(m)' = {v0} /\ HasCounters(m)' /\ View(Recs(Manifest(m))') = v0
    BY <1>1, <1>2, <1>6, PowerViews
  <2>9. Views(m)' = {v0} /\ v0 \in Views(m)
    BY <2>2
  <2>10. Final' = v0
    <3>1. Recs(Manifest(Dir.current))' = Recs(Manifest(m))'
      BY <1>2 DEF Recs, Manifest
    <3>2. Final' = View(Recs(Manifest(Dir.current))')
      BY DEF Final, View, Tables, LastEdit, Numbered
    <3>3. QED  BY <2>2, <3>1, <3>2
  <2>11. HasCounters(m)'
    BY <2>2
  <2>12. v0 \in ViewType /\ Sound(d, v0)
    BY <2>1, <2>9
  <2>13. ASSUME NEW t \in v0.tables
         PROVE  /\ Table(t) \in d.names /\ Whole(t)' /\ Recs(Table(t))' = Recs(Table(t))
    <3>1. Table(t) \in d.names /\ Whole(t)
      BY <2>12 DEF Sound
    <3>2. PICK k \in files[Table(t)].durable..Len(Recs(Table(t))) :
            Recs(Table(t))' = SubSeq(Recs(Table(t)), 1, k) /\ files'[Table(t)].durable = k
      BY <1>2, <3>1
    <3>3. k = 1 /\ Len(Recs(Table(t))) = 1
      BY <3>1, <3>2 DEF Whole
    <3>4. Recs(Table(t)) \in Seq(SUBSET Update)
      BY <1>3, <3>1, RecordsTyped
    <3>5. SubSeq(Recs(Table(t)), 1, 1) = Recs(Table(t))
      BY <3>3, <3>4, SubSeqFull
    <3>6. Recs(Table(t))' = Recs(Table(t)) /\ files'[Table(t)].durable = 1
      BY <3>2, <3>3, <3>5
    <3>7. QED  BY <3>1, <3>3, <3>6 DEF Whole
  <2>14. TableEntries(v0.tables)' = TableEntries(v0.tables)
    BY <2>13 DEF TableEntries
  <2>15. ASSUME NEW l \in Nat, Log(l) \in d.names
         PROVE  /\ LogEntries(l)' \subseteq LogEntries(l) /\ SafeEntries(l)' = LogEntries(l)'
                /\ SafeEntries(l) \subseteq LogEntries(l)'
    <3> DEFINE recs == Recs(Log(l))
               dur == files[Log(l)].durable
    <3>1. PICK k \in dur..Len(recs) : recs' = SubSeq(recs, 1, k) /\ files'[Log(l)].durable = k
      BY <1>2, <2>15
    <3>2. recs \in Seq(Update) /\ dur \in Nat /\ Len(recs) \in Nat /\ dur <= Len(recs)
      BY <1>3, <2>15, FileTyped, RecordsTyped
    <3>3. /\ LogEntries(l) = EntriesOf(recs) /\ SafeEntries(l) = EntriesOf(SubSeq(recs, 1, dur))
          /\ LogEntries(l)' = EntriesOf(recs')
          /\ SafeEntries(l)' = EntriesOf(SubSeq(recs', 1, files'[Log(l)].durable))
      BY DEF LogEntries, SafeEntries, EntriesOf
    <3> HIDE DEF recs, dur
    <3>4. dur \in 0..Len(recs) /\ k \in 0..Len(recs) /\ k \in Nat
      BY <3>1, <3>2
    <3>5. /\ EntriesOf(SubSeq(recs, 1, dur)) \subseteq EntriesOf(SubSeq(recs, 1, k))
          /\ EntriesOf(SubSeq(recs, 1, k)) \subseteq EntriesOf(recs)
      BY <3>1, <3>2, <3>4, PrefixGrows
    <3>6. SubSeq(recs, 1, k) \in Seq(Update) /\ Len(SubSeq(recs, 1, k)) = k
      BY <3>2, <3>4, Prefix
    <3>7. SubSeq(SubSeq(recs, 1, k), 1, k) = SubSeq(recs, 1, k)
      BY <3>6, SubSeqFull
    <3>8. QED  BY <3>1, <3>3, <3>5, <3>7
  <2>16. /\ \A e : e \in Says(d, v0)' <=> \/ e \in TableEntries(v0.tables)'
                                          \/ \E l \in Nat : l >= v0.log /\ Log(l) \in d.names /\ e \in LogEntries(l)'
         /\ \A e : e \in IsSure(d, v0)' <=> \/ e \in TableEntries(v0.tables)'
                                            \/ \E l \in Nat : l >= v0.log /\ Log(l) \in d.names /\ e \in SafeEntries(l)'
    BY DEF Says, IsSure, Logged, LoggedSafely, LogsFor, Log
  <2>17. Says(d, v0)' \subseteq Says(d, v0)
    BY <2>14, <2>15, <2>16, SaysSplit
  <2>18. IsSure(d, v0) \subseteq IsSure(d, v0)'
    BY <2>14, <2>15, <2>16, SaysSplit
  <2>19. Full' = Says(d, v0)'
    BY <1>2, <1>6, <2>10, FullIs
  <2>20. Full' \subseteq Full
    BY <2>12, <2>17, <2>19 DEF Sound
  <2>21. Sound(d, v0)'
    <3>1. /\ \A t \in v0.tables : Table(t) \in d.names /\ Whole(t)' /\ t < v0.next
          /\ v0.log < v0.next /\ d.current < v0.next /\ v0.seq <= writes'
          /\ \A e \in TableEntries(v0.tables)' : e.seq <= v0.seq
      BY <2>12, <2>13, <2>14 DEF Sound
    <3>2. v0.next <= Final'.next
      BY <2>10, <2>12 DEF ViewType
    <3>3. synced' \subseteq OpsOf(IsSure(d, v0))'
      <4>1. synced \subseteq OpsOf(IsSure(d, v0))
        BY <2>12 DEF Sound
      <4>2. OpsOf(IsSure(d, v0)) \subseteq OpsOf(IsSure(d, v0)')
        BY <2>18 DEF OpsOf
      <4>3. OpsOf(IsSure(d, v0))' = OpsOf(IsSure(d, v0)')
        BY DEF OpsOf
      <4>4. QED  BY <4>1, <4>2, <4>3
    <3>4. QED  BY <2>19, <3>1, <3>2, <3>3 DEF Sound, Table
  <2>22. DirInv(d)'
    BY <1>2, <1>6, <2>1, <2>9, <2>11, <2>21 DEF DirInv, Manifest
  <2>23. FullInv'
    BY <2>20 DEF FullInv, DiskInv
  <2>24. QED  BY <1>2, <1>4, <2>20, <2>22, <2>23 DEF DiskInv
<1>7. QED  BY <1>5, <1>6

(***************************************************************************)
(* A record for the log that is being written.                             *)
(***************************************************************************)
LEMMA SameSays ==
  ASSUME NEW d, NEW v, NEW S, TableEntries(v.tables)' = TableEntries(v.tables),
         \A l \in Nat : Log(l) \in d.names => LogEntries(l)' \subseteq LogEntries(l) \cup S,
         \A l \in Nat : Log(l) \in d.names => SafeEntries(l) \subseteq SafeEntries(l)'
  PROVE  Says(d, v)' \subseteq Says(d, v) \cup S /\ IsSure(d, v) \subseteq IsSure(d, v)'
<1>1. /\ \A e : e \in Says(d, v)' <=> \/ e \in TableEntries(v.tables)'
                                      \/ \E l \in Nat : l >= v.log /\ Log(l) \in d.names /\ e \in LogEntries(l)'
      /\ \A e : e \in IsSure(d, v)' <=> \/ e \in TableEntries(v.tables)'
                                        \/ \E l \in Nat : l >= v.log /\ Log(l) \in d.names /\ e \in SafeEntries(l)'
  BY DEF Says, IsSure, Logged, LoggedSafely, LogsFor, Log
<1>2. QED  BY <1>1, SaysSplit

LEMMA LogAppended ==
  ASSUME DiskInv, Dir.current # 0, NEW n \in Nat, Log(n) \in Dir.names,
         NEW e \in Update, AppendRecord(Log(n), e),
         \A v \in Views(Dir.current) : v.log <= n,
         synced' = synced, writes \in Nat, writes' = writes + 1,
         e.op = writes', e.seq <= e.op, \A x \in Full : x.seq < e.seq
  PROVE  /\ DiskInv' /\ Full' = Full \cup {e} /\ Final' = Final /\ Dirs' = Dirs /\ Dir' = Dir
         /\ LogEntries(n)' = LogEntries(n) \cup {e} /\ SafeEntries(n)' = SafeEntries(n)
         /\ DiskTyped' /\ Frame({}, {Log(n)})
         /\ InUse' \subseteq InUse /\ Views(Dir.current)' \subseteq Views(Dir.current)
<1>1. DiskTyped /\ (\A d \in Dirs : DirInv(d)) /\ Dir \in Dirs /\ FilesTyped
  BY DirFacts DEF DiskInv
<1>2. Log(n) \in DOMAIN files /\ e \in RecordsOf(Log(n)[1])
  BY <1>1, DirFacts, RecordKinds
<1>3. /\ DiskTyped' /\ Frame({}, {Log(n)}) /\ Dirs' = Dirs /\ Dir' = Dir
      /\ Recs(Log(n))' = Append(Recs(Log(n)), e) /\ files'[Log(n)].durable = files[Log(n)].durable
  <2> DEFINE f == Log(n)
  <2>1. f \in DOMAIN files /\ e \in RecordsOf(f[1]) /\ AppendRecord(f, e)
    BY <1>2
  <2> HIDE DEF f
  <2>2. /\ DiskTyped' /\ Frame({}, {f}) /\ Dirs' = Dirs /\ Dir' = Dir
        /\ Recs(f)' = Append(Recs(f), e) /\ files'[f].durable = files[f].durable
    BY <1>1, <2>1, Appended
  <2>3. QED  BY <2>2 DEF f
<1>4. LogEntries(n)' = LogEntries(n) \cup {e} /\ SafeEntries(n)' = SafeEntries(n)
  <2> DEFINE recs == Recs(Log(n))
             dur == files[Log(n)].durable
  <2>1. recs \in Seq(Update) /\ dur \in 0..Len(recs)
    BY <1>1, <1>2, FileTyped, RecordsTyped
  <2>2. EntriesOf(Append(recs, e)) = EntriesOf(recs) \cup {e}
    BY <2>1, EntriesAppend
  <2>3. SubSeq(Append(recs, e), 1, dur) = SubSeq(recs, 1, dur)
    BY <2>1, AppendPrefix
  <2>4. /\ LogEntries(n)' = EntriesOf(Recs(Log(n))')
        /\ SafeEntries(n)' = EntriesOf(SubSeq(Recs(Log(n))', 1, files'[Log(n)].durable))
    BY DEF LogEntries, SafeEntries, EntriesOf
  <2>5. QED  BY <1>3, <2>2, <2>3, <2>4 DEF LogEntries, SafeEntries
<1>5. ASSUME NEW d \in Dirs, NEW l \in Nat, Log(l) \in d.names
      PROVE  /\ LogEntries(l) \subseteq LogEntries(l)' /\ LogEntries(l)' \subseteq LogEntries(l) \cup {e}
             /\ SafeEntries(l) \subseteq SafeEntries(l)'
  <2>1. CASE l = n
    BY <1>4, <2>1
  <2>2. CASE l # n
    <3>1. Log(l) \in DOMAIN files' \ {Log(n)}
      BY <1>3, <1>5, <2>2, NextDirs, Names
    <3>2. QED  BY <1>1, <1>3, <3>1, FrameLogs
  <2>3. QED  BY <2>1, <2>2
<1>6. ASSUME NEW d \in Dirs, d.current # 0, NEW v \in Views(d.current)
      PROVE  /\ \A t \in v.tables : Whole(t)'
             /\ TableEntries(v.tables)' = TableEntries(v.tables)
             /\ Says(d, v)' \subseteq Says(d, v) \cup {e} /\ IsSure(d, v) \subseteq IsSure(d, v)'
  <2>1. Sound(d, v)
    BY <1>1, <1>6, DirOpen
  <2>2. \A t \in v.tables : Table(t) \in DOMAIN files' \ {Log(n)} /\ Whole(t)
    BY <1>3, <2>1, NextDirs, Names DEF Sound
  <2>3. \A t \in v.tables : Whole(t)'
    BY <1>1, <1>3, <2>2, FrameWhole
  <2>4. TableEntries(v.tables)' = TableEntries(v.tables)
    BY <1>3, <2>2, FrameTables
  <2>5. QED  BY <1>5, <2>3, <2>4, SameSays
<1>7. ASSUME NEW d \in Dirs, d.current # 0
      PROVE  /\ Views(d.current)' \subseteq Views(d.current) /\ HasCounters(d.current)'
             /\ View(Recs(Manifest(d.current)))' = View(Recs(Manifest(d.current)))
  <2>1. Manifest(d.current) \in d.names /\ HasCounters(d.current)
    BY <1>1, <1>7, DirOpen
  <2>2. Manifest(d.current) \in DOMAIN files' \ {Log(n)}
    BY <1>3, <2>1, NextDirs, Names
  <2>3. QED  BY <1>1, <1>3, <2>1, <2>2, FrameViews
<1>8. Final' = Final /\ Final \in Views(Dir.current)
  <2>1. View(Recs(Manifest(Dir.current)))' = View(Recs(Manifest(Dir.current)))
    <3>1. PICK d \in Dirs : d = Dir
      BY <1>1
    <3>2. QED  BY <1>3, <1>7, <3>1
  <2>2. QED  BY <1>1, <1>3, <2>1, DirOpen DEF Final
<1>9. Full' = Full \cup {e}
  <2>1. PICK d, v : d = Dir /\ v = Final
    OBVIOUS
  <2>2. Full' = Says(d, v)' /\ Full = Says(d, v)
    BY <1>3, <1>8, <2>1, FullIs DEF Full
  <2>3. d \in Dirs /\ d.current # 0 /\ v \in Views(d.current) /\ Sound(d, v) /\ v \in ViewType
    BY <1>1, <1>8, <2>1, DirOpen
  <2>4. Says(d, v)' \subseteq Says(d, v) \cup {e} /\ TableEntries(v.tables)' = TableEntries(v.tables)
    BY <1>6, <2>3
  <2>5. /\ \A x : x \in Says(d, v)' <=> \/ x \in TableEntries(v.tables)'
                                        \/ \E l \in Nat : l >= v.log /\ Log(l) \in d.names /\ x \in LogEntries(l)'
    BY DEF Says, Logged, LogsFor, Log
  <2>6. n >= v.log /\ Log(n) \in d.names /\ e \in LogEntries(n)'
    BY <1>4, <1>8, <2>1, <2>3 DEF ViewType
  <2>7. Says(d, v) \subseteq Says(d, v)'
    BY <1>5, <2>3, <2>4, <2>5, SaysSplit
  <2>8. QED  BY <2>2, <2>4, <2>5, <2>6, <2>7
<1>10. ASSUME NEW d \in Dirs PROVE DirInv(d)'
  <2>1. CASE d.current = 0
    BY <1>1, <2>1 DEF DirInv, Log
  <2>2. CASE d.current # 0
    <3>1. ASSUME NEW v \in Views(d.current)' PROVE Sound(d, v)'
      <4>1. v \in Views(d.current) /\ Sound(d, v) /\ v \in ViewType
        BY <1>1, <1>7, <2>2, DirOpen
      <4>2. /\ \A t \in v.tables : Whole(t)'
            /\ TableEntries(v.tables)' = TableEntries(v.tables)
            /\ Says(d, v)' \subseteq Says(d, v) \cup {e} /\ IsSure(d, v) \subseteq IsSure(d, v)'
        BY <1>6, <2>2, <4>1
      <4>3. synced' \subseteq OpsOf(IsSure(d, v))'
        <5>1. synced \subseteq OpsOf(IsSure(d, v))
          BY <4>1 DEF Sound
        <5>2. OpsOf(IsSure(d, v)) \subseteq OpsOf(IsSure(d, v)')
          BY <4>2 DEF OpsOf
        <5>3. OpsOf(IsSure(d, v))' = OpsOf(IsSure(d, v)')
          BY DEF OpsOf
        <5>4. QED  BY <5>1, <5>2, <5>3
      <4>4. Says(d, v)' \subseteq Full'
        BY <1>9, <4>1, <4>2 DEF Sound
      <4>5. v.seq <= writes'
        BY <4>1 DEF Sound, ViewType
      <4>6. /\ \A t \in v.tables : Table(t) \in d.names /\ t < v.next
            /\ v.log < v.next /\ d.current < v.next /\ v.next <= Final'.next
            /\ \A x \in TableEntries(v.tables)' : x.seq <= v.seq
        BY <1>8, <4>1, <4>2 DEF Sound
      <4>7. QED  BY <4>2, <4>3, <4>4, <4>5, <4>6 DEF Sound, Table
    <3>2. Dir'.current # 0 /\ Manifest(d.current) \in d.names
      BY <1>1, <1>3, <2>2, DirOpen
    <3>3. QED  BY <1>7, <2>2, <3>1, <3>2 DEF DirInv, Manifest
  <2>3. QED  BY <2>1, <2>2
<1>11. LogsGone'
  <2>1. Reachable(dirs)' = Reachable(dirs)
    BY SameDirs DEF AppendRecord
  <2>2. LogsGone /\ Views(Dir.current)' \subseteq Views(Dir.current)
    <3>1. PICK d \in Dirs : d = Dir
      BY <1>1
    <3>2. QED  BY <1>3, <1>7, <3>1 DEF DiskInv
  <2>3. QED  BY <1>3, <2>1, <2>2 DEF LogsGone, Log
<1>12. FullInv'
  <2>1. /\ \A x \in Full : x.op \in 1..writes /\ x.seq <= x.op /\ x.seq < e.seq
        /\ \A x, y \in Full : x.op < y.op => x.seq < y.seq
    BY DEF DiskInv, FullInv
  <2>2. e.seq \in Nat
    BY DEF Update
  <2>3. \A x \in Full \cup {e} : x.op \in 1..writes' /\ x.seq <= x.op
    BY <2>1
  <2>4. \A x, y \in Full \cup {e} : x.op < y.op => x.seq < y.seq
    <3> SUFFICES ASSUME NEW x \in Full \cup {e}, NEW y \in Full \cup {e}, x.op < y.op
                 PROVE  x.seq < y.seq
      OBVIOUS
    <3>1. CASE x \in Full /\ y \in Full
      BY <2>1, <3>1
    <3>2. CASE x \in Full /\ y = e
      BY <2>1, <3>2
    <3>3. CASE x = e
      <4>1. y.op \in 1..writes \/ y.op = writes + 1
        BY <2>1
      <4>2. QED  BY <3>3, <4>1
    <3>4. QED  BY <3>1, <3>2, <3>3
  <2>5. QED  BY <1>9, <2>3, <2>4 DEF FullInv
<1>13. InUse' \subseteq InUse
  <2> SUFFICES ASSUME NEW t \in InUse' PROVE t \in InUse
    OBVIOUS
  <2>1. PICK d \in Dirs' : d.current # 0 /\ \E v \in Views(d.current)' : t \in v.tables
    BY DEF InUse
  <2>2. d \in Dirs /\ \E v \in Views(d.current) : t \in v.tables
    BY <1>3, <1>7, <2>1
  <2>3. QED  BY <2>1, <2>2 DEF InUse
<1>14. Views(Dir.current)' \subseteq Views(Dir.current)
  <2>1. PICK d \in Dirs : d = Dir
    BY <1>1
  <2>2. QED  BY <1>3, <1>7, <2>1
<1>15. DiskInv'
  BY <1>3, <1>10, <1>11, <1>12 DEF DiskInv
<1>16. QED  BY <1>3, <1>4, <1>8, <1>9, <1>13, <1>14, <1>15

(***************************************************************************)
(* A record for the MANIFEST that CURRENT names.                           *)
(***************************************************************************)
LEMMA EditAppended ==
  ASSUME DiskInv, NEW m \in Nat \ {0}, \A d \in Dirs : d.current = m,
         NEW e \in VersionEdit, e.next # 0, e.add \cap e.del = {},
         AppendRecord(Manifest(m), e),
         NEW v, v = [tables |-> (Final.tables \ e.del) \cup e.add, log |-> e.log,
                     next |-> e.next, seq |-> e.seq],
         \A d \in Dirs : /\ \A t \in v.tables : Table(t) \in d.names /\ Whole(t) /\ t < v.next
                         /\ Says(d, v) \subseteq Full /\ synced \subseteq OpsOf(IsSure(d, v)),
         Full \subseteq Says(Dir, v),
         v.log < v.next, m < v.next, Final.next <= v.next, v.seq <= writes,
         \A x \in TableEntries(v.tables) : x.seq <= v.seq,
         \A l \in Nat : Log(l) \in Reachable(dirs) /\ Log(l) \notin Dir.names => l < v.log,
         synced' = synced, writes' = writes
  PROVE  /\ DiskInv' /\ Full' = Full /\ Final' = v /\ Dirs' = Dirs /\ Dir' = Dir
         /\ DiskTyped' /\ Frame({}, {Manifest(m)})
         /\ Views(m)' \subseteq Views(m) \cup {v} /\ InUse' \subseteq InUse \cup e.add
<1> DEFINE M == Manifest(m)
<1>1. DiskTyped /\ (\A d \in Dirs : DirInv(d)) /\ Dir \in Dirs /\ FilesTyped /\ Dir.current = m
  BY DirFacts DEF DiskInv
<1>2. /\ M \in Dir.names /\ M \in DOMAIN files /\ HasCounters(m) /\ Final \in Views(m)
      /\ Final \in ViewType
  BY <1>1, DirOpen DEF Final
<1>3. /\ DiskTyped' /\ Frame({}, {M}) /\ Dirs' = Dirs /\ Dir' = Dir
      /\ Recs(M)' = Append(Recs(M), e) /\ files'[M].durable = files[M].durable
  <2> DEFINE f == M
  <2>1. f \in DOMAIN files /\ e \in RecordsOf(f[1]) /\ AppendRecord(f, e)
    BY <1>2, RecordKinds
  <2> HIDE DEF f
  <2>2. /\ DiskTyped' /\ Frame({}, {f}) /\ Dirs' = Dirs /\ Dir' = Dir
        /\ Recs(f)' = Append(Recs(f), e) /\ files'[f].durable = files[f].durable
    BY <1>1, <2>1, Appended
  <2>3. QED  BY <2>2 DEF f
<1>4. PICK recs, dur : recs = Recs(M) /\ dur = files[M].durable
  OBVIOUS
<1>5. recs \in Seq(VersionEdit) /\ dur \in Nat /\ dur <= Len(recs) /\ Len(recs) \in Nat
  BY <1>1, <1>2, <1>4, FileTyped, RecordsTyped
<1> DEFINE new == Append(recs, e)
<1>6. /\ new \in Seq(VersionEdit) /\ Len(new) = Len(recs) + 1
      /\ \A i \in 1..Len(recs) : new[i] = recs[i]
  BY <1>5, AppendProperties
<1>7. View(new) = v
  <2>1. View(new) = [tables |-> (Tables(recs) \ e.del) \cup e.add, log |-> e.log,
                     next |-> e.next, seq |-> e.seq]
    BY <1>5, ViewAppend
  <2>2. Final.tables = Tables(recs)
    BY <1>1, <1>4 DEF Final, View
  <2>3. QED  BY <2>1, <2>2
<1>8. \A k \in 0..Len(recs) : SubSeq(new, 1, k) = SubSeq(recs, 1, k)
  BY <1>5, AppendPrefix
<1>9. SubSeq(new, 1, Len(recs) + 1) = new
  BY <1>6, SubSeqFull
<1> HIDE DEF new
<1>10. Views(m)' = {View(SubSeq(new, 1, k)) : k \in dur..(Len(recs) + 1)}
  <2>1. Recs(M)' = new /\ files'[M].durable = dur
    BY <1>3, <1>4 DEF new
  <2>2. Views(m)' = {View(SubSeq(Recs(M)', 1, k)) : k \in files'[M].durable..Len(Recs(M)')}
    BY DEF Views, ViewOf, View, Tables, LastEdit, Numbered
  <2>3. QED  BY <1>6, <2>1, <2>2
<1>11. Views(m) = {View(SubSeq(recs, 1, k)) : k \in dur..Len(recs)}
  BY <1>4 DEF Views, ViewOf
<1>12. Views(m)' \subseteq Views(m) \cup {v}
  <2> SUFFICES ASSUME NEW x \in Views(m)' PROVE x \in Views(m) \cup {v}
    OBVIOUS
  <2>1. PICK k \in dur..(Len(recs) + 1) : x = View(SubSeq(new, 1, k))
    BY <1>10
  <2>2. k = Len(recs) + 1 \/ (k \in dur..Len(recs) /\ k \in 0..Len(recs))
    BY <1>5, <2>1
  <2>3. QED  BY <1>7, <1>8, <1>9, <1>11, <2>1, <2>2
<1>13. Final' = v
  <2>1. Recs(Manifest(Dir.current))' = new
    BY <1>1, <1>3, <1>4 DEF new
  <2>2. Final' = View(Recs(Manifest(Dir.current))')
    BY DEF Final, View, Tables, LastEdit, Numbered
  <2>3. QED  BY <1>7, <2>1, <2>2
<1>14. HasCounters(m)'
  <2>1. PICK i \in 1..dur : recs[i].next # 0
    BY <1>2, <1>4 DEF HasCounters
  <2>2. i \in 1..Len(recs)
    BY <1>5, <2>1
  <2>3. Recs(M)' = new /\ files'[M].durable = dur
    BY <1>3, <1>4 DEF new
  <2>4. QED  BY <1>6, <2>1, <2>2, <2>3 DEF HasCounters
<1>15. ASSUME NEW d \in Dirs, NEW l \in Nat, Log(l) \in d.names
       PROVE  LogEntries(l)' = LogEntries(l) /\ SafeEntries(l) \subseteq SafeEntries(l)'
  <2>1. Log(l) \in DOMAIN files' \ {M}
    BY <1>3, <1>15, NextDirs, Names
  <2>2. QED  BY <1>1, <1>3, <2>1, FrameLogs
<1>16. ASSUME NEW d \in Dirs, NEW x \in Views(m)'
       PROVE  /\ \A t \in x.tables : Table(t) \in d.names /\ Whole(t) /\ t < x.next
              /\ Says(d, x) \subseteq Full /\ synced \subseteq OpsOf(IsSure(d, x))
              /\ x.log < x.next /\ d.current < x.next /\ x.next <= v.next /\ x.seq <= writes
              /\ \A y \in TableEntries(x.tables) : y.seq <= x.seq
  <2>1. CASE x = v
    <3>1. v.next \in Nat /\ v.next <= v.next /\ d.current = m
      BY DEF VersionEdit
    <3>2. QED  BY <2>1, <3>1
  <2>2. CASE x \in Views(m)
    <3>1. Sound(d, x) /\ x \in ViewType
      BY <1>1, <2>2, DirOpen
    <3>2. x.next <= Final.next /\ Final.next \in Nat /\ x.next \in Nat /\ v.next \in Nat
      BY <1>2, <3>1 DEF Sound, ViewType, VersionEdit
    <3>3. QED  BY <3>1, <3>2 DEF Sound
  <2>3. QED  BY <1>12, <2>1, <2>2
<1>17. ASSUME NEW d \in Dirs, NEW x, \A t \in x.tables : Table(t) \in d.names /\ Whole(t)
       PROVE  /\ \A t \in x.tables : Whole(t)'
              /\ TableEntries(x.tables)' = TableEntries(x.tables)
              /\ Says(d, x)' \subseteq Says(d, x) /\ IsSure(d, x) \subseteq IsSure(d, x)'
  <2>1. \A t \in x.tables : Table(t) \in DOMAIN files' \ {M} /\ Whole(t)
    BY <1>3, <1>17, NextDirs, Names
  <2>2. \A t \in x.tables : Whole(t)'
    BY <1>1, <1>3, <2>1, FrameWhole
  <2>3. TableEntries(x.tables)' = TableEntries(x.tables)
    BY <1>3, <2>1, FrameTables
  <2>4. \A l \in Nat : Log(l) \in d.names => LogEntries(l)' \subseteq LogEntries(l) \cup {}
    BY <1>15
  <2>5. Says(d, x)' \subseteq Says(d, x) \cup {} /\ IsSure(d, x) \subseteq IsSure(d, x)'
    BY <1>15, <2>3, <2>4, SameSays
  <2>6. QED  BY <2>2, <2>3, <2>5
<1>18. Full' = Full
  <2>1. PICK d \in Dirs : d = Dir
    BY <1>1
  <2>2. Full' = Says(d, v)'
    BY <1>1, <1>3, <1>13, <2>1, FullIs
  <2>3. TableEntries(v.tables)' = TableEntries(v.tables) /\ Says(d, v)' \subseteq Says(d, v)
    BY <1>17
  <2>4. \A x : x \in Says(d, v)' <=> \/ x \in TableEntries(v.tables)'
                                     \/ \E l \in Nat : l >= v.log /\ Log(l) \in d.names /\ x \in LogEntries(l)'
    BY DEF Says, Logged, LogsFor, Log
  <2>5. Says(d, v) \subseteq Says(d, v)'
    <3>1. \A x : x \in Says(d, v) <=> \/ x \in TableEntries(v.tables)
                                      \/ \E l \in Nat : l >= v.log /\ Log(l) \in d.names /\ x \in LogEntries(l)
      BY SaysSplit, Zenon
    <3>2. ASSUME NEW x \in Says(d, v) PROVE x \in Says(d, v)'
      <4>1. CASE x \in TableEntries(v.tables)
        BY <2>3, <2>4, <4>1
      <4>2. CASE \E l \in Nat : l >= v.log /\ Log(l) \in d.names /\ x \in LogEntries(l)
        <5>1. PICK l \in Nat : l >= v.log /\ Log(l) \in d.names /\ x \in LogEntries(l)
          BY <4>2
        <5>2. x \in LogEntries(l)'
          BY <1>15, <5>1
        <5>3. QED  BY <2>4, <5>1, <5>2
      <4>3. QED  BY <3>1, <4>1, <4>2
    <3>3. QED  BY <3>2
  <2>6. Says(d, v) = Full
    BY <2>1
  <2>7. QED  BY <2>2, <2>3, <2>5, <2>6
<1>19. ASSUME NEW d \in Dirs PROVE DirInv(d)'
  <2>1. ASSUME NEW x \in Views(m)' PROVE Sound(d, x)'
    <3>1. /\ \A t \in x.tables : Table(t) \in d.names /\ Whole(t) /\ t < x.next
          /\ Says(d, x) \subseteq Full /\ synced \subseteq OpsOf(IsSure(d, x))
          /\ x.log < x.next /\ d.current < x.next /\ x.next <= v.next /\ x.seq <= writes
          /\ \A y \in TableEntries(x.tables) : y.seq <= x.seq
      BY <1>16
    <3>2. /\ \A t \in x.tables : Whole(t)'
          /\ TableEntries(x.tables)' = TableEntries(x.tables)
          /\ Says(d, x)' \subseteq Says(d, x) /\ IsSure(d, x) \subseteq IsSure(d, x)'
      BY <1>17, <3>1
    <3>3. synced' \subseteq OpsOf(IsSure(d, x))'
      <4>1. OpsOf(IsSure(d, x)) \subseteq OpsOf(IsSure(d, x)')
        BY <3>2 DEF OpsOf
      <4>2. OpsOf(IsSure(d, x))' = OpsOf(IsSure(d, x)')
        BY DEF OpsOf
      <4>3. QED  BY <3>1, <4>1, <4>2
    <3>4. x.next <= Final'.next /\ Says(d, x)' \subseteq Full'
      BY <1>13, <1>18, <3>1, <3>2
    <3>5. QED  BY <3>1, <3>2, <3>3, <3>4 DEF Sound, Table
  <2>2. M \in d.names /\ d.current = m /\ Dir'.current # 0
    BY <1>1, <1>3, DirOpen
  <2>3. QED  BY <1>14, <2>1, <2>2 DEF DirInv, Manifest
<1>20. LogsGone'
  <2>1. Reachable(dirs)' = Reachable(dirs)
    BY SameDirs DEF AppendRecord
  <2>2. LogsGone
    BY DEF DiskInv
  <2>3. QED  BY <1>1, <1>3, <1>12, <2>1, <2>2 DEF LogsGone, Log
<1>21. FullInv'
  BY <1>18 DEF FullInv, DiskInv
<1>22. InUse' \subseteq InUse \cup e.add
  <2> SUFFICES ASSUME NEW t \in InUse' PROVE t \in InUse \cup e.add
    OBVIOUS
  <2>1. PICK d \in Dirs' : d.current # 0 /\ \E x \in Views(d.current)' : t \in x.tables
    BY DEF InUse
  <2>2. d.current = m /\ d \in Dirs
    BY <1>3, <2>1
  <2>3. PICK x \in Views(m) \cup {v} : t \in x.tables
    BY <1>12, <2>1, <2>2
  <2>4. x \in Views(m) => t \in InUse
    BY <2>1, <2>2, <2>3 DEF InUse
  <2>5. x = v => t \in InUse \cup e.add
    <3>1. Final.tables \subseteq InUse
      BY <1>2, <2>1, <2>2 DEF InUse
    <3>2. QED  BY <2>3, <3>1
  <2>6. QED  BY <2>3, <2>4, <2>5
<1>23. DiskInv'
  BY <1>3, <1>19, <1>20, <1>21 DEF DiskInv
<1>24. QED  BY <1>3, <1>12, <1>13, <1>18, <1>22, <1>23

(***************************************************************************)
(* A step that leaves the contents of the files as they are.               *)
(***************************************************************************)
LEMMA SameFiles ==
  ASSUME UNCHANGED files
  PROVE  /\ \A k : Views(k)' = Views(k) /\ HasCounters(k)' = HasCounters(k)
         /\ \A k : View(Recs(Manifest(k)))' = View(Recs(Manifest(k)))
         /\ \A l : LogEntries(l)' = LogEntries(l) /\ SafeEntries(l)' = SafeEntries(l)
         /\ \A T : TableEntries(T)' = TableEntries(T)
         /\ \A t : Whole(t)' = Whole(t)
         /\ \A d, x : Says(d, x)' = Says(d, x) /\ IsSure(d, x)' = IsSure(d, x)
<1>1. ASSUME NEW k PROVE /\ Recs(Manifest(k))' = Recs(Manifest(k)) /\ Recs(Log(k))' = Recs(Log(k))
                         /\ Recs(Table(k))' = Recs(Table(k))
                         /\ files'[Manifest(k)] = files[Manifest(k)]
                         /\ files'[Log(k)] = files[Log(k)] /\ files'[Table(k)] = files[Table(k)]
  BY DEF Recs, Manifest, Log, Table
<1>2. ASSUME NEW k PROVE Views(k)' = Views(k)
  <2>1. PICK recs, dur : recs = Recs(Manifest(k)) /\ dur = files[Manifest(k)].durable
    OBVIOUS
  <2>2. Views(k) = {View(SubSeq(recs, 1, n)) : n \in dur..Len(recs)}
    BY <2>1 DEF Views, ViewOf
  <2>3. recs = Recs(Manifest(k))' /\ dur = files'[Manifest(k)].durable
    BY <1>1, <2>1
  <2>4. Views(k)' = {View(SubSeq(recs, 1, n)) : n \in dur..Len(recs)}
    BY <2>3 DEF Views, ViewOf, View, Tables, LastEdit, Numbered, Manifest
  <2>5. QED  BY <2>2, <2>4
<1>3. ASSUME NEW k PROVE HasCounters(k)' = HasCounters(k)
  BY DEF HasCounters, Recs, Manifest
<1>4. ASSUME NEW k PROVE View(Recs(Manifest(k)))' = View(Recs(Manifest(k)))
  <2>1. View(Recs(Manifest(k)))' = View(Recs(Manifest(k))')
    BY DEF View, Tables, LastEdit, Numbered
  <2>2. QED  BY <1>1, <2>1
<1>5. ASSUME NEW l PROVE LogEntries(l)' = LogEntries(l)
  <2>1. LogEntries(l)' = EntriesOf(Recs(Log(l))')
    BY DEF LogEntries, EntriesOf
  <2>2. QED  BY <1>1, <2>1 DEF LogEntries
<1>6. ASSUME NEW l PROVE SafeEntries(l)' = SafeEntries(l)
  <2>1. SafeEntries(l)' = EntriesOf(SubSeq(Recs(Log(l))', 1, files'[Log(l)].durable))
    BY DEF SafeEntries, EntriesOf, Log
  <2>2. QED  BY <1>1, <2>1 DEF SafeEntries
<1>7. ASSUME NEW T PROVE TableEntries(T)' = TableEntries(T)
  <2>1. TableEntries(T)' = UNION {Recs(Table(t))'[1] : t \in T}
    BY DEF TableEntries
  <2>2. \A t \in T : Recs(Table(t))' = Recs(Table(t))
    BY <1>1
  <2>3. QED  BY <2>1, <2>2 DEF TableEntries
<1>8. ASSUME NEW t PROVE Whole(t)' = Whole(t)
  BY DEF Whole, Recs, Table
<1>9. ASSUME NEW d, NEW x PROVE Says(d, x)' = Says(d, x) /\ IsSure(d, x)' = IsSure(d, x)
  <2>1. \A e : e \in Says(d, x)' <=> e \in Says(d, x)
    BY <1>5, <1>7 DEF Says, Logged, LogsFor, Log
  <2>2. \A e : e \in IsSure(d, x)' <=> e \in IsSure(d, x)
    BY <1>6, <1>7 DEF IsSure, LoggedSafely, LogsFor, Log
  <2>3. Says(d, x)' = Says(d, x)
    <3>1. Says(d, x)' = TableEntries(x.tables)' \cup Logged(d, x.log)'
      BY DEF Says
    <3>2. Logged(d, x.log)' = UNION {LogEntries(l)' : l \in LogsFor(d, x.log)}
      BY DEF Logged, LogsFor, Log
    <3>3. UNION {LogEntries(l)' : l \in LogsFor(d, x.log)} = Logged(d, x.log)
      BY <1>5 DEF Logged
    <3>4. QED  BY <1>7, <3>1, <3>2, <3>3 DEF Says
  <2>4. IsSure(d, x)' = IsSure(d, x)
    <3>1. IsSure(d, x)' = TableEntries(x.tables)' \cup LoggedSafely(d, x.log)'
      BY DEF IsSure
    <3>2. LoggedSafely(d, x.log)' = UNION {SafeEntries(l)' : l \in LogsFor(d, x.log)}
      BY DEF LoggedSafely, LogsFor, Log
    <3>3. UNION {SafeEntries(l)' : l \in LogsFor(d, x.log)} = LoggedSafely(d, x.log)
      BY <1>6 DEF LoggedSafely
    <3>4. QED  BY <1>7, <3>1, <3>2, <3>3 DEF IsSure
  <2>5. QED  BY <2>3, <2>4
<1>10. QED  BY <1>2, <1>3, <1>4, <1>5, <1>6, <1>7, <1>8, <1>9

(***************************************************************************)
(* CURRENT names another MANIFEST, which is whole and on the disk.         *)
(***************************************************************************)
LEMMA CurrentSet ==
  ASSUME DiskInv, NEW m \in Nat \ {0}, NEW n \in Nat, SetCurrent(Temp(n), m),
         Manifest(m) \in Dir.names, \A d \in Dirs : d.current # m, HasCounters(m),
         files[Manifest(m)].durable = Len(Recs(Manifest(m))),
         NEW v, v = View(Recs(Manifest(m))),
         \A t \in v.tables : Table(t) \in Dir.names /\ Whole(t) /\ t < v.next,
         v.log < v.next, m < v.next, v.seq <= writes,
         Dir.current # 0 => Final.next <= v.next,
         \A x \in TableEntries(v.tables) : x.seq <= v.seq,
         Says(Dir, v) = Full, synced \subseteq OpsOf(IsSure(Dir, v)),
         \A l \in Nat : Log(l) \in Reachable(dirs) /\ Log(l) \notin Dir.names => l < v.log,
         synced' = synced, writes' = writes
  PROVE  /\ DiskInv' /\ Full' = Full /\ Final' = v /\ UNCHANGED files
         /\ Dir'.current = m /\ Dir'.names = Dir.names \ {Temp(n)} /\ Dirs' = Dirs \cup {Dir'}
         /\ Views(m)' = {v} /\ InUse' \subseteq InUse \cup v.tables
         /\ \A l \in Nat : Log(l) \in Reachable(dirs)' => Log(l) \in Reachable(dirs)
<1> DEFINE M == Manifest(m)
           new == [names |-> Dir.names \ {Temp(n)}, current |-> m]
<1>1. DiskTyped /\ (\A d \in Dirs : DirInv(d)) /\ Dir \in Dirs /\ Dir \in Directory /\ FilesTyped
      /\ Dir.names \subseteq Reachable(dirs) /\ Reachable(dirs) \subseteq DOMAIN files
  BY DirFacts DEF DiskInv
<1>2. new \in Directory /\ new.names = Dir.names \ {Temp(n)} /\ new.current = m
  BY <1>1 DEF Directory
<1>3. dirs' = Append(dirs, new) /\ files' = files
  BY DEF SetCurrent
<1> HIDE DEF new
<1>4. dirs' \in Seq(Directory) /\ dirs' # <<>> /\ Dir' = new /\ Dirs' = Dirs \cup {new}
  BY <1>1, <1>2, <1>3, DirsAppend
<1>5. \A f : f \in Reachable(dirs)' => f \in Reachable(dirs)
  <2>1. \A f : f \in Reachable(dirs)' <=> \E c \in Dirs' : f \in c.names
    BY ReachableIs DEF Dirs
  <2>2. \A f : f \in Reachable(dirs) <=> \E c \in Dirs : f \in c.names
    BY ReachableIs DEF Dirs
  <2>3. QED  BY <1>1, <1>2, <1>4, <2>1, <2>2
<1>6. DiskTyped'
  BY <1>1, <1>3, <1>4, <1>5 DEF DiskTyped, FilesTyped
<1>7. /\ \A k : Views(k)' = Views(k) /\ HasCounters(k)' = HasCounters(k)
      /\ \A k : View(Recs(Manifest(k)))' = View(Recs(Manifest(k)))
  BY <1>3, SameFiles
<1>8. \A T : TableEntries(T)' = TableEntries(T) /\ \A t : Whole(t)' = Whole(t)
  BY <1>3, SameFiles
<1>9. ASSUME NEW d, NEW x PROVE Says(d, x)' = Says(d, x) /\ IsSure(d, x)' = IsSure(d, x)
  BY <1>3, SameFiles
<1>10. M \in DOMAIN files /\ v \in ViewType /\ Views(m) = {v}
  <2>1. M \in DOMAIN files
    BY <1>1
  <2>2. PICK recs : recs = Recs(M)
    OBVIOUS
  <2>3. recs \in Seq(VersionEdit) /\ Len(recs) \in Nat /\ files[M].durable = Len(recs)
    BY <1>1, <2>1, <2>2, RecordsTyped
  <2>4. SubSeq(recs, 1, Len(recs)) = recs /\ Len(recs)..Len(recs) = {Len(recs)}
    BY <2>3, SubSeqFull
  <2>5. Views(m) = {View(SubSeq(recs, 1, k)) : k \in Len(recs)..Len(recs)}
    BY <2>2, <2>3 DEF Views, ViewOf
  <2>6. v \in ViewType
    BY <1>1, <2>1, ViewsTyped
  <2>7. QED  BY <2>1, <2>2, <2>4, <2>5, <2>6
<1>11. Final' = v
  <2>1. Final' = View(Recs(Manifest(Dir.current))')
    BY DEF Final, View, Tables, LastEdit, Numbered
  <2>2. Recs(Manifest(Dir.current))' = Recs(Manifest(m))
    BY <1>2, <1>3, <1>4 DEF Recs, Manifest
  <2>3. QED  BY <2>1, <2>2
<1>12. ASSUME NEW x PROVE Says(new, x) = Says(Dir, x) /\ IsSure(new, x) = IsSure(Dir, x)
  <2>1. \A l : Log(l) \in new.names <=> Log(l) \in Dir.names
    BY <1>2, Names
  <2>2. QED  BY <2>1 DEF Says, IsSure, Logged, LoggedSafely, LogsFor
<1>13. PICK d1 : d1 = new
  OBVIOUS
<1>14. Full' = Full
  <2>1. Full' = Says(d1, v)'
    BY <1>2, <1>4, <1>11, <1>13, FullIs
  <2>2. QED  BY <1>9, <1>12, <1>13, <2>1
<1>15. ASSUME NEW d \in Dirs PROVE DirInv(d)'
  <2>1. DirInv(d)
    BY <1>1
  <2>2. CASE d.current = 0
    BY <2>1, <2>2 DEF DirInv, Log
  <2>3. CASE d.current # 0
    <3>1. /\ Dir.current # 0 /\ Manifest(d.current) \in d.names /\ HasCounters(d.current)
          /\ \A x \in Views(d.current) : x \in ViewType /\ Sound(d, x)
      BY <1>1, <2>1, <2>3, DirOpen
    <3>2. Final.next <= v.next /\ Final \in ViewType
      BY <1>1, <3>1, DirOpen DEF Final
    <3>3. ASSUME NEW x \in Views(d.current) PROVE Sound(d, x)'
      <4>1. x \in ViewType /\ Sound(d, x)
        BY <3>1
      <4>2. x.next <= Final'.next
        <5>1. x.next \in Nat /\ Final.next \in Nat /\ v.next \in Nat /\ x.next <= Final.next
          BY <1>10, <3>2, <4>1 DEF Sound, ViewType
        <5>2. QED  BY <1>11, <3>2, <5>1
      <4>3. Says(d, x)' \subseteq Full' /\ synced' \subseteq OpsOf(IsSure(d, x))'
        BY <1>9, <1>14, <4>1 DEF Sound, OpsOf
      <4>4. /\ \A t \in x.tables : Table(t) \in d.names /\ Whole(t)' /\ t < x.next
            /\ x.log < x.next /\ d.current < x.next /\ x.seq <= writes'
            /\ \A y \in TableEntries(x.tables)' : y.seq <= x.seq
        BY <1>8, <4>1 DEF Sound
      <4>5. QED  BY <4>2, <4>3, <4>4 DEF Sound, Table
    <3>4. Dir'.current # 0
      BY <1>2, <1>4
    <3>5. QED  BY <1>7, <2>3, <3>1, <3>3, <3>4 DEF DirInv, Manifest
  <2>4. QED  BY <2>2, <2>3
<1>16. DirInv(d1)'
  <2>1. Sound(d1, v)'
    <3>1. \A t \in v.tables : Table(t) \in d1.names /\ Whole(t)' /\ t < v.next
      BY <1>2, <1>8, <1>13, Names
    <3>2. v.next \in Nat /\ v.next <= Final'.next
      BY <1>10, <1>11 DEF ViewType
    <3>3. Says(d1, v)' \subseteq Full' /\ synced' \subseteq OpsOf(IsSure(d1, v))'
      BY <1>9, <1>12, <1>13, <1>14 DEF OpsOf
    <3>4. /\ v.log < v.next /\ d1.current < v.next /\ v.seq <= writes'
          /\ \A y \in TableEntries(v.tables)' : y.seq <= v.seq
      BY <1>2, <1>8, <1>13
    <3>5. QED  BY <3>1, <3>2, <3>3, <3>4 DEF Sound, Table
  <2>2. M \in d1.names /\ d1.current = m /\ Dir'.current # 0
    BY <1>2, <1>4, <1>13, Names
  <2>3. Views(d1.current)' = {v} /\ HasCounters(d1.current)'
    BY <1>7, <1>10, <2>2
  <2>4. QED  BY <2>1, <2>2, <2>3 DEF DirInv, Manifest
<1>17. LogsGone'
  <2>1. \A x \in Views(Dir.current)' : x = v
    <3>1. Views(m)' = {v} /\ Dir'.current = m
      BY <1>2, <1>4, <1>7, <1>10
    <3>2. QED  BY <3>1
  <2>2. \A l \in Nat : Log(l) \notin Dir'.names => Log(l) \notin Dir.names
    BY <1>2, <1>4, Names
  <2>3. QED  BY <1>5, <2>1, <2>2 DEF LogsGone, Log
<1>18. FullInv'
  BY <1>14 DEF FullInv, DiskInv
<1>19. InUse' \subseteq InUse \cup v.tables
  <2> SUFFICES ASSUME NEW t \in InUse' PROVE t \in InUse \cup v.tables
    OBVIOUS
  <2>1. PICK d \in Dirs' : d.current # 0 /\ \E x \in Views(d.current)' : t \in x.tables
    BY DEF InUse
  <2>2. PICK x \in Views(d.current) : t \in x.tables
    BY <1>7, <2>1
  <2>3. CASE d \in Dirs
    BY <2>1, <2>2, <2>3 DEF InUse
  <2>4. CASE d = new
    BY <1>2, <1>10, <2>2, <2>4
  <2>5. QED  BY <1>4, <2>3, <2>4
<1>20. DiskInv'
  BY <1>4, <1>6, <1>13, <1>15, <1>16, <1>17, <1>18 DEF DiskInv
<1>21. QED  BY <1>2, <1>3, <1>4, <1>5, <1>7, <1>10, <1>11, <1>14, <1>19, <1>20

(***************************************************************************)
(* A write with sync returns.                                              *)
(***************************************************************************)
LEMMA SyncedOne ==
  ASSUME DiskInv, UNCHANGED diskVars, writes' = writes, NEW op, synced' = synced \cup {op},
         \A d \in Dirs : d.current # 0 /\ \A v \in Views(d.current) : op \in OpsOf(IsSure(d, v))
  PROVE  DiskInv'
<1>1. UNCHANGED dirs /\ UNCHANGED files
  BY DEF diskVars
<1>2. DiskTyped' /\ Dirs' = Dirs /\ Dir' = Dir /\ Reachable(dirs)' = Reachable(dirs)
  BY <1>1, SameDisk, SameDirs DEF DiskInv
<1>3. /\ \A k : Views(k)' = Views(k) /\ HasCounters(k)' = HasCounters(k)
      /\ \A T : TableEntries(T)' = TableEntries(T) /\ \A t : Whole(t)' = Whole(t)
      /\ Final' = Final
  <2>1. Final' = View(Recs(Manifest(Dir.current))')
    BY DEF Final, View, Tables, LastEdit, Numbered
  <2>2. Recs(Manifest(Dir.current))' = Recs(Manifest(Dir.current))
    BY <1>1, <1>2 DEF Recs, Manifest
  <2>3. Final' = Final
    BY <2>1, <2>2 DEF Final
  <2>4. QED  BY <1>1, <2>3, SameFiles
<1>4. ASSUME NEW d, NEW x PROVE Says(d, x)' = Says(d, x) /\ IsSure(d, x)' = IsSure(d, x)
  BY <1>1, SameFiles
<1>5. Full' = Full
  <2>1. PICK d, v : d = Dir /\ v = Final
    OBVIOUS
  <2>2. Full' = IF d.current = 0 THEN {} ELSE Says(d, v)'
    BY <1>2, <1>3, <2>1, FullIs
  <2>3. QED  BY <1>4, <2>1, <2>2 DEF Full
<1>6. ASSUME NEW d \in Dirs PROVE DirInv(d)'
  <2>1. DirInv(d) /\ d.current # 0
    BY DEF DiskInv
  <2>2. ASSUME NEW v \in Views(d.current) PROVE Sound(d, v)'
    <3>1. Sound(d, v)
      BY <2>1 DEF DirInv
    <3>2. synced' \subseteq OpsOf(IsSure(d, v))'
      BY <1>4, <3>1 DEF Sound, OpsOf
    <3>3. Says(d, v)' \subseteq Full' /\ v.next <= Final'.next
      BY <1>3, <1>4, <1>5, <3>1 DEF Sound
    <3>4. /\ \A t \in v.tables : Table(t) \in d.names /\ Whole(t)' /\ t < v.next
          /\ v.log < v.next /\ d.current < v.next /\ v.seq <= writes'
          /\ \A y \in TableEntries(v.tables)' : y.seq <= v.seq
      BY <1>3, <3>1 DEF Sound
    <3>5. QED  BY <3>2, <3>3, <3>4 DEF Sound, Table
  <2>3. QED  BY <1>2, <1>3, <2>1, <2>2 DEF DirInv, Manifest
<1>7. LogsGone'
  <2>1. Views(Dir.current)' = Views(Dir.current)
    <3>1. PICK k : k = Dir.current
      OBVIOUS
    <3>2. Views(k)' = Views(k) /\ Dir'.current = k
      BY <1>1, <1>2, <3>1, SameFiles
    <3>3. QED  BY <3>1, <3>2
  <2>2. QED  BY <1>2, <2>1 DEF DiskInv, LogsGone, Log
<1>8. FullInv'
  BY <1>5 DEF FullInv, DiskInv
<1>9. QED  BY <1>2, <1>6, <1>7, <1>8 DEF DiskInv

===============================================================================
