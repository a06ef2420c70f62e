------------------------------- MODULE LsmFiles -------------------------------
(***************************************************************************)
(* Entries, table files and the pure functions of db/version_set.cc that   *)
(* choose files of a level.  An entry is an internal key: user key k,      *)
(* sequence number s and whether it is a deletion (d).  A file is its      *)
(* FileMetaData (number, smallest and largest key) and its set of entries; *)
(* sizes are counted in entries.                                           *)
(***************************************************************************)
EXTENDS Integers, Sequences, FiniteSetsExt

CONSTANT NumKeys \* user keys are 1..NumKeys

ASSUME NumKeysAssumption == NumKeys \in Nat \ {0}

Keys == 1..NumKeys

\* A range of user keys: Least and Greatest stand for nullptr ends.
Least == 0
Greatest == NumKeys + 1
Bounds == Least..Greatest

\* InternalKeyComparator::Compare(a, b) < 0: newer entries of a key come first.
Before(a, b) == a.k < b.k \/ (a.k = b.k /\ a.s > b.s)

FirstEntry(S) == CHOOSE e \in S : \A g \in S : e = g \/ Before(e, g)
LastEntry(S) == CHOOSE e \in S : \A g \in S : e = g \/ Before(g, e)

\* The file that BuildTable or a compaction makes of the entries S.
File(num, S) ==
  [num |-> num, ents |-> S, smallest |-> FirstEntry(S), largest |-> LastEntry(S)]

\* S as a sequence in the order Less, a strict total order of its elements.
OrderBy(S, Less(_, _)) ==
  [i \in 1..Cardinality(S) |->
     CHOOSE x \in S : Cardinality({y \in S : Less(y, x)}) = i - 1]

\* The files of a level as Version keeps them: by smallest key.
InOrder(files) == OrderBy(files, LAMBDA f, g : Before(f.smallest, g.smallest))

TotalFileSize(files) == MapThenSumSet(LAMBDA f : Cardinality(f.ents), files)

Entries(files) == UNION {f.ents : f \in files}

(***************************************************************************)
(* FindFile: the binary search for the first file whose largest key is at  *)
(* or after key; an index past the end when there is none.                 *)
(***************************************************************************)
FindFile(files, key) ==
  LET n == Len(files)
      search[left \in 0..n, right \in 0..n] ==
        LET mid == (left + right) \div 2
        IN  IF left >= right THEN right
            ELSE IF Before(files[mid + 1].largest, key)
                 THEN search[mid + 1, right]
                 ELSE search[left, mid]
  IN  search[0, n] + 1

(***************************************************************************)
(* Overlap of files with a range of user keys.                             *)
(***************************************************************************)
Overlaps(f, lo, hi) == f.smallest.k <= hi /\ lo <= f.largest.k

SomeFileOverlapsRange(files, lo, hi) == \E f \in files : Overlaps(f, lo, hi)

LowKey(files) == Min({f.smallest.k : f \in files})
HighKey(files) == Max({f.largest.k : f \in files})

\* GetOverlappingInputs; in level 0, where files overlap, the range grows to
\* that of the files found and the search starts again.
GetOverlappingInputs(files, level, lo, hi) ==
  LET found(r) == {f \in files : Overlaps(f, r[1], r[2])}
      wider(r) == <<Min({r[1]} \cup {f.smallest.k : f \in found(r)}),
                    Max({r[2]} \cup {f.largest.k : f \in found(r)})>>
      grow[r \in Bounds \X Bounds] == IF wider(r) = r THEN found(r) ELSE grow[wider(r)]
  IN  IF level = 0 THEN grow[<<lo, hi>>] ELSE found(<<lo, hi>>)

(***************************************************************************)
(* AddBoundaryInputs: a file of the level that begins with older entries   *)
(* of the user key the inputs end with joins them, until there is none.    *)
(***************************************************************************)
NoBoundaryInputs(files, inputs) == inputs \* mutant: they stay behind
AddBoundaryInputs(files, inputs) ==
  LET last(in) == CHOOSE e \in {f.largest : f \in in} :
                    \A g \in in : ~Before(e, g.largest)
      boundary(in) == {f \in files : /\ Before(last(in), f.smallest)
                                     /\ f.smallest.k = last(in).k}
      first(S) == CHOOSE f \in S : \A g \in S : ~Before(g.smallest, f.smallest)
      add[in \in SUBSET files] ==
        IF boundary(in) = {} THEN in ELSE add[in \cup {first(boundary(in))}]
  IN  IF inputs = {} THEN {} ELSE add[inputs]
==============================================================================
