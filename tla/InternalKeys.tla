----------------------------- MODULE InternalKeys ----------------------------
(***************************************************************************)
(* Internal keys and their order (db/dbformat.cc, util/comparator.cc).  An *)
(* internal key is its bytes, the last of which stands for the eight of    *)
(* the tag: twice the sequence, plus one for a value.                      *)
(***************************************************************************)
EXTENDS Integers, Sequences, SequencesExt, FiniteSetsExt

CONSTANTS
  MaxByte,   \* 0xff
  MaxTag     \* kMaxSequenceNumber with kValueTypeForSeek

InternalKey(user, sequence, type) == Append(user, 2 * sequence + type)
kTypeDeletion == 0
kTypeValue == 1

\* ParseInternalKey, ExtractUserKey
UserKey(k) == Front(k)
Tag(k) == Last(k)
SequenceOf(k) == Tag(k) \div 2
TypeOf(k) == Tag(k) % 2

\* LookupKey: the first internal key of user that a reader at sequence may see.
LookupKey(user, sequence) == InternalKey(user, sequence, kTypeValue)

\* The length of the prefix two strings share.
Shared(a, b) ==
  LET m == Min({Len(a), Len(b)})
      differ == {i \in 1..m : a[i] # b[i]}
  IN  IF differ = {} THEN m ELSE Min(differ) - 1

\* BytewiseComparatorImpl::Compare(a, b) < 0
BytesLess(a, b) ==
  LET n == Shared(a, b) IN n < Len(b) /\ (n = Len(a) \/ a[n + 1] < b[n + 1])

\* InternalKeyComparator::Compare(a, b) < 0: newer entries of a user key first
KeyLess(a, b) ==
  IF UserKey(a) = UserKey(b) THEN Tag(a) > Tag(b) ELSE BytesLess(UserKey(a), UserKey(b))

\* BytewiseComparatorImpl
UpToLimit(start, limit) == \* mutant: the shortened key may be the limit itself
  LET d == Shared(start, limit) IN
    IF d < Len(start) /\ d < Len(limit) /\ start[d + 1] < MaxByte
    THEN Append(SubSeq(start, 1, d), start[d + 1] + 1)
    ELSE start

BytesSeparator(start, limit) ==
  LET d == Shared(start, limit) IN
    IF /\ d < Len(start) /\ d < Len(limit)
       /\ start[d + 1] < MaxByte /\ start[d + 1] + 1 < limit[d + 1]
    THEN Append(SubSeq(start, 1, d), start[d + 1] + 1)
    ELSE start

BytesSuccessor(key) ==
  LET free == {i \in 1..Len(key) : key[i] # MaxByte} IN
    IF free = {} THEN key
    ELSE Append(SubSeq(key, 1, Min(free) - 1), key[Min(free)] + 1)

\* InternalKeyComparator: a shortened user key gets the earliest tag
Shortened(key, user) ==
  IF Len(user) < Len(UserKey(key)) /\ BytesLess(UserKey(key), user)
  THEN Append(user, MaxTag) ELSE key

FindShortestSeparator(start, limit) ==
  Shortened(start, BytesSeparator(UserKey(start), UserKey(limit)))

FindShortSuccessor(key) == Shortened(key, BytesSuccessor(UserKey(key)))
==============================================================================
