--------------------------- MODULE LogFormatProofs ---------------------------
(***************************************************************************)
(* Proofs about LogFormat for every block size, header size, set of record *)
(* sizes and bound.  Alignment is inductive together with the types: what  *)
(* a fragment adds to block_offset_ it adds to the file, and switching to  *)
(* a new block adds exactly the padding.                                   *)
(*                                                                         *)
(* What is read: the reader is a recursive function of the offset, shown   *)
(* to exist and then followed from the end of the file downwards.  Of any  *)
(* file the Writer can leave it meets whole pieces in order (AllIntact),   *)
(* of a file that is not Broken all of them (ReadsAll), and of a file that *)
(* has grown what it met before, and more (ReadLonger): from these follow  *)
(* what is returned, what is reported and the refinement of RecordLog.     *)
(***************************************************************************)
EXTENDS LogFormat, SequenceTheorems, NaturalsInduction, WellFoundedInduction, TLAPS

IInv == TypeOK /\ WriterAligned

LEMMA SizeType ==
  ASSUME file \in Seq(Piece)
  PROVE  FileSize \in Nat
<1>1. CASE file = <<>>
  BY <1>1 DEF FileSize
<1>2. CASE file # <<>>
  <2>1. file[Len(file)] \in Piece
    BY <1>2
  <2>2. QED  BY <1>2, <2>1 DEF FileSize, Piece
<1>3. QED  BY <1>1, <1>2

\* A piece at the end of the file makes it longer by what was kept.
LEMMA Grows ==
  ASSUME file \in Seq(Piece), NEW p \in Piece, p.at = FileSize, file' = Append(file, p)
  PROVE  FileSize' = FileSize + p.kept /\ file' \in Seq(Piece)
<1>1. file' # <<>> /\ Len(file') = Len(file) + 1 /\ file'[Len(file')] = p
  OBVIOUS
<1>2. QED  BY <1>1 DEF FileSize

\* What EmitPhysicalRecord is about to write.
LEMMA NextPieceType ==
  ASSUME TypeOK, adding.part > 0
  PROVE  /\ NextPiece.pad \in Nat /\ NextPiece.len \in Nat
         /\ NextPiece.len <= adding.left
         /\ Bytes(NextPiece) \in Nat \ {0}
         /\ OffsetAfter(NextPiece.len) \in 0..BlockSize
         /\ \A kept \in 1..Bytes(NextPiece) : Written(NextPiece, kept) \in Piece
<1>1. adding \in [rec : 1..added, left : Nat, part : Nat \ {0}]
  BY DEF TypeOK, NotAdding
<1>2. /\ StartOffset \in Nat /\ StartOffset + HeaderSize <= BlockSize
      /\ Padding(blockOffset) \in Nat
  BY BlockAssumption DEF TypeOK, StartOffset, Padding
<1>3. /\ NextPiece.len \in Nat /\ NextPiece.len <= adding.left
      /\ NextPiece.len <= BlockSize - StartOffset - HeaderSize
      /\ NextPiece.pad = Padding(blockOffset)
      /\ NextPiece.rec = adding.rec /\ NextPiece.part = adding.part
  BY <1>1, <1>2, BlockAssumption DEF NextPiece
<1>4. NextPiece.type \in {"full", "first", "middle", "last"}
  <2>1. NextPiece.type = Type(adding.part = 1, NextPiece.len = adding.left)
    BY DEF NextPiece
  <2>2. QED  BY <2>1 DEF Type
<1>5. Bytes(NextPiece) \in Nat \ {0} /\ OffsetAfter(NextPiece.len) \in 0..BlockSize
  BY <1>2, <1>3, BlockAssumption DEF Bytes, OffsetAfter
<1>6. ASSUME NEW kept \in 1..Bytes(NextPiece)
      PROVE  Written(NextPiece, kept) \in Piece
  <2>1. adding.rec \in 1..MaxRecords /\ FileSize \in Nat
    BY <1>1, SizeType, BlockAssumption DEF TypeOK
  <2>2. QED  BY <1>1, <1>2, <1>3, <1>4, <1>5, <2>1 DEF Written, Piece
<1>7. QED  BY <1>2, <1>3, <1>5, <1>6

\* The switch to a new block moves the offset as far as the padding does.
LEMMA StartAligned ==
  ASSUME TypeOK, NEW b \in Nat, FileSize = (b * BlockSize) + blockOffset
  PROVE  \E c \in Nat : FileSize + Padding(blockOffset) = (c * BlockSize) + StartOffset
<1>1. CASE BlockSize - blockOffset < HeaderSize
  <2>1. FileSize + Padding(blockOffset) = ((b + 1) * BlockSize) + StartOffset
    BY <1>1, BlockAssumption DEF TypeOK, Padding, StartOffset
  <2>2. QED  BY <2>1
<1>2. CASE ~(BlockSize - blockOffset < HeaderSize)
  BY <1>2, BlockAssumption DEF TypeOK, Padding, StartOffset
<1>3. QED  BY <1>1, <1>2

LEMMA Quotient ==
  ASSUME NEW size \in Nat, NEW c \in Nat, NEW o \in Nat, size = (c * BlockSize) + o
  PROVE  c \in 0..size
  BY BlockAssumption

LEMMA InitIInv == Init => IInv
<1> SUFFICES ASSUME Init PROVE IInv
  OBVIOUS
<1>1. FileSize = 0 /\ StartOffset = 0
  BY BlockAssumption DEF Init, FileSize, StartOffset
<1>2. TypeOK
  <2>1. StartOffset + HeaderSize <= BlockSize /\ blockOffset \in 0..BlockSize
    BY <1>1, BlockAssumption DEF Init
  <2>2. added \in 0..MaxRecords
    BY BlockAssumption DEF Init
  <2>3. QED  BY <1>1, <2>1, <2>2 DEF Init, TypeOK
<1>3. WriterAligned
  <2>1. FileSize = (0 * BlockSize) + blockOffset
    BY <1>1, BlockAssumption DEF Init
  <2>2. QED  BY <1>1, <2>1 DEF WriterAligned
<1>4. QED  BY <1>2, <1>3 DEF IInv

\* StartOffset never leaves less than a header in the block.
LEMMA RoomForHeader ==
  blockOffset' \in 0..BlockSize => StartOffset' + HeaderSize <= BlockSize
<1>1. ASSUME NEW o \in 0..BlockSize
      PROVE  (IF BlockSize - o < HeaderSize THEN 0 ELSE o) + HeaderSize <= BlockSize
  BY BlockAssumption
<1>2. QED  BY <1>1 DEF StartOffset

LEMMA Inductive == IInv /\ [Next]_vars => IInv'
<1> SUFFICES ASSUME IInv, [Next]_vars PROVE IInv'
  OBVIOUS
<1>0. TypeOK /\ WriterAligned /\ FileSize \in Nat
  BY SizeType DEF IInv, TypeOK
<1>1. ASSUME NEW size \in Sizes, AddRecord(size) PROVE IInv'
  <2>1. FileSize' = FileSize /\ StartOffset' = StartOffset
    BY <1>1 DEF AddRecord, FileSize, StartOffset
  <2>2. adding' \in [rec : 1..added', left : Nat, part : Nat \ {0}] /\ open'
    BY <1>0, <1>1, BlockAssumption DEF AddRecord, Idle, TypeOK
  <2>3. added' \in 0..MaxRecords /\ acked' \subseteq 1..added'
    BY <1>0, <1>1, BlockAssumption DEF AddRecord, TypeOK
  <2>4. TypeOK'
    BY <1>0, <1>1, <2>1, <2>2, <2>3 DEF AddRecord, TypeOK, Bytes
  <2>5. WriterAligned'
    BY <1>0, <1>1, <2>1 DEF AddRecord, WriterAligned
  <2>6. QED  BY <2>4, <2>5 DEF IInv
<1>2. CASE EmitPhysicalRecord
  <2> DEFINE p == NextPiece
             w == Written(p, Bytes(p))
  <2>1. /\ adding.part > 0 /\ file' = Append(file, w)
        /\ blockOffset' = OffsetAfter(p.len)
        /\ adding' = IF p.len = adding.left THEN NotAdding
                     ELSE [rec |-> adding.rec, left |-> adding.left - p.len, part |-> adding.part + 1]
        /\ acked' = IF p.len = adding.left THEN acked \cup {adding.rec} ELSE acked
        /\ UNCHANGED <<synced, open, added, faults, crashes>>
    BY <1>2 DEF EmitPhysicalRecord
  <2>2. /\ p.pad \in Nat /\ p.len \in Nat /\ p.len <= adding.left
        /\ Bytes(p) \in Nat \ {0} /\ OffsetAfter(p.len) \in 0..BlockSize
        /\ w \in Piece
    BY <1>0, <2>1, NextPieceType
  <2>3. w.at = FileSize /\ w.kept = Bytes(p) /\ Bytes(w) = Bytes(p)
    BY DEF Written, Bytes
  <2>4. FileSize' = FileSize + Bytes(p) /\ file' \in Seq(Piece)
    BY <1>0, <2>1, <2>2, <2>3, Grows DEF TypeOK
  <2>5. TypeOK'
    <3>1. \A i \in DOMAIN file' : file'[i].kept <= Bytes(file'[i])
      BY <1>0, <2>1, <2>2, <2>3 DEF TypeOK
    <3>2. adding \in [rec : 1..added, left : Nat, part : Nat \ {0}] /\ open
      BY <1>0, <2>1 DEF TypeOK, NotAdding
    <3>3. adding' = NotAdding \/ adding' \in [rec : 1..added', left : Nat, part : Nat \ {0}]
      BY <2>1, <2>2, <3>2
    <3>4. acked' \subseteq 1..added'
      BY <1>0, <2>1, <3>2 DEF TypeOK
    <3>5. synced' \in 0..FileSize'
      BY <1>0, <2>1, <2>2, <2>4 DEF TypeOK
    <3>6. StartOffset' + HeaderSize <= BlockSize
      BY <2>1, <2>2, RoomForHeader
    <3>7. QED  BY <1>0, <2>1, <2>2, <2>4, <3>1, <3>2, <3>3, <3>4, <3>5, <3>6 DEF TypeOK, Bytes
  <2>6. WriterAligned'
    <3> SUFFICES ASSUME open', faults' = 0
                 PROVE  \E c \in 0..FileSize' : FileSize' = (c * BlockSize) + blockOffset'
      BY DEF WriterAligned
    <3>1. PICK b \in 0..FileSize : FileSize = (b * BlockSize) + blockOffset
      BY <1>0, <2>1 DEF WriterAligned
    <3>2. PICK c \in Nat : FileSize + Padding(blockOffset) = (c * BlockSize) + StartOffset
      BY <1>0, <3>1, StartAligned
    <3>3. p.pad = Padding(blockOffset)
      BY DEF NextPiece
    <3>4. StartOffset \in Nat /\ Padding(blockOffset) \in Nat
      BY <1>0, BlockAssumption DEF TypeOK, StartOffset, Padding
    <3>5. FileSize' = (c * BlockSize) + blockOffset'
      <4>1. FileSize' = (FileSize + Padding(blockOffset)) + (HeaderSize + p.len)
        BY <1>0, <2>2, <2>4, <3>3, <3>4, BlockAssumption DEF Bytes
      <4>2. blockOffset' = StartOffset + (HeaderSize + p.len)
        BY <2>1, <2>2, <3>4, BlockAssumption DEF OffsetAfter
      <4>3. c * BlockSize \in Nat
        BY <3>2, BlockAssumption
      <4>4. QED  BY <2>2, <3>2, <3>4, <4>1, <4>2, <4>3, BlockAssumption
    <3>6. FileSize' \in Nat /\ blockOffset' \in Nat
      BY <1>0, <2>1, <2>2, <2>4
    <3>7. c \in 0..FileSize'
      BY <3>2, <3>5, <3>6, Quotient
    <3>8. QED  BY <3>5, <3>7
  <2>7. QED  BY <2>5, <2>6 DEF IInv
<1>3. CASE EmitFails
  <2> DEFINE p == NextPiece
  <2>1. PICK kept \in 0..(Bytes(p) - 1) :
          file' = IF kept = 0 THEN file ELSE Append(file, Written(p, kept))
    BY <1>3 DEF EmitFails
  <2>2. /\ adding.part > 0 /\ blockOffset' = OffsetAfter(p.len)
        /\ adding' = NotAdding /\ faults' = faults + 1
        /\ UNCHANGED <<synced, open, added, acked, crashes>>
    BY <1>3 DEF EmitFails
  <2>3. /\ Bytes(p) \in Nat \ {0} /\ OffsetAfter(p.len) \in 0..BlockSize
        /\ \A k \in 1..Bytes(p) : Written(p, k) \in Piece
    BY <1>0, <2>2, NextPieceType
  <2>4. /\ FileSize' \in Nat /\ FileSize' >= FileSize
        /\ file' \in Seq(Piece) /\ \A i \in DOMAIN file' : file'[i].kept <= Bytes(file'[i])
    <3>1. CASE kept = 0
      <4>1. file' = file /\ FileSize' = FileSize
        BY <2>1, <3>1 DEF FileSize
      <4>2. QED  BY <1>0, <4>1 DEF TypeOK
    <3>2. CASE kept # 0
      <4> DEFINE w == Written(p, kept)
      <4>1. file' = Append(file, w) /\ w \in Piece
        BY <2>1, <2>3, <3>2
      <4>2. w.at = FileSize /\ w.kept = kept /\ Bytes(w) = Bytes(p)
        BY DEF Written, Bytes
      <4>3. FileSize' = FileSize + kept /\ file' \in Seq(Piece)
        BY <1>0, <4>1, <4>2, Grows DEF TypeOK
      <4>4. \A i \in DOMAIN file' : file'[i].kept <= Bytes(file'[i])
        BY <1>0, <2>1, <2>3, <4>1, <4>2 DEF TypeOK
      <4>5. QED  BY <1>0, <2>1, <2>3, <4>3, <4>4
    <3>3. QED  BY <3>1, <3>2
  <2>5. TypeOK'
    <3>1. StartOffset' + HeaderSize <= BlockSize
      BY <2>2, <2>3, RoomForHeader
    <3>2. synced' \in 0..FileSize'
      BY <1>0, <2>2, <2>4 DEF TypeOK
    <3>3. QED  BY <1>0, <2>2, <2>3, <2>4, <3>1, <3>2 DEF TypeOK, Bytes
  <2>6. WriterAligned'
    BY <1>0, <2>2 DEF WriterAligned, TypeOK
  <2>7. QED  BY <2>5, <2>6 DEF IInv
<1>4. CASE Sync
  <2>1. FileSize' = FileSize /\ StartOffset' = StartOffset
    BY <1>4 DEF Sync, FileSize, StartOffset
  <2>2. TypeOK'
    BY <1>0, <1>4, <2>1 DEF Sync, TypeOK, Bytes
  <2>3. WriterAligned'
    BY <1>0, <1>4, <2>1 DEF Sync, WriterAligned
  <2>4. QED  BY <2>2, <2>3 DEF IInv
<1>5. CASE Crash
  <2>1. /\ file' \in Seq(Piece) /\ FileSize' \in Nat /\ synced' \in 0..FileSize'
        /\ \A i \in DOMAIN file' : file'[i].kept <= Bytes(file'[i])
    <3>1. CASE synced = 0 /\ file' = <<>> /\ UNCHANGED synced
      BY <3>1 DEF FileSize
    <3>2. ASSUME NEW n \in 1..Len(file), NEW kept \in 1..file[n].kept,
                 file' = FirstPieces(n, kept), synced' = file[n].at + kept
          PROVE  /\ file' \in Seq(Piece) /\ FileSize' \in Nat /\ synced' \in 0..FileSize'
                 /\ \A i \in DOMAIN file' : file'[i].kept <= Bytes(file'[i])
      <4>1. \A i \in 1..n : file[i] \in Piece /\ file[i].kept <= Bytes(file[i])
        BY <1>0, <3>2 DEF TypeOK
      <4>2. n \in Nat \ {0} /\ kept \in Nat \ {0} /\ kept <= file[n].kept
        <5>1. n \in 1..Len(file) /\ Len(file) \in Nat
          BY <1>0, <3>2 DEF TypeOK
        <5>2. n \in 1..n
          BY <5>1
        <5>3. file[n].kept \in Nat
          BY <4>1, <5>2 DEF Piece
        <5>4. QED  BY <3>2, <5>1, <5>3
      <4>3. \A i \in 1..n : /\ file'[i] \in Piece
                            /\ file'[i].kept <= Bytes(file'[i])
        <5> SUFFICES ASSUME NEW i \in 1..n
                     PROVE  file'[i] \in Piece /\ file'[i].kept <= Bytes(file'[i])
          OBVIOUS
        <5>1. CASE i = n
          <6>1. file'[i] = [file[n] EXCEPT !.kept = kept]
            BY <3>2, <5>1 DEF FirstPieces
          <6>2. file'[i] \in Piece /\ Bytes(file'[i]) = Bytes(file[n])
            BY <4>1, <4>2, <5>1, <6>1 DEF Piece, Bytes
          <6>3. Bytes(file[n]) \in Nat /\ file[n].kept \in Nat
            BY <4>1, <4>2, <5>1, BlockAssumption DEF Piece, Bytes
          <6>4. QED  BY <4>1, <4>2, <5>1, <6>1, <6>2, <6>3 DEF Piece
        <5>2. CASE i # n
          <6>1. file'[i] = file[i]
            BY <3>2, <5>2 DEF FirstPieces
          <6>2. QED  BY <4>1, <6>1
        <5>3. QED  BY <5>1, <5>2
      <4>4. file' \in Seq(Piece) /\ Len(file') = n /\ DOMAIN file' = 1..n
        <5>1. file' \in [1..n -> Piece]
          BY <3>2, <4>3 DEF FirstPieces
        <5>2. QED  BY <4>2, <5>1, SeqDef
      <4>5. FileSize' = file[n].at + kept
        <5>1. file'[n] = [file[n] EXCEPT !.kept = kept]
          BY <3>2, <4>2 DEF FirstPieces
        <5>2. QED  BY <4>1, <4>2, <4>4, <5>1 DEF FileSize, Piece
      <4>6. file[n].at \in Nat /\ synced' = FileSize'
        BY <3>2, <4>1, <4>2, <4>5 DEF Piece
      <4>7. QED  BY <4>2, <4>3, <4>4, <4>5, <4>6
    <3>3. QED  BY <1>5, <3>1, <3>2 DEF Crash
  <2>2. /\ open' = FALSE /\ adding' = NotAdding /\ crashes' = crashes + 1
        /\ UNCHANGED <<blockOffset, added, acked, faults>>
    BY <1>5 DEF Crash
  <2>3. StartOffset' + HeaderSize <= BlockSize
    BY <1>0, <2>2, RoomForHeader DEF TypeOK
  <2>4. TypeOK'
    <3>1. open' \in BOOLEAN /\ blockOffset' \in 0..BlockSize /\ added' \in 0..MaxRecords
      BY <1>0, <2>2 DEF TypeOK
    <3>2. acked' \subseteq 1..added' /\ faults' \in Nat /\ crashes' \in Nat
      BY <1>0, <2>2 DEF TypeOK
    <3>3. QED  BY <2>1, <2>2, <2>3, <3>1, <3>2 DEF TypeOK
  <2>5. WriterAligned'
    BY <2>2 DEF WriterAligned
  <2>6. QED  BY <2>4, <2>5 DEF IInv
<1>6. CASE Reopen
  <2>1. FileSize' = FileSize
    BY <1>6 DEF Reopen, FileSize
  <2>2. /\ blockOffset' = FileSize % BlockSize /\ open' = TRUE
        /\ UNCHANGED <<file, synced, adding, added, acked, faults, crashes>>
    BY <1>6 DEF Reopen, InitialOffset
  <2>3. /\ blockOffset' \in 0..BlockSize
        /\ FileSize = ((FileSize \div BlockSize) * BlockSize) + (FileSize % BlockSize)
        /\ FileSize \div BlockSize \in Nat
    BY <1>0, <2>2, BlockAssumption
  <2>4. StartOffset' + HeaderSize <= BlockSize
    BY <2>3, RoomForHeader
  <2>5. TypeOK'
    BY <1>0, <2>1, <2>2, <2>3, <2>4 DEF TypeOK, Bytes
  <2>6. WriterAligned'
    <3>1. FileSize \div BlockSize \in 0..FileSize
      BY <1>0, <2>2, <2>3, Quotient
    <3>2. QED  BY <2>1, <2>2, <2>3, <3>1 DEF WriterAligned
  <2>7. QED  BY <2>5, <2>6 DEF IInv
<1>7. CASE UNCHANGED vars
  <2>1. FileSize' = FileSize /\ StartOffset' = StartOffset
    BY <1>7 DEF vars, FileSize, StartOffset
  <2>2. QED  BY <1>0, <1>7, <2>1 DEF vars, IInv, TypeOK, WriterAligned, Bytes
<1>8. QED  BY <1>1, <1>2, <1>3, <1>4, <1>5, <1>6, <1>7 DEF Next

LEMMA Invariant == Spec => []IInv
  BY InitIInv, Inductive, PTL DEF Spec

\* AddRecord never runs out of its block and never leaves less than a header
\* of it, whatever the sizes are and whatever fails or crashes.
THEOREM TypeCorrect == Spec => []TypeOK
<1>1. IInv => TypeOK
  BY DEF IInv
<1>2. QED  BY <1>1, Invariant, PTL

\* Until an append fails, block_offset_ is where the reader will find the end
\* of the file in its block, in a new file and in one that is reused.
THEOREM Alignment == Spec => []WriterAligned
<1>1. IInv => WriterAligned
  BY DEF IInv
<1>2. QED  BY <1>1, Invariant, PTL
(***************************************************************************)
(* Natural numbers, without the induction theorems.                        *)
(***************************************************************************)
LEMMA LeastNumber ==
  ASSUME NEW T \in SUBSET Nat, T # {}
  PROVE  \E m \in T : \A k \in T : m <= k
<1> DEFINE R == {p \in Nat \X Nat : p[1] < p[2]}
<1>1. IsWellFoundedOn(R, Nat)
  BY NatLessThanWellFounded DEF OpToRel
<1>2. \A i, j \in Nat : i < j => <<i, j>> \in R
  OBVIOUS
<1> HIDE DEF R
<1>3. PICK m \in T : \A k \in T : ~(<<k, m>> \in R)
  BY <1>1, WFMin
<1>4. \A k \in T : m <= k
  <2> SUFFICES ASSUME NEW k \in T PROVE ~(k < m)
    OBVIOUS
  <2>1. k \in Nat /\ m \in Nat /\ ~(<<k, m>> \in R)
    BY <1>3
  <2>2. QED  BY <1>2, <2>1
<1>5. QED  BY <1>4

\* What holds of a number if it holds of the greater ones up to n, holds of all.
LEMMA Downwards ==
  ASSUME NEW n \in Nat, NEW T,
         \A o \in 0..n : (\A p \in 0..n : o < p => p \in T) => o \in T
  PROVE  \A o \in 0..n : o \in T
<1> SUFFICES ASSUME NEW x \in 0..n, x \notin T PROVE FALSE
  OBVIOUS
<1> DEFINE S == {d \in 0..n : n - d \notin T}
<1>1. S \in SUBSET Nat /\ n - x \in S
  OBVIOUS
<1>2. PICK d \in S : \A k \in S : d <= k
  BY <1>1, LeastNumber
<1>3. n - d \in 0..n /\ n - d \notin T
  BY <1>2
<1>4. \A p \in 0..n : n - d < p => p \in T
  <2> SUFFICES ASSUME NEW p \in 0..n, n - d < p, p \notin T PROVE FALSE
    OBVIOUS
  <2>1. n - p \in S /\ n - p < d
    OBVIOUS
  <2>2. QED  BY <1>2, <2>1
<1>5. QED  BY <1>3, <1>4

LEMMA Upwards ==
  ASSUME NEW T, \A n \in Nat : (\A k \in Nat : k < n => k \in T) => n \in T
  PROVE  \A n \in Nat : n \in T
<1> SUFFICES ASSUME NEW x \in Nat, x \notin T PROVE FALSE
  OBVIOUS
<1> DEFINE S == {n \in Nat : n \notin T}
<1>1. S \in SUBSET Nat /\ S # {}
  OBVIOUS
<1>2. PICK m \in S : \A k \in S : m <= k
  BY <1>1, LeastNumber
<1>3. \A k \in Nat : k < m => k \in T
  BY <1>2
<1>4. QED  BY <1>2, <1>3

(***************************************************************************)
(* Blocks.                                                                 *)
(***************************************************************************)
BlockEnd(o) == (o \div BlockSize + 1) * BlockSize

LEMMA Times ==
  ASSUME NEW x \in Nat, NEW y \in Nat, x <= y
  PROVE  x * BlockSize <= y * BlockSize /\ x * BlockSize \in Nat /\ y * BlockSize \in Nat
<1>1. PICK d \in Nat : y = x + d
  <2>1. y - x \in Nat /\ y = x + (y - x)
    OBVIOUS
  <2>2. QED  BY <2>1
<1>2. y * BlockSize = (x * BlockSize) + (d * BlockSize)
  BY <1>1, BlockAssumption
<1>3. x * BlockSize \in Nat /\ d * BlockSize \in Nat
  BY BlockAssumption
<1>4. QED  BY <1>2, <1>3

LEMMA BlockEndIs ==
  ASSUME NEW o \in Nat
  PROVE  BlockEnd(o) \in Nat /\ o < BlockEnd(o) /\ BlockEnd(o) <= o + BlockSize
<1> DEFINE q == o \div BlockSize
           r == o % BlockSize
<1>1. q \in Nat /\ r \in Nat /\ r < BlockSize /\ o = (q * BlockSize) + r
  BY BlockAssumption
<1>2. BlockEnd(o) = (q * BlockSize) + BlockSize
  BY <1>1, BlockAssumption DEF BlockEnd
<1>3. q * BlockSize \in Nat
  BY <1>1, BlockAssumption
<1>4. QED  BY <1>1, <1>2, <1>3, BlockAssumption

LEMMA BlockOf ==
  ASSUME NEW b \in Nat, NEW s \in Nat, s < BlockSize
  PROVE  BlockEnd((b * BlockSize) + s) = (b * BlockSize) + BlockSize
<1> DEFINE o == (b * BlockSize) + s
           q == o \div BlockSize
           r == o % BlockSize
<1>1. b * BlockSize \in Nat /\ o \in Nat
  BY BlockAssumption
<1>2. q \in Nat /\ r \in Nat /\ r < BlockSize /\ o = (q * BlockSize) + r
  BY <1>1, BlockAssumption
<1>3. q * BlockSize \in Nat
  BY <1>2, BlockAssumption
<1> HIDE DEF q, r
<1>4. ~(q < b)
  <2> SUFFICES ASSUME q + 1 <= b PROVE FALSE
    BY <1>2
  <2>1. (q + 1) * BlockSize <= b * BlockSize
    BY <1>2, Times
  <2>2. (q + 1) * BlockSize = (q * BlockSize) + BlockSize
    BY <1>2, BlockAssumption
  <2>3. QED  BY <1>1, <1>2, <1>3, <2>1, <2>2, BlockAssumption
<1>5. ~(b < q)
  <2> SUFFICES ASSUME b + 1 <= q PROVE FALSE
    BY <1>2
  <2>1. (b + 1) * BlockSize <= q * BlockSize
    BY <1>2, Times
  <2>2. (b + 1) * BlockSize = (b * BlockSize) + BlockSize
    BY BlockAssumption
  <2>3. QED  BY <1>1, <1>2, <1>3, <2>1, <2>2, BlockAssumption
<1>6. q = b
  BY <1>2, <1>4, <1>5
<1>7. BlockEnd(o) = (b + 1) * BlockSize
  BY <1>6 DEF BlockEnd, q
<1>8. QED  BY <1>7, BlockAssumption

(***************************************************************************)
(* The reader of a file f, as a function of the offset.                    *)
(***************************************************************************)
SizeOf(f) == IF f = <<>> THEN 0 ELSE f[Len(f)].at + f[Len(f)].kept
HeadersAt(f, o) == {i \in DOMAIN f : f[i].at + f[i].pad = o}
Limit(f, o) == IF BlockEnd(o) < SizeOf(f) THEN BlockEnd(o) ELSE SizeOf(f)
Fits(f, o, i) == o + HeaderSize + f[i].len <= Limit(f, o)
Good(f, o) == {i \in HeadersAt(f, o) : Whole(f[i]) /\ Fits(f, o, i)}
Eof(f, o) == Limit(f, o) < BlockEnd(o)
Dying(f, o) ==
  Eof(f, o) /\ \E i \in HeadersAt(f, o) : f[i].kept >= f[i].pad + HeaderSize /\ ~Fits(f, o, i)

Chosen(f, o) == CHOOSE i \in Good(f, o) : TRUE
Meets(f, read, o) ==
  IF Limit(f, o) - o < HeaderSize
  THEN IF Eof(f, o) THEN <<>> ELSE read[BlockEnd(o)]
  ELSE IF Good(f, o) # {}
  THEN <<f[Chosen(f, o)]>> \o read[o + HeaderSize + f[Chosen(f, o)].len]
  ELSE IF Dying(f, o) THEN <<>>
  ELSE <<Bad>> \o (IF Eof(f, o) THEN <<>> ELSE read[BlockEnd(o)])

Offsets(f) == 0..(SizeOf(f) + BlockSize)
Reader(f) == CHOOSE read : read = [o \in Offsets(f) |-> Meets(f, read, o)]

LEMMA PhysicalIs == Physical = Reader(file)[0]
  BY Zenon DEF Physical, Reader, Offsets, Meets, Chosen, Dying, Eof, Good, Fits, Limit, HeadersAt, SizeOf,
    BlockEnd, FileSize, HeaderAt, HeaderKept
HeaderOf(p) == p.at + p.pad
EndOf(p) == p.at + p.kept

LEMMA PieceIs ==
  ASSUME NEW p \in Piece
  PROVE  /\ p.at \in Nat /\ p.pad \in Nat /\ p.len \in Nat /\ p.kept \in Nat /\ p.kept > 0
         /\ p.rec \in Nat /\ p.part \in Nat /\ p.type \in {"full", "first", "middle", "last"}
         /\ HeaderOf(p) \in Nat /\ EndOf(p) \in Nat /\ p.at <= HeaderOf(p) /\ p.at < EndOf(p)
         /\ Bytes(p) \in Nat
         /\ HeaderOf(p) + HeaderSize + p.len = p.at + Bytes(p)
         /\ Whole(p) => /\ EndOf(p) = HeaderOf(p) + HeaderSize + p.len
                        /\ HeaderOf(p) + HeaderSize <= EndOf(p)
  BY BlockAssumption DEF Piece, HeaderOf, EndOf, Bytes, Whole

LEMMA SizeOfType ==
  ASSUME NEW f \in Seq(Piece)
  PROVE  /\ SizeOf(f) \in Nat
         /\ \A i \in DOMAIN f : f[i] \in Piece /\ i \in Nat /\ i >= 1 /\ i <= Len(f)
<1>1. \A i \in DOMAIN f : f[i] \in Piece /\ i \in Nat /\ i >= 1 /\ i <= Len(f)
  OBVIOUS
<1>2. CASE f = <<>>
  BY <1>1, <1>2 DEF SizeOf
<1>3. CASE f # <<>>
  <2>1. f[Len(f)] \in Piece
    BY <1>3
  <2>2. QED  BY <1>1, <1>3, <2>1 DEF SizeOf, Piece
<1>4. QED  BY <1>2, <1>3

\* Where the reader goes on is behind where it was, and in the file.
LEMMA GoesOn ==
  ASSUME NEW f \in Seq(Piece), NEW o \in Offsets(f)
  PROVE  /\ o \in Nat /\ Limit(f, o) \in Nat /\ Limit(f, o) <= SizeOf(f)
         /\ BlockEnd(o) \in Nat /\ o < BlockEnd(o)
         /\ ~Eof(f, o) => /\ Limit(f, o) = BlockEnd(o) /\ BlockEnd(o) <= SizeOf(f)
                          /\ BlockEnd(o) \in Offsets(f)
         /\ Eof(f, o) => Limit(f, o) = SizeOf(f) /\ SizeOf(f) < BlockEnd(o)
         /\ \A i \in Good(f, o) :
              /\ i \in DOMAIN f /\ f[i] \in Piece /\ HeaderOf(f[i]) = o /\ Whole(f[i])
              /\ o + HeaderSize + f[i].len = EndOf(f[i])
              /\ EndOf(f[i]) \in Offsets(f) /\ EndOf(f[i]) \in Nat
              /\ EndOf(f[i]) <= Limit(f, o) /\ o + HeaderSize <= EndOf(f[i]) /\ o < EndOf(f[i])
<1>1. SizeOf(f) \in Nat /\ o \in Nat
  BY SizeOfType, BlockAssumption DEF Offsets
<1>2. BlockEnd(o) \in Nat /\ o < BlockEnd(o)
  BY <1>1, BlockEndIs
<1>3. Limit(f, o) \in Nat /\ Limit(f, o) <= SizeOf(f)
  BY <1>1, <1>2 DEF Limit
<1>4. ~Eof(f, o) => /\ Limit(f, o) = BlockEnd(o) /\ BlockEnd(o) <= SizeOf(f)
                    /\ BlockEnd(o) \in Offsets(f)
  BY <1>1, <1>2, BlockAssumption DEF Limit, Eof, Offsets
<1>5. Eof(f, o) => Limit(f, o) = SizeOf(f) /\ SizeOf(f) < BlockEnd(o)
  BY <1>1, <1>2 DEF Limit, Eof
<1>6. ASSUME NEW i \in Good(f, o)
      PROVE  /\ i \in DOMAIN f /\ f[i] \in Piece /\ HeaderOf(f[i]) = o /\ Whole(f[i])
             /\ o + HeaderSize + f[i].len = EndOf(f[i])
             /\ EndOf(f[i]) \in Offsets(f) /\ EndOf(f[i]) \in Nat
             /\ EndOf(f[i]) <= Limit(f, o) /\ o + HeaderSize <= EndOf(f[i]) /\ o < EndOf(f[i])
  <2>1. /\ i \in DOMAIN f /\ HeaderOf(f[i]) = o /\ Whole(f[i])
        /\ o + HeaderSize + f[i].len <= Limit(f, o)
    BY DEF Good, HeadersAt, Fits, HeaderOf
  <2>2. f[i] \in Piece
    BY <2>1, SizeOfType
  <2>3. /\ EndOf(f[i]) = HeaderOf(f[i]) + HeaderSize + f[i].len
        /\ EndOf(f[i]) \in Nat /\ HeaderOf(f[i]) + HeaderSize <= EndOf(f[i])
    BY <2>1, <2>2, PieceIs
  <2>4. o + HeaderSize + f[i].len = EndOf(f[i]) /\ o + HeaderSize <= EndOf(f[i])
    BY <2>1, <2>3
  <2>5. EndOf(f[i]) <= Limit(f, o) /\ o < EndOf(f[i])
    BY <1>1, <2>1, <2>3, <2>4, BlockAssumption
  <2>6. EndOf(f[i]) \in Offsets(f)
    BY <1>1, <1>3, <2>3, <2>5, BlockAssumption DEF Offsets
  <2>7. QED  BY <2>1, <2>2, <2>3, <2>4, <2>5, <2>6
<1>7. QED  BY <1>1, <1>2, <1>3, <1>4, <1>5, <1>6

LEMMA ChosenIs ==
  ASSUME NEW f, NEW o, Good(f, o) # {}
  PROVE  Chosen(f, o) \in Good(f, o)
  BY DEF Chosen

LEMMA MeetsLater ==
  ASSUME NEW f \in Seq(Piece), NEW o \in Offsets(f), NEW r1, NEW r2,
         \A p \in Offsets(f) : o < p => r1[p] = r2[p]
  PROVE  Meets(f, r1, o) = Meets(f, r2, o)
<1>1. ~Eof(f, o) => r1[BlockEnd(o)] = r2[BlockEnd(o)]
  BY GoesOn
<1>2. Good(f, o) # {} =>
        r1[o + HeaderSize + f[Chosen(f, o)].len] = r2[o + HeaderSize + f[Chosen(f, o)].len]
  BY GoesOn, ChosenIs
<1>3. QED  BY <1>1, <1>2, Zenon DEF Meets

\* The recursion of the reader is well-founded: there is such a function.
LEMMA ReaderIs ==
  ASSUME NEW f \in Seq(Piece)
  PROVE  \A o \in Offsets(f) : Reader(f)[o] = Meets(f, Reader(f), o)
<1> DEFINE top == SizeOf(f) + BlockSize
           T == {n \in 0..top : \E r : \A o \in n..top : r[o] = Meets(f, r, o)}
<1>1. top \in Nat /\ Offsets(f) = 0..top
  BY SizeOfType, BlockAssumption DEF Offsets
<1>2. ASSUME NEW n \in 0..top, \A p \in 0..top : n < p => p \in T
      PROVE  n \in T
  <2>1. PICK r : \A o \in (n + 1)..top : r[o] = Meets(f, r, o)
    <3>1. CASE n = top
      BY <1>1, <3>1
    <3>2. CASE n # top
      <4>1. n + 1 \in 0..top /\ n < n + 1
        BY <1>1, <3>2
      <4>2. QED  BY <1>2, <4>1
    <3>3. QED  BY <3>1, <3>2
  <2> DEFINE g == [o \in n..top |-> IF o = n THEN Meets(f, r, n) ELSE r[o]]
  <2>2. \A o \in n..top : o \in Offsets(f) /\ (o # n => o \in (n + 1)..top)
    BY <1>1
  <2>3. \A p \in Offsets(f) : n < p => p \in n..top /\ p # n
    BY <1>1
  <2>4. \A p \in Offsets(f) : n < p => g[p] = r[p]
    BY <2>3
  <2>7. \A o \in n..top : g[o] = IF o = n THEN Meets(f, r, n) ELSE r[o]
    OBVIOUS
  <2> HIDE DEF g, top
  <2>5. ASSUME NEW o \in n..top PROVE g[o] = Meets(f, g, o)
    <3>1. \A p \in Offsets(f) : o < p => n < p
      BY <1>1 DEF top
    <3>2. Meets(f, g, o) = Meets(f, r, o)
      BY <2>2, <2>4, <3>1, MeetsLater
    <3>3. g[o] = Meets(f, r, o)
      BY <2>1, <2>2, <2>7
    <3>4. QED  BY <3>2, <3>3
  <2>6. \E r1 : \A o \in n..top : r1[o] = Meets(f, r1, o)
    BY <2>5
  <2>8. QED  BY <2>6
<1>3. 0 \in T
  <2> HIDE DEF T, top
  <2>1. \A o \in 0..top : o \in T
    BY <1>1, <1>2, Downwards
  <2>2. QED  BY <1>1, <2>1
<1>4. PICK r : \A o \in Offsets(f) : r[o] = Meets(f, r, o)
  BY <1>1, <1>3
<1> DEFINE g == [o \in Offsets(f) |-> r[o]]
<1>5. \A o \in Offsets(f) : Meets(f, g, o) = Meets(f, r, o)
  BY MeetsLater
<1>6. g = [o \in Offsets(f) |-> Meets(f, g, o)]
  BY <1>4, <1>5
<1>7. Reader(f) = [o \in Offsets(f) |-> Meets(f, Reader(f), o)]
  <2> HIDE DEF g
  <2>1. \E read : read = [o \in Offsets(f) |-> Meets(f, read, o)]
    BY <1>6
  <2>2. QED  BY <2>1, Zenon DEF Reader
<1>8. QED  BY <1>7
LEMMA BlockEndTwice ==
  ASSUME NEW o \in Nat
  PROVE  BlockEnd(BlockEnd(o)) = BlockEnd(o) + BlockSize
<1> DEFINE b == o \div BlockSize + 1
<1>1. b \in Nat
  BY BlockAssumption
<1>2. BlockEnd(o) = b * BlockSize /\ b * BlockSize \in Nat
  BY <1>1, BlockAssumption DEF BlockEnd
<1> HIDE DEF b
<1>3. BlockEnd((b * BlockSize) + 0) = (b * BlockSize) + BlockSize
  BY <1>1, BlockAssumption, BlockOf
<1>4. (b * BlockSize) + 0 = b * BlockSize
  BY <1>2
<1>5. QED  BY <1>2, <1>3, <1>4

(***************************************************************************)
(* The pieces of a file.                                                   *)
(***************************************************************************)
PieceOk(p) ==
  /\ p.kept <= Bytes(p)
  /\ p.type \in {"first", "full"} <=> p.part = 1

\* Fragments of a record are followed by those with greater numbers, unless the
\* record is over.
Sorted(p, q) ==
  \/ p.rec < q.rec
  \/ p.rec = q.rec /\ p.part < q.part /\ p.type \in {"first", "middle"}

\* Only a fragment that is there as a whole is followed by the next of the record.
Adjacent(p, q) ==
  q.part > 1 => p.rec = q.rec /\ q.part = p.part + 1 /\ p.type \in {"first", "middle"}

FileOk(f) ==
  /\ f \in Seq(Piece) /\ \A i \in DOMAIN f : PieceOk(f[i])
  /\ f # <<>> => f[1].at = 0 /\ f[1].part = 1
  /\ \A i, k \in DOMAIN f : i < k => EndOf(f[i]) <= f[k].at /\ Sorted(f[i], f[k])
  /\ \A i \in DOMAIN f : i + 1 \in DOMAIN f =>
       /\ f[i + 1].at = EndOf(f[i]) /\ Adjacent(f[i], f[i + 1])
       /\ f[i + 1].part > 1 => Whole(f[i])

LEMMA FileIs ==
  ASSUME NEW f, FileOk(f), NEW i \in DOMAIN f
  PROVE  /\ f \in Seq(Piece) /\ f[i] \in Piece /\ PieceOk(f[i]) /\ f # <<>>
         /\ i \in Nat /\ i >= 1 /\ i <= Len(f) /\ Len(f) \in Nat /\ Len(f) \in DOMAIN f
         /\ SizeOf(f) = EndOf(f[Len(f)]) /\ SizeOf(f) \in Nat
         /\ EndOf(f[i]) <= SizeOf(f) /\ f[i].at < SizeOf(f)
<1>1. f \in Seq(Piece) /\ PieceOk(f[i])
  BY DEF FileOk
<1>2. /\ i \in Nat /\ i >= 1 /\ i <= Len(f) /\ Len(f) \in Nat /\ Len(f) \in DOMAIN f
      /\ f # <<>> /\ f[i] \in Piece /\ f[Len(f)] \in Piece
  BY <1>1
<1>3. SizeOf(f) = EndOf(f[Len(f)])
  BY <1>2 DEF SizeOf, EndOf
<1>4. /\ EndOf(f[i]) \in Nat /\ f[i].at \in Nat /\ f[i].at < EndOf(f[i])
      /\ EndOf(f[Len(f)]) \in Nat /\ f[Len(f)].at \in Nat /\ f[Len(f)].at < EndOf(f[Len(f)])
  BY <1>2, PieceIs
<1>5. EndOf(f[i]) <= SizeOf(f)
  <2>1. CASE i = Len(f)
    BY <1>3, <1>4, <2>1
  <2>2. CASE i < Len(f)
    <3>1. EndOf(f[i]) <= f[Len(f)].at
      BY <1>2, <2>2 DEF FileOk
    <3>2. QED  BY <1>3, <1>4, <3>1
  <2>3. QED  BY <1>2, <2>1, <2>2
<1>6. f[i].at < SizeOf(f)
  BY <1>3, <1>4, <1>5
<1>7. QED  BY <1>1, <1>2, <1>3, <1>4, <1>5, <1>6

\* Of two pieces the one whose header comes first is the first.
LEMMA PieceOrder ==
  ASSUME NEW f, FileOk(f), NEW i \in DOMAIN f, NEW k \in DOMAIN f,
         Whole(f[i]), EndOf(f[i]) <= HeaderOf(f[k])
  PROVE  i < k \/ (k < i /\ ~Whole(f[k]))
<1>1. i \in Nat /\ k \in Nat /\ f[i] \in Piece /\ f[k] \in Piece
  BY FileIs
<1>2. /\ HeaderOf(f[i]) \in Nat /\ HeaderOf(f[i]) + HeaderSize <= EndOf(f[i])
      /\ EndOf(f[i]) \in Nat /\ HeaderOf(f[k]) \in Nat /\ f[i].at \in Nat
      /\ f[i].at <= HeaderOf(f[i])
      /\ Whole(f[k]) => HeaderOf(f[k]) + HeaderSize <= EndOf(f[k]) /\ EndOf(f[k]) \in Nat
  BY <1>1, PieceIs
<1>3. i # k
  BY <1>2, BlockAssumption
<1>4. CASE k < i /\ Whole(f[k])
  <2>1. EndOf(f[k]) <= f[i].at
    BY <1>4 DEF FileOk
  <2>2. QED  BY <1>2, <1>4, <2>1, BlockAssumption
<1>5. QED  BY <1>1, <1>3, <1>4

(***************************************************************************)
(* What the reader meets from an offset on: whole pieces, in order; and    *)
(* between two that follow each other there is none.                       *)
(***************************************************************************)
Readable(f, o, x) ==
  \E i \in DOMAIN f : x = f[i] /\ Whole(f[i]) /\ o <= HeaderOf(f[i])
Near(f, o, x) ==
  \E i \in DOMAIN f : /\ x = f[i] /\ Whole(f[i])
                      /\ \/ HeaderOf(f[i]) = o
                         \/ HeaderOf(f[i]) = BlockEnd(o) /\ BlockEnd(o) < o + HeaderSize

Intact(f, o, met) ==
  /\ met \in Seq(Piece \cup {Bad})
  /\ \A j \in DOMAIN met : met[j] # Bad => Readable(f, o, met[j])
  /\ \A j, k \in DOMAIN met : j < k /\ met[j] # Bad /\ met[k] # Bad => Sorted(met[j], met[k])
  /\ \A j \in DOMAIN met : j + 1 \in DOMAIN met /\ met[j] # Bad /\ met[j + 1] # Bad =>
       Adjacent(met[j], met[j + 1])
  /\ met # <<>> /\ met[1] # Bad => Near(f, o, met[1])

LEMMA Prepend ==
  ASSUME NEW S, NEW x \in S, NEW s \in Seq(S)
  PROVE  /\ <<x>> \o s \in Seq(S) /\ <<x>> \o s # <<>>
         /\ Len(<<x>> \o s) = Len(s) + 1 /\ (<<x>> \o s)[1] = x
         /\ \A j \in DOMAIN (<<x>> \o s) :
              j = 1 \/ (j - 1 \in DOMAIN s /\ (<<x>> \o s)[j] = s[j - 1] /\ j > 1)
         /\ \A j \in DOMAIN s :
              j + 1 \in DOMAIN (<<x>> \o s) /\ (<<x>> \o s)[j + 1] = s[j]
  OBVIOUS
LEMMA BadIs == /\ Bad.type = "bad" /\ Bad.rec = 0 /\ Bad.part = 0 /\ Bad.len = 0
               /\ \A p \in Piece : p # Bad /\ p.rec # 0
<1>1. ASSUME NEW p \in Piece PROVE p # Bad /\ p.rec # 0
  BY DEF Piece, Bad
<1>2. QED  BY <1>1 DEF Bad

LEMMA ReadableLater ==
  ASSUME NEW f, FileOk(f), NEW o \in Nat, NEW p \in Nat, o <= p, NEW x, Readable(f, p, x)
  PROVE  Readable(f, o, x)
<1>1. PICK i \in DOMAIN f : x = f[i] /\ Whole(f[i]) /\ p <= HeaderOf(f[i])
  BY DEF Readable
<1>2. HeaderOf(f[i]) \in Nat
  BY FileIs, PieceIs
<1>3. QED  BY <1>1, <1>2 DEF Readable

LEMMA IntactNone ==
  ASSUME NEW f, NEW o
  PROVE  Intact(f, o, <<>>)
  BY DEF Intact

LEMMA IntactBad ==
  ASSUME NEW f, FileOk(f), NEW o \in Nat, NEW p \in Nat, o <= p, NEW m, Intact(f, p, m)
  PROVE  Intact(f, o, <<Bad>> \o m)
<1> DEFINE s == <<Bad>> \o m
           S == Piece \cup {Bad}
<1>1. m \in Seq(S) /\ Bad \in S
  BY DEF Intact
<1>2. /\ s \in Seq(S) /\ s # <<>> /\ s[1] = Bad
      /\ \A j \in DOMAIN s : j = 1 \/ (j - 1 \in DOMAIN m /\ s[j] = m[j - 1] /\ j > 1)
  BY <1>1, Prepend
<1>3. \A j \in DOMAIN s : j \in Nat
  BY <1>2
<1> HIDE DEF s, S
<1>4. \A j \in DOMAIN s : s[j] # Bad => Readable(f, o, s[j])
  <2> SUFFICES ASSUME NEW j \in DOMAIN s, s[j] # Bad PROVE Readable(f, o, s[j])
    OBVIOUS
  <2>1. Readable(f, p, s[j])
    BY <1>2 DEF Intact
  <2>2. QED  BY <2>1, ReadableLater
<1>5. ASSUME NEW j \in DOMAIN s, NEW k \in DOMAIN s, j < k, s[j] # Bad, s[k] # Bad
      PROVE  Sorted(s[j], s[k])
  <2>1. j - 1 < k - 1 /\ j - 1 \in DOMAIN m /\ k - 1 \in DOMAIN m
    BY <1>2, <1>3, <1>5
  <2>2. s[j] = m[j - 1] /\ s[k] = m[k - 1]
    BY <1>2, <1>5
  <2>3. QED  BY <1>5, <2>1, <2>2 DEF Intact
<1>6. ASSUME NEW j \in DOMAIN s, j + 1 \in DOMAIN s, s[j] # Bad, s[j + 1] # Bad
      PROVE  Adjacent(s[j], s[j + 1])
  <2>1. j - 1 \in DOMAIN m /\ s[j] = m[j - 1] /\ j > 1
    BY <1>2, <1>6
  <2>2. (j + 1) - 1 = j /\ (j - 1) + 1 = j /\ j + 1 # 1
    BY <1>3, <1>6, <2>1
  <2>3. j \in DOMAIN m /\ s[j + 1] = m[j]
    BY <1>2, <1>6, <2>2
  <2>4. QED  BY <1>6, <2>1, <2>2, <2>3 DEF Intact
<1>7. QED  BY <1>2, <1>4, <1>5, <1>6 DEF Intact, S, s

\* The reader has skipped nothing that is there as a whole.
LEMMA NearFollows ==
  ASSUME NEW f, FileOk(f), NEW i \in DOMAIN f, Whole(f[i]), NEW x, Near(f, EndOf(f[i]), x)
  PROVE  Adjacent(f[i], x)
<1> DEFINE e == EndOf(f[i])
<1>1. PICK k \in DOMAIN f : x = f[k] /\ Whole(f[k]) /\ (HeaderOf(f[k]) = e \/ (HeaderOf(f[k]) = BlockEnd(e) /\ BlockEnd(e) < e + HeaderSize))
  BY DEF Near
<1>2. /\ i \in Nat /\ k \in Nat /\ f[i] \in Piece /\ f[k] \in Piece /\ f \in Seq(Piece)
      /\ i >= 1 /\ k >= 1
  BY FileIs
<1>3. /\ e \in Nat /\ HeaderOf(f[k]) \in Nat /\ f[k].at \in Nat /\ f[k].at <= HeaderOf(f[k])
      /\ f[k].part \in Nat
  BY <1>2, PieceIs
<1>4. e <= HeaderOf(f[k]) /\ HeaderOf(f[k]) < e + HeaderSize
  BY <1>1, <1>3, BlockEndIs, BlockAssumption
<1>5. i < k
  BY <1>1, <1>4, PieceOrder
<1>6. CASE k = i + 1
  BY <1>1, <1>6 DEF FileOk
<1>7. CASE i + 1 < k
  <2>1. k - 1 \in DOMAIN f /\ i < k - 1 /\ (k - 1) + 1 = k /\ k - 1 < k
    BY <1>2, <1>7
  <2>2. f[k - 1] \in Piece
    BY <2>1, FileIs
  <2>3. ASSUME Whole(f[k - 1]) PROVE FALSE
    <3>1. e <= f[k - 1].at /\ EndOf(f[k - 1]) <= f[k].at
      BY <2>1 DEF FileOk
    <3>2. /\ HeaderOf(f[k - 1]) + HeaderSize <= EndOf(f[k - 1]) /\ f[k - 1].at \in Nat
          /\ f[k - 1].at <= HeaderOf(f[k - 1]) /\ HeaderOf(f[k - 1]) \in Nat
          /\ EndOf(f[k - 1]) \in Nat
      BY <2>2, <2>3, PieceIs
    <3> HIDE DEF e
    <3>3. QED  BY <1>3, <1>4, <3>1, <3>2, BlockAssumption
  <2>4. ~(f[k].part > 1)
    <3>1. f[(k - 1) + 1].part > 1 => Whole(f[k - 1])
      BY <2>1 DEF FileOk
    <3>2. QED  BY <2>1, <2>3, <3>1
  <2>5. QED  BY <1>1, <2>4 DEF Adjacent
<1>8. QED  BY <1>2, <1>5, <1>6, <1>7

LEMMA IntactPiece ==
  ASSUME NEW f, FileOk(f), NEW i \in DOMAIN f, Whole(f[i]),
         NEW m, Intact(f, EndOf(f[i]), m)
  PROVE  Intact(f, HeaderOf(f[i]), <<f[i]>> \o m)
<1> DEFINE s == <<f[i]>> \o m
           S == Piece \cup {Bad}
           o == HeaderOf(f[i])
           p == EndOf(f[i])
<1>1. m \in Seq(S) /\ f[i] \in S /\ f[i] # Bad /\ f[i] \in Piece
  BY FileIs, BadIs DEF Intact
<1>2. /\ s \in Seq(S) /\ s # <<>> /\ s[1] = f[i]
      /\ \A j \in DOMAIN s : j = 1 \/ (j - 1 \in DOMAIN m /\ s[j] = m[j - 1] /\ j > 1)
  BY <1>1, Prepend
<1>3. \A j \in DOMAIN s : j \in Nat
  BY <1>2
<1>4. o \in Nat /\ p \in Nat /\ o <= p
  BY <1>1, PieceIs, BlockAssumption
<1> HIDE DEF s, S
<1>5. ASSUME NEW j \in DOMAIN s, s[j] # Bad PROVE Readable(f, o, s[j])
  <2>1. CASE j = 1
    BY <1>2, <1>4, <2>1 DEF Readable
  <2>2. CASE j # 1
    <3>1. Readable(f, p, s[j])
      BY <1>2, <1>5, <2>2 DEF Intact
    <3>2. QED  BY <1>4, <3>1, ReadableLater
  <2>3. QED  BY <2>1, <2>2
<1>6. ASSUME NEW j \in DOMAIN s, NEW k \in DOMAIN s, j < k, s[j] # Bad, s[k] # Bad
      PROVE  Sorted(s[j], s[k])
  <2>1. k # 1 /\ k - 1 \in DOMAIN m /\ s[k] = m[k - 1]
    BY <1>2, <1>3, <1>6
  <2>2. CASE j = 1
    <3>1. Readable(f, p, s[k])
      BY <1>6, <2>1 DEF Intact
    <3>2. PICK n \in DOMAIN f : s[k] = f[n] /\ Whole(f[n]) /\ p <= HeaderOf(f[n])
      BY <3>1 DEF Readable
    <3>3. i < n
      BY <3>2, PieceOrder
    <3>4. QED  BY <1>2, <2>2, <3>2, <3>3 DEF FileOk
  <2>3. CASE j # 1
    <3>1. j - 1 \in DOMAIN m /\ s[j] = m[j - 1] /\ j - 1 < k - 1
      BY <1>2, <1>3, <1>6, <2>3
    <3>2. QED  BY <1>6, <2>1, <3>1 DEF Intact
  <2>4. QED  BY <2>2, <2>3
<1>7. ASSUME NEW j \in DOMAIN s, j + 1 \in DOMAIN s, s[j] # Bad, s[j + 1] # Bad
      PROVE  Adjacent(s[j], s[j + 1])
  <2>1. (j + 1) - 1 = j /\ j + 1 # 1 /\ (j # 1 => (j - 1) + 1 = j)
    BY <1>2, <1>3, <1>7
  <2>2. j \in DOMAIN m /\ s[j + 1] = m[j]
    BY <1>2, <1>7, <2>1
  <2>3. CASE j = 1
    <3>1. m # <<>> /\ m[1] # Bad
      BY <1>1, <1>7, <2>2, <2>3
    <3>2. Near(f, p, m[1])
      BY <3>1 DEF Intact
    <3>3. QED  BY <1>2, <2>2, <2>3, <3>2, NearFollows
  <2>4. CASE j # 1
    <3>1. j - 1 \in DOMAIN m /\ s[j] = m[j - 1]
      BY <1>2, <1>7, <2>4
    <3>2. QED  BY <1>7, <2>1, <2>2, <2>4, <3>1 DEF Intact
  <2>5. QED  BY <2>3, <2>4
<1>8. Near(f, o, s[1])
  BY <1>2 DEF Near
<1>9. QED  BY <1>2, <1>5, <1>6, <1>7, <1>8 DEF Intact, S, s
LEMMA ReadIs ==
  ASSUME NEW f, FileOk(f), NEW o \in Offsets(f)
  PROVE  /\ Limit(f, o) - o < HeaderSize /\ Eof(f, o) => Reader(f)[o] = <<>>
         /\ Limit(f, o) - o < HeaderSize /\ ~Eof(f, o) => Reader(f)[o] = Reader(f)[BlockEnd(o)]
         /\ \A i \in Good(f, o) : Reader(f)[o] = <<f[i]>> \o Reader(f)[EndOf(f[i])]
         /\ ~(Limit(f, o) - o < HeaderSize) /\ Good(f, o) = {} =>
              Reader(f)[o] = IF Dying(f, o) THEN <<>>
                             ELSE <<Bad>> \o (IF Eof(f, o) THEN <<>> ELSE Reader(f)[BlockEnd(o)])
<1> DEFINE r == Reader(f)
<1>1. f \in Seq(Piece)
  BY DEF FileOk
<1>2. r[o] = Meets(f, r, o)
  BY <1>1, ReaderIs
<1> HIDE DEF r
<1>3. ASSUME NEW i \in Good(f, o) PROVE r[o] = <<f[i]>> \o r[EndOf(f[i])]
  <2>1. Chosen(f, o) \in Good(f, o) /\ Good(f, o) # {}
    BY ChosenIs
  <2>2. /\ o \in Nat /\ Limit(f, o) \in Nat
        /\ \A k \in Good(f, o) :
             /\ k \in DOMAIN f /\ HeaderOf(f[k]) = o /\ Whole(f[k])
             /\ o + HeaderSize + f[k].len = EndOf(f[k]) /\ EndOf(f[k]) \in Nat
             /\ EndOf(f[k]) <= Limit(f, o) /\ o + HeaderSize <= EndOf(f[k])
    BY <1>1, GoesOn
  <2>3. ~(Limit(f, o) - o < HeaderSize)
    BY <2>2, BlockAssumption
  <2>4. r[o] = <<f[Chosen(f, o)]>> \o r[o + HeaderSize + f[Chosen(f, o)].len]
    BY <1>2, <2>1, <2>3 DEF Meets
  <2>5. Chosen(f, o) = i
    <3> DEFINE k == Chosen(f, o)
    <3>1. k \in DOMAIN f /\ i \in DOMAIN f /\ HeaderOf(f[k]) = o /\ HeaderOf(f[i]) = o
      BY <2>1, <2>2
    <3>2. Whole(f[k]) /\ Whole(f[i])
      BY <2>1, <2>2
    <3>3. ASSUME NEW a \in DOMAIN f, NEW b \in DOMAIN f, HeaderOf(f[a]) = o, HeaderOf(f[b]) = o,
                 Whole(f[a]), a < b
          PROVE  FALSE
      <4>1. EndOf(f[a]) <= f[b].at
        BY <3>3 DEF FileOk
      <4>2. f[a] \in Piece /\ f[b] \in Piece
        BY FileIs
      <4>3. /\ HeaderOf(f[a]) + HeaderSize <= EndOf(f[a]) /\ EndOf(f[a]) \in Nat
            /\ f[b].at <= HeaderOf(f[b]) /\ f[b].at \in Nat
        BY <3>3, <4>2, PieceIs
      <4>4. QED  BY <2>2, <3>3, <4>1, <4>3, BlockAssumption
    <3>4. k \in Nat /\ i \in Nat
      BY <3>1, FileIs
    <3> HIDE DEF k
    <3>5. k = i
      BY <3>1, <3>2, <3>3, <3>4
    <3>6. QED  BY <3>5 DEF k
  <2>6. QED  BY <2>2, <2>4, <2>5
<1>4. Limit(f, o) - o < HeaderSize /\ Eof(f, o) => r[o] = <<>>
  BY <1>2 DEF Meets
<1>5. Limit(f, o) - o < HeaderSize /\ ~Eof(f, o) => r[o] = r[BlockEnd(o)]
  BY <1>2 DEF Meets
<1>6. ~(Limit(f, o) - o < HeaderSize) /\ Good(f, o) = {} =>
        r[o] = IF Dying(f, o) THEN <<>>
               ELSE <<Bad>> \o (IF Eof(f, o) THEN <<>> ELSE r[BlockEnd(o)])
  BY <1>2 DEF Meets
<1>7. QED  BY <1>3, <1>4, <1>5, <1>6 DEF r

\* What the reader meets, in whatever file.
LEMMA AllIntact ==
  ASSUME NEW f, FileOk(f)
  PROVE  \A o \in Offsets(f) : Intact(f, o, Reader(f)[o])
<1> DEFINE r == Reader(f)
           T == {o \in Offsets(f) : Intact(f, o, r[o])}
           top == SizeOf(f) + BlockSize
<1>1. f \in Seq(Piece) /\ top \in Nat /\ Offsets(f) = 0..top
  BY SizeOfType, BlockAssumption DEF FileOk, Offsets
<1>2. ASSUME NEW o \in 0..top, \A p \in 0..top : o < p => p \in T
      PROVE  Intact(f, o, r[o])
  <2>1. /\ o \in Nat /\ o \in Offsets(f) /\ BlockEnd(o) \in Nat /\ o < BlockEnd(o)
        /\ Limit(f, o) \in Nat
        /\ ~Eof(f, o) => /\ BlockEnd(o) \in Offsets(f) /\ Limit(f, o) = BlockEnd(o)
        /\ \A i \in Good(f, o) :
              /\ i \in DOMAIN f /\ HeaderOf(f[i]) = o /\ Whole(f[i])
              /\ EndOf(f[i]) \in Offsets(f) /\ o < EndOf(f[i])
    BY <1>1, GoesOn
  <2>2. ~Eof(f, o) => Intact(f, BlockEnd(o), r[BlockEnd(o)])
    BY <1>1, <1>2, <2>1
  <2>3. \A i \in Good(f, o) : Intact(f, EndOf(f[i]), r[EndOf(f[i])])
    BY <1>1, <1>2, <2>1
  <2> HIDE DEF T, top, r
  <2>4. CASE Limit(f, o) - o < HeaderSize /\ Eof(f, o)
    <3>1. r[o] = <<>>
      BY <2>1, <2>4, ReadIs DEF r
    <3>2. QED  BY <3>1, IntactNone
  <2>5. CASE Limit(f, o) - o < HeaderSize /\ ~Eof(f, o)
    <3> DEFINE p == BlockEnd(o)
               m == r[o]
    <3>1. m = r[p]
      BY <2>1, <2>5, ReadIs DEF r
    <3>2. Intact(f, p, m) /\ p \in Nat /\ o < p /\ p < o + HeaderSize
      BY <2>1, <2>2, <2>5, <3>1, BlockAssumption
    <3>3. BlockEnd(p) = p + BlockSize
      BY <2>1, BlockEndTwice
    <3> HIDE DEF m
    <3>4. ASSUME NEW x, Near(f, p, x) PROVE Near(f, o, x)
      <4>1. ~(BlockEnd(p) < p + HeaderSize)
        BY <3>2, <3>3, BlockAssumption
      <4>2. QED  BY <3>2, <3>4, <4>1 DEF Near
    <3>5. \A x : Readable(f, p, x) => Readable(f, o, x)
      BY <2>1, <3>2, ReadableLater
    <3>6. Intact(f, o, m)
      BY <3>2, <3>4, <3>5 DEF Intact
    <3>7. QED  BY <3>6 DEF m
  <2>6. CASE Good(f, o) # {}
    <3>1. PICK i \in Good(f, o) : TRUE
      BY <2>6
    <3>2. r[o] = <<f[i]>> \o r[EndOf(f[i])]
      BY <2>1, <3>1, ReadIs DEF r
    <3>3. Intact(f, HeaderOf(f[i]), <<f[i]>> \o r[EndOf(f[i])])
      BY <2>1, <2>3, IntactPiece
    <3>4. QED  BY <2>1, <3>2, <3>3
  <2>7. CASE ~(Limit(f, o) - o < HeaderSize) /\ Good(f, o) = {}
    <3>1. r[o] = IF Dying(f, o) THEN <<>>
                 ELSE <<Bad>> \o (IF Eof(f, o) THEN <<>> ELSE r[BlockEnd(o)])
      BY <2>1, <2>7, ReadIs DEF r
    <3>2. CASE Dying(f, o)
      BY <3>1, <3>2, IntactNone
    <3>3. CASE ~Dying(f, o) /\ Eof(f, o)
      <4>1. r[o] = <<Bad>> \o <<>>
        BY <3>1, <3>3
      <4>2. Intact(f, o, <<Bad>> \o <<>>)
        <5>1. Intact(f, o, <<>>) /\ o <= o
          BY <2>1, IntactNone
        <5>2. QED  BY <2>1, <5>1, IntactBad
      <4>3. QED  BY <4>1, <4>2
    <3>4. CASE ~Dying(f, o) /\ ~Eof(f, o)
      <4>1. r[o] = <<Bad>> \o r[BlockEnd(o)]
        BY <3>1, <3>4
      <4>2. Intact(f, o, <<Bad>> \o r[BlockEnd(o)])
        BY <2>1, <2>2, <3>4, IntactBad
      <4>3. QED  BY <4>1, <4>2
    <3>5. QED  BY <3>2, <3>3, <3>4
  <2>8. QED  BY <2>4, <2>5, <2>6, <2>7
<1>3. \A o \in 0..top : (\A p \in 0..top : o < p => p \in T) => o \in T
  BY <1>1, <1>2
<1>4. \A o \in 0..top : o \in T
  <2> HIDE DEF T, top
  <2>1. QED  BY <1>1, <1>3, Downwards
<1>5. QED  BY <1>1, <1>4
(***************************************************************************)
(* The records that ReadRecord makes of what it meets.                     *)
(***************************************************************************)
Types == {"full", "first", "middle", "last"}

LEMMA MetIs ==
  ASSUME NEW f, FileOk(f), NEW o, NEW met, Intact(f, o, met), NEW j \in DOMAIN met
  PROVE  /\ j \in Nat /\ j >= 1 /\ j <= Len(met) /\ Len(met) \in Nat
         /\ met[j].type \in Types <=> met[j] # Bad
         /\ met[j] # Bad => /\ met[j] \in Piece /\ met[j].part \in Nat /\ met[j].part > 0
                            /\ met[j].rec \in Nat
                            /\ met[j].type \in {"first", "full"} <=> met[j].part = 1
<1>1. met \in Seq(Piece \cup {Bad})
  BY DEF Intact
<1>2. j \in Nat /\ j >= 1 /\ j <= Len(met) /\ Len(met) \in Nat
  BY <1>1
<1>3. CASE met[j] = Bad
  BY <1>2, <1>3, BadIs DEF Types
<1>4. CASE met[j] # Bad
  <2>1. PICK i \in DOMAIN f : met[j] = f[i]
    BY <1>4 DEF Intact, Readable
  <2>2. f[i] \in Piece /\ PieceOk(f[i])
    BY FileIs
  <2>3. QED  BY <1>2, <1>4, <2>1, <2>2 DEF Piece, PieceOk, Types
<1>5. QED  BY <1>3, <1>4

\* A record that is returned has its fragments one after the other.
LEMMA ReturnedWhole ==
  ASSUME NEW f, FileOk(f), NEW o, NEW met, Intact(f, o, met), NEW r \in Returned(met)
  PROVE  /\ r[1] \in DOMAIN met /\ r[2] \in DOMAIN met /\ r[1] <= r[2]
         /\ met[r[1]] # Bad /\ met[r[1]].part = 1 /\ met[r[2]].type \in {"full", "last"}
         /\ \A j \in r[1]..r[2] : /\ j \in DOMAIN met /\ met[j] # Bad
                                  /\ met[j].rec = met[r[1]].rec /\ met[j].part = j - r[1] + 1
<1> DEFINE a == r[1]
           b == r[2]
<1>1. /\ a \in DOMAIN met /\ b \in DOMAIN met
      /\ \/ a = b /\ met[a].type = "full"
         \/ a < b /\ met[b].type = "last" /\ Begins(met, a, b)
  BY DEF Returned
<1>2. a \in Nat /\ b \in Nat /\ a <= b /\ a >= 1 /\ b <= Len(met) /\ Len(met) \in Nat
  BY <1>1, MetIs
<1>3. met \in Seq(Piece \cup {Bad})
  BY DEF Intact
<1>4. \A j \in a..b : j \in DOMAIN met
  BY <1>2, <1>3
<1> HIDE DEF a, b
<1>5. \A j \in a..b : IF j = a THEN met[j].type \in {"full", "first"}
                      ELSE met[j].type \in {"middle", "last"}
  <2>1. CASE a = b /\ met[a].type = "full"
    BY <1>2, <2>1
  <2>2. CASE a < b /\ met[b].type = "last" /\ Begins(met, a, b)
    <3> SUFFICES ASSUME NEW j \in a..b, j # a PROVE met[j].type \in {"middle", "last"}
      BY <2>2 DEF Begins
    <3>1. CASE j = b
      BY <2>2, <3>1
    <3>2. CASE j # b
      <4>1. j \in (a + 1)..(b - 1)
        BY <1>2, <3>2
      <4>2. QED  BY <2>2, <4>1 DEF Begins
    <3>3. QED  BY <3>1, <3>2
  <2>3. QED  BY <1>1, <2>1, <2>2
<1>6. \A j \in a..b : met[j] # Bad /\ met[j].part \in Nat /\ met[j].part > 0 /\ (met[j].part = 1 <=> j = a)
  <2> SUFFICES ASSUME NEW j \in a..b
               PROVE  met[j] # Bad /\ met[j].part \in Nat /\ met[j].part > 0 /\ (met[j].part = 1 <=> j = a)
    OBVIOUS
  <2>1. met[j].type \in Types
    BY <1>5 DEF Types
  <2>2. met[j] # Bad
    BY <1>4, <2>1, MetIs
  <2>3. /\ met[j].part \in Nat /\ met[j].part > 0
        /\ met[j].type \in {"first", "full"} <=> met[j].part = 1
    BY <1>4, <2>2, MetIs
  <2>4. QED  BY <1>5, <2>2, <2>3
<1> DEFINE T == {n \in Nat : a + n <= b =>
                   met[a + n].rec = met[a].rec /\ met[a + n].part = n + 1}
<1>7. ASSUME NEW n \in Nat, \A k \in Nat : k < n => k \in T
      PROVE  n \in T
  <2> SUFFICES ASSUME a + n <= b
               PROVE  met[a + n].rec = met[a].rec /\ met[a + n].part = n + 1
    OBVIOUS
  <2>1. CASE n = 0
    <3>1. a \in a..b /\ a + n = a
      BY <1>2, <2>1
    <3>2. QED  BY <1>6, <2>1, <3>1
  <2>2. CASE n # 0
    <3>1. n - 1 \in Nat /\ n - 1 < n /\ a + (n - 1) <= b /\ (a + (n - 1)) + 1 = a + n
      BY <1>2, <2>2
    <3>2. met[a + (n - 1)].rec = met[a].rec /\ met[a + (n - 1)].part = (n - 1) + 1
      BY <1>7, <3>1
    <3>3. a + (n - 1) \in a..b /\ a + n \in a..b /\ a + n # a
      BY <1>2, <2>2
    <3>4. met[a + n].part > 1 /\ met[a + n] # Bad /\ met[a + (n - 1)] # Bad
      BY <1>6, <3>3
    <3>5. Adjacent(met[a + (n - 1)], met[a + n])
      BY <1>4, <3>1, <3>3, <3>4 DEF Intact
    <3>6. QED  BY <3>1, <3>2, <3>4, <3>5 DEF Adjacent
  <2>3. QED  BY <2>1, <2>2
<1>8. \A n \in Nat : n \in T
  <2> HIDE DEF T
  <2>1. QED  BY <1>7, Upwards
<1>9. ASSUME NEW j \in a..b PROVE met[j].rec = met[a].rec /\ met[j].part = j - a + 1
  <2>1. j - a \in Nat /\ a + (j - a) = j /\ j <= b
    BY <1>2
  <2>2. QED  BY <1>8, <2>1
<1>10. met[b].type \in {"full", "last"} /\ a \in a..b
  BY <1>1, <1>2
<1>11. QED  BY <1>1, <1>2, <1>4, <1>6, <1>9, <1>10 DEF a, b

LEMMA IntactReads ==
  ASSUME FileOk(file)
  PROVE  Intact(file, 0, Physical) /\ ReadIntact
<1> DEFINE met == Physical
<1>1. 0 \in Offsets(file)
  BY SizeOfType, BlockAssumption DEF FileOk, Offsets
<1>2. Intact(file, 0, met)
  BY <1>1, AllIntact, PhysicalIs
<1> HIDE DEF met
<1>3. ASSUME NEW r \in Returned(met), NEW q \in Returned(met), r[2] < q[1]
      PROVE  met[r[2]].rec < met[q[1]].rec
  <2>1. /\ r[2] \in DOMAIN met /\ q[1] \in DOMAIN met /\ met[q[1]] # Bad /\ met[q[1]].part = 1
        /\ r[2] \in r[1]..r[2]
    BY <1>2, ReturnedWhole, MetIs
  <2>2. met[r[2]] # Bad
    BY <1>2, <2>1, ReturnedWhole
  <2>3. Sorted(met[r[2]], met[q[1]])
    BY <1>2, <1>3, <2>1, <2>2 DEF Intact
  <2>4. met[r[2]].part \in Nat /\ met[r[2]].part > 0
    BY <1>2, <2>1, <2>2, MetIs
  <2>5. QED  BY <2>1, <2>3, <2>4 DEF Sorted
<1>4. \A r \in Returned(met) :
        \A j \in r[1]..r[2] : met[j].rec = met[r[1]].rec /\ met[j].part = j - r[1] + 1
  BY <1>2, ReturnedWhole
<1>5. QED  BY <1>2, <1>3, <1>4 DEF ReadIntact, met
(***************************************************************************)
(* The pieces that the Writer leaves in its file.                          *)
(***************************************************************************)
AddingOk ==
  /\ \A i \in DOMAIN file : file[i].rec <= added
  /\ adding.part > 0 =>
       /\ adding.rec = added /\ added \notin acked
       /\ IF adding.part = 1 THEN \A i \in DOMAIN file : file[i].rec < added
          ELSE /\ file # <<>>
               /\ LET p == file[Len(file)]
                  IN  /\ Whole(p) /\ p.rec = added /\ adding.part = p.part + 1
                      /\ p.type \in {"first", "middle"}

\* The fragment is in one block, at its start if there is padding before.
Placed(p) ==
  \E b \in Nat, s \in Nat :
    /\ HeaderOf(p) = (b * BlockSize) + s /\ s + HeaderSize + p.len <= BlockSize
    /\ p.pad = 0 \/ (s = 0 /\ p.pad < HeaderSize)
PlacedInv == faults = 0 => \A i \in DOMAIN file : Placed(file[i])

Shape == FileOk(file) /\ AddingOk
ShapeInv == IInv /\ Shape /\ PlacedInv

LEMMA Appended ==
  ASSUME NEW S, NEW f \in Seq(S), NEW w \in S
  PROVE  /\ Append(f, w) \in Seq(S) /\ Append(f, w) # <<>> /\ Len(f) \in Nat
         /\ Len(Append(f, w)) = Len(f) + 1 /\ Append(f, w)[Len(f) + 1] = w
         /\ \A i \in DOMAIN f : i \in DOMAIN Append(f, w) /\ Append(f, w)[i] = f[i] /\ i <= Len(f)
         /\ \A i \in DOMAIN Append(f, w) : i \in Nat /\ i >= 1 /\ (i = Len(f) + 1 \/ i \in DOMAIN f)
<1>1. /\ Append(f, w) \in Seq(S) /\ Append(f, w) # <<>> /\ Len(f) \in Nat
      /\ Len(Append(f, w)) = Len(f) + 1 /\ Append(f, w)[Len(f) + 1] = w
  OBVIOUS
<1>2. \A i \in DOMAIN f : i \in DOMAIN Append(f, w) /\ Append(f, w)[i] = f[i] /\ i <= Len(f)
  OBVIOUS
<1>3. \A i \in DOMAIN Append(f, w) : i \in Nat /\ i >= 1 /\ (i = Len(f) + 1 \/ i \in DOMAIN f)
  OBVIOUS
<1>4. QED  BY <1>1, <1>2, <1>3

LEMMA FileAppends ==
  ASSUME NEW f, FileOk(f), NEW w \in Piece, PieceOk(w), w.at = SizeOf(f),
         f = <<>> => w.part = 1,
         \A i \in DOMAIN f : Sorted(f[i], w),
         f # <<>> => Adjacent(f[Len(f)], w) /\ (w.part > 1 => Whole(f[Len(f)]))
  PROVE  FileOk(Append(f, w))
<1> DEFINE g == Append(f, w)
<1>1. f \in Seq(Piece) /\ Len(f) \in Nat
  BY DEF FileOk
<1>2. /\ g \in Seq(Piece) /\ Len(g) = Len(f) + 1 /\ g[Len(f) + 1] = w /\ g # <<>>
      /\ \A i \in DOMAIN f : g[i] = f[i] /\ i <= Len(f)
      /\ \A i \in DOMAIN g : i \in Nat /\ i >= 1 /\ (i = Len(f) + 1 \/ i \in DOMAIN f)
  BY <1>1, Appended
<1>3. \A i \in DOMAIN f : i \in Nat /\ i >= 1 /\ i <= Len(f) /\ Len(f) \in DOMAIN f
  BY <1>1
<1> HIDE DEF g
<1>4. \A i \in DOMAIN g : PieceOk(g[i])
  BY <1>2 DEF FileOk
<1>5. g[1].at = 0 /\ g[1].part = 1
  <2>1. CASE f = <<>>
    BY <1>1, <1>2, <2>1 DEF SizeOf
  <2>2. CASE f # <<>>
    <3>1. 1 \in DOMAIN f
      BY <1>1, <2>2
    <3>2. QED  BY <1>2, <2>2, <3>1 DEF FileOk
  <2>3. QED  BY <2>1, <2>2
<1>6. ASSUME NEW i \in DOMAIN g, NEW k \in DOMAIN g, i < k
      PROVE  EndOf(g[i]) <= g[k].at /\ Sorted(g[i], g[k])
  <2>1. i \in DOMAIN f /\ g[i] = f[i]
    <3>1. i # Len(f) + 1
      BY <1>1, <1>2, <1>6
    <3>2. QED  BY <1>2, <3>1
  <2>2. CASE k \in DOMAIN f
    BY <1>2, <1>6, <2>1, <2>2 DEF FileOk
  <2>3. CASE k = Len(f) + 1
    <3>1. EndOf(f[i]) <= SizeOf(f)
      BY <2>1, FileIs
    <3>2. QED  BY <1>2, <2>1, <2>3, <3>1
  <2>4. QED  BY <1>2, <2>2, <2>3
<1>7. ASSUME NEW i \in DOMAIN g, i + 1 \in DOMAIN g
      PROVE  /\ g[i + 1].at = EndOf(g[i]) /\ Adjacent(g[i], g[i + 1])
             /\ g[i + 1].part > 1 => Whole(g[i])
  <2>1. i \in DOMAIN f /\ g[i] = f[i] /\ i \in Nat /\ i <= Len(f)
    <3>1. i # Len(f) + 1
      BY <1>1, <1>2, <1>7
    <3>2. QED  BY <1>2, <1>3, <3>1
  <2>2. CASE i + 1 \in DOMAIN f
    <3>1. g[i + 1] = f[i + 1]
      BY <1>2, <2>2
    <3>2. QED  BY <2>1, <2>2, <3>1 DEF FileOk
  <2>3. CASE i + 1 = Len(f) + 1
    <3>1. i = Len(f) /\ f # <<>>
      BY <1>1, <2>1, <2>3
    <3>2. SizeOf(f) = EndOf(f[i])
      BY <2>1, <3>1, FileIs
    <3>3. QED  BY <1>2, <2>1, <2>3, <3>1, <3>2
  <2>4. QED  BY <1>2, <1>7, <2>2, <2>3
<1>8. QED  BY <1>2, <1>4, <1>5, <1>6, <1>7 DEF FileOk, g

LEMMA FileSizeIs == FileSize = SizeOf(file)
  BY DEF FileSize, SizeOf

\* What EmitPhysicalRecord appends, as a whole or not.
LEMMA WrittenIs ==
  ASSUME TypeOK, Shape, adding.part > 0, NEW kept \in 1..Bytes(NextPiece)
  PROVE  LET w == Written(NextPiece, kept)
         IN  /\ FileOk(Append(file, w)) /\ w \in Piece /\ w.rec = added /\ w.part = adding.part
             /\ w.type \in {"full", "last"} <=> NextPiece.len = adding.left
             /\ Whole(w) <=> kept = Bytes(NextPiece)
             /\ w.at = SizeOf(file)
             /\ w.pad = Padding(blockOffset) /\ w.len = NextPiece.len
             /\ NextPiece.len <= BlockSize - StartOffset - HeaderSize
<1> DEFINE w == Written(NextPiece, kept)
<1>1. adding \in [rec : 1..added, left : Nat, part : Nat \ {0}] /\ FileOk(file) /\ AddingOk
  BY DEF TypeOK, NotAdding, Shape
<1>2. /\ w \in Piece /\ w.at = SizeOf(file) /\ w.kept = kept /\ w.pad = NextPiece.pad
      /\ w.len = NextPiece.len /\ w.rec = adding.rec /\ w.part = adding.part
      /\ w.type = NextPiece.type
  <2>1. w \in Piece
    BY NextPieceType
  <2>2. QED  BY <2>1, FileSizeIs DEF Written, NextPiece
<1>3. /\ NextPiece.type = Type(adding.part = 1, NextPiece.len = adding.left)
      /\ NextPiece.pad = Padding(blockOffset)
      /\ NextPiece.len <= BlockSize - StartOffset - HeaderSize
  <2>1. NextPiece.type = Type(adding.part = 1, NextPiece.len = adding.left)
    BY DEF NextPiece
  <2>2. /\ StartOffset \in Nat /\ StartOffset + HeaderSize <= BlockSize
    BY BlockAssumption DEF TypeOK, StartOffset
  <2>3. NextPiece.len <= BlockSize - StartOffset - HeaderSize
    BY <1>1, <2>2, BlockAssumption DEF NextPiece
  <2>4. QED  BY <2>1, <2>3 DEF NextPiece
<1>4. /\ w.type \in {"full", "last"} <=> NextPiece.len = adding.left
      /\ w.type \in {"first", "full"} <=> adding.part = 1
  BY <1>2, <1>3 DEF Type
<1>5. Bytes(w) = Bytes(NextPiece) /\ Bytes(NextPiece) \in Nat
  BY <1>2, NextPieceType DEF Bytes
<1> HIDE DEF w
<1>6. PieceOk(w) /\ (Whole(w) <=> kept = Bytes(NextPiece))
  BY <1>2, <1>4, <1>5 DEF PieceOk, Whole
<1>7. \A i \in DOMAIN file : file[i].rec \in Nat /\ file[i].part \in Nat
  BY <1>1, FileIs, PieceIs
<1>8. adding.rec = added /\ added \in Nat /\ w.rec = added /\ adding.part \in Nat
  BY <1>1, <1>2 DEF AddingOk, TypeOK
<1>9. FileOk(Append(file, w))
  <2>1. CASE adding.part = 1
    <3>1. \A i \in DOMAIN file : Sorted(file[i], w)
      BY <1>1, <1>8, <2>1 DEF AddingOk, Sorted
    <3>2. w.part = 1
      BY <1>2, <2>1
    <3>3. QED  BY <1>1, <1>2, <1>6, <3>1, <3>2, FileAppends DEF Adjacent
  <2>2. CASE adding.part # 1
    <3> DEFINE p == file[Len(file)]
    <3>1. /\ file # <<>> /\ Whole(p) /\ p.rec = added /\ adding.part = p.part + 1
          /\ p.type \in {"first", "middle"}
      BY <1>1, <2>2 DEF AddingOk
    <3>2. Adjacent(p, w)
      BY <1>2, <1>8, <3>1 DEF Adjacent
    <3>3. ASSUME NEW i \in DOMAIN file PROVE Sorted(file[i], w)
      <4>1. i \in Nat /\ i <= Len(file) /\ Len(file) \in DOMAIN file /\ Len(file) \in Nat
        BY <1>1, FileIs
      <4>2. p.part \in Nat /\ file[i].part \in Nat /\ file[i].rec \in Nat
        BY <1>7, <4>1
      <4>3. CASE i = Len(file)
        BY <1>2, <1>8, <3>1, <4>2, <4>3 DEF Sorted
      <4>4. CASE i < Len(file)
        <5>1. Sorted(file[i], p)
          BY <1>1, <4>1, <4>4 DEF FileOk
        <5> HIDE DEF p
        <5>2. QED  BY <1>2, <1>8, <3>1, <4>2, <5>1 DEF Sorted
      <4>5. QED  BY <4>1, <4>3, <4>4
    <3> HIDE DEF p
    <3>4. QED  BY <1>1, <1>2, <1>6, <3>1, <3>2, <3>3, FileAppends DEF p
  <2>3. QED  BY <2>1, <2>2
<1>10. QED  BY <1>2, <1>3, <1>4, <1>6, <1>8, <1>9 DEF w
\* What a crash leaves of the file.
LEMMA FileCut ==
  ASSUME FileOk(file), NEW n \in 1..Len(file), NEW kept \in 1..file[n].kept,
         NEW g, g = FirstPieces(n, kept)
  PROVE  /\ FileOk(g) /\ Len(g) = n /\ DOMAIN g = 1..n /\ n \in DOMAIN file
         /\ SizeOf(g) = file[n].at + kept /\ g[n].kept = kept
         /\ \A i \in 1..n : /\ i \in DOMAIN file /\ (i # n => g[i] = file[i])
                            /\ g[i].rec = file[i].rec /\ g[i].part = file[i].part
                            /\ g[i].type = file[i].type /\ g[i].at = file[i].at
                            /\ g[i].pad = file[i].pad /\ g[i].len = file[i].len
                            /\ g[i].kept <= file[i].kept /\ Bytes(g[i]) = Bytes(file[i])
<1> DEFINE h == [file[n] EXCEPT !.kept = kept]
<1>1. file \in Seq(Piece) /\ n \in Nat /\ n >= 1 /\ Len(file) \in Nat /\ n <= Len(file)
  BY DEF FileOk
<1>2. \A i \in 1..n : i \in DOMAIN file /\ file[i] \in Piece /\ PieceOk(file[i]) /\ i \in Nat
  BY <1>1 DEF FileOk
<1>3. n \in DOMAIN file /\ file[n] \in Piece /\ PieceOk(file[n])
  BY <1>1, <1>2
<1>4. kept \in Nat /\ kept > 0 /\ kept <= file[n].kept /\ file[n].kept \in Nat
  BY <1>3, PieceIs
<1>5. /\ h \in Piece /\ h.kept = kept /\ h.rec = file[n].rec /\ h.part = file[n].part
      /\ h.type = file[n].type /\ h.at = file[n].at /\ h.pad = file[n].pad /\ h.len = file[n].len
  BY <1>3, <1>4 DEF Piece
<1>6. Bytes(h) = Bytes(file[n]) /\ Bytes(h) \in Nat
  BY <1>3, <1>5, PieceIs DEF Bytes
<1> HIDE DEF h
<1>7. DOMAIN g = 1..n /\ g[n] = h /\ \A i \in 1..n : i # n => g[i] = file[i]
  BY <1>1 DEF FirstPieces, h
<1>8. \A i \in 1..n : g[i] = IF i = n THEN h ELSE file[i]
  BY <1>7
<1>9. g \in Seq(Piece) /\ Len(g) = n
  <2>1. g = [i \in 1..n |-> IF i = n THEN h ELSE file[i]]
    BY DEF FirstPieces, h
  <2>2. \A i \in 1..n : (IF i = n THEN h ELSE file[i]) \in Piece
    BY <1>2, <1>5
  <2>3. g \in [1..n -> Piece]
    BY <2>1, <2>2
  <2>4. QED  BY <1>1, <1>7, <2>3, SeqDef
<1>10. ASSUME NEW i \in 1..n
       PROVE  /\ i \in DOMAIN file /\ (i # n => g[i] = file[i])
              /\ g[i].rec = file[i].rec /\ g[i].part = file[i].part
              /\ g[i].type = file[i].type /\ g[i].at = file[i].at
              /\ g[i].pad = file[i].pad /\ g[i].len = file[i].len
              /\ g[i].kept <= file[i].kept /\ Bytes(g[i]) = Bytes(file[i])
              /\ PieceOk(g[i]) /\ EndOf(g[i]) <= EndOf(file[i]) /\ (i # n => EndOf(g[i]) = EndOf(file[i]))
  <2>1. CASE i = n
    <3>1. /\ g[i].rec = file[i].rec /\ g[i].part = file[i].part
          /\ g[i].type = file[i].type /\ g[i].at = file[i].at
          /\ g[i].pad = file[i].pad /\ g[i].len = file[i].len
          /\ g[i].kept = kept /\ Bytes(g[i]) = Bytes(file[i])
      BY <1>5, <1>6, <1>7, <2>1
    <3>2. file[i].at \in Nat /\ Bytes(file[i]) \in Nat
      BY <1>2, PieceIs
    <3>3. PieceOk(g[i])
      BY <1>3, <1>4, <2>1, <3>1, <3>2 DEF PieceOk
    <3>4. EndOf(g[i]) <= EndOf(file[i])
      BY <1>4, <2>1, <3>1, <3>2 DEF EndOf
    <3>5. QED  BY <1>2, <1>4, <2>1, <3>1, <3>3, <3>4
  <2>2. CASE i # n
    <3>1. g[i] = file[i] /\ file[i].kept \in Nat /\ EndOf(file[i]) \in Nat
      BY <1>2, <1>8, <2>2, PieceIs
    <3>2. QED  BY <1>2, <3>1
  <2>3. QED  BY <2>1, <2>2
<1>11. \A i \in DOMAIN g : i \in Nat /\ i >= 1 /\ i <= n /\ i \in 1..n
  BY <1>1, <1>7
<1>12. FileOk(g)
  <2>1. g # <<>> => g[1].at = 0 /\ g[1].part = 1
    <3>1. 1 \in 1..n /\ file # <<>>
      BY <1>1
    <3>2. QED  BY <1>10, <3>1 DEF FileOk
  <2>2. ASSUME NEW i \in DOMAIN g, NEW k \in DOMAIN g, i < k
        PROVE  EndOf(g[i]) <= g[k].at /\ Sorted(g[i], g[k])
    <3>1. i # n
      BY <1>1, <1>11, <2>2
    <3>2. EndOf(file[i]) <= file[k].at /\ Sorted(file[i], file[k]) /\ g[i] = file[i]
      BY <1>10, <1>11, <2>2, <3>1 DEF FileOk
    <3>3. g[k].at = file[k].at /\ g[k].rec = file[k].rec /\ g[k].part = file[k].part
      BY <1>10, <1>11
    <3>4. QED  BY <3>2, <3>3 DEF Sorted
  <2>3. ASSUME NEW i \in DOMAIN g, i + 1 \in DOMAIN g
        PROVE  /\ g[i + 1].at = EndOf(g[i]) /\ Adjacent(g[i], g[i + 1])
               /\ g[i + 1].part > 1 => Whole(g[i])
    <3>1. i # n /\ i + 1 \in 1..n
      BY <1>1, <1>11, <2>3
    <3>2. /\ file[i + 1].at = EndOf(file[i]) /\ Adjacent(file[i], file[i + 1])
          /\ file[i + 1].part > 1 => Whole(file[i])
          /\ g[i] = file[i]
      BY <1>10, <1>11, <2>3, <3>1 DEF FileOk
    <3>3. g[i + 1].at = file[i + 1].at /\ g[i + 1].rec = file[i + 1].rec /\ g[i + 1].part = file[i + 1].part
      BY <1>10, <3>1
    <3>4. QED  BY <3>2, <3>3 DEF Adjacent
  <2>4. \A i \in DOMAIN g : PieceOk(g[i])
    BY <1>10, <1>11
  <2>5. QED  BY <1>9, <2>1, <2>2, <2>3, <2>4 DEF FileOk
<1>13. SizeOf(g) = file[n].at + kept
  <2>1. g # <<>>
    BY <1>1, <1>7
  <2>2. QED  BY <1>5, <1>7, <1>9, <2>1 DEF SizeOf
<1>14. QED  BY <1>3, <1>5, <1>7, <1>9, <1>10, <1>12, <1>13

LEMMA InitShape == Init => Shape /\ PlacedInv
<1> SUFFICES ASSUME Init PROVE Shape /\ PlacedInv
  OBVIOUS
<1>1. file = <<>> /\ adding.part = 0
  BY DEF Init, NotAdding
<1>2. FileOk(file) /\ AddingOk /\ PlacedInv
  BY <1>1 DEF FileOk, AddingOk, PlacedInv
<1>3. QED  BY <1>2 DEF Shape

LEMMA NewFile ==
  ASSUME TypeOK, Shape, EmitPhysicalRecord \/ EmitFails
  PROVE  /\ FileOk(file') /\ UNCHANGED added
         /\ \/ file' = file /\ EmitFails
            \/ \E kept \in 1..Bytes(NextPiece) :
                 /\ file' = Append(file, Written(NextPiece, kept)) /\ adding.part > 0
                 /\ IF kept = Bytes(NextPiece) THEN EmitPhysicalRecord ELSE EmitFails
<1>1. adding.part > 0 /\ UNCHANGED added /\ FileOk(file)
  BY DEF EmitPhysicalRecord, EmitFails, Shape
<1>2. Bytes(NextPiece) \in Nat \ {0}
  BY <1>1, NextPieceType
<1>3. CASE EmitPhysicalRecord
  <2>1. file' = Append(file, Written(NextPiece, Bytes(NextPiece)))
    BY <1>3 DEF EmitPhysicalRecord
  <2>2. Bytes(NextPiece) \in 1..Bytes(NextPiece)
    BY <1>2
  <2>3. FileOk(file')
    BY <1>1, <2>1, <2>2, WrittenIs
  <2>4. QED  BY <1>1, <1>3, <2>1, <2>2, <2>3
<1>4. CASE EmitFails
  <2>1. PICK kept \in 0..(Bytes(NextPiece) - 1) :
          file' = IF kept = 0 THEN file ELSE Append(file, Written(NextPiece, kept))
    BY <1>4 DEF EmitFails
  <2>2. CASE kept = 0
    BY <1>1, <1>4, <2>1, <2>2
  <2>3. CASE kept # 0
    <3>1. kept \in 1..Bytes(NextPiece) /\ kept # Bytes(NextPiece)
      BY <1>2, <2>3
    <3>2. file' = Append(file, Written(NextPiece, kept))
      BY <2>1, <2>3
    <3>3. FileOk(file')
      BY <1>1, <3>1, <3>2, WrittenIs
    <3>4. QED  BY <1>1, <1>4, <3>1, <3>2, <3>3
  <2>4. QED  BY <2>2, <2>3
<1>5. QED  BY <1>3, <1>4
LEMMA ShapeStep ==
  ASSUME IInv, Shape, [Next]_vars
  PROVE  Shape'
<1>1. TypeOK /\ FileOk(file) /\ AddingOk /\ added \in Nat /\ acked \subseteq 1..added
  BY DEF IInv, TypeOK, Shape
<1>2. \A i \in DOMAIN file : file[i].rec \in Nat /\ file[i].rec <= added
  BY <1>1, FileIs, PieceIs DEF AddingOk
<1>3. ASSUME NEW size \in Sizes, AddRecord(size) PROVE Shape'
  <2>1. /\ file' = file /\ added' = added + 1 /\ acked' = acked
        /\ adding'.rec = added + 1 /\ adding'.part = 1
    BY <1>3 DEF AddRecord
  <2>2. added' \notin acked /\ \A i \in DOMAIN file : file[i].rec < added'
    BY <1>1, <1>2, <2>1
  <2>3. AddingOk'
    BY <1>1, <1>2, <2>1, <2>2 DEF AddingOk
  <2>4. QED  BY <1>1, <2>1, <2>3 DEF Shape
<1>4. CASE EmitPhysicalRecord \/ EmitFails
  <2>1. /\ FileOk(file') /\ added' = added
        /\ \/ file' = file /\ EmitFails
           \/ \E kept \in 1..Bytes(NextPiece) :
                /\ file' = Append(file, Written(NextPiece, kept)) /\ adding.part > 0
                /\ IF kept = Bytes(NextPiece) THEN EmitPhysicalRecord ELSE EmitFails
    BY <1>1, <1>4, NewFile DEF Shape
  <2>2. CASE file' = file /\ EmitFails
    <3>1. adding'.part = 0
      BY <2>2 DEF EmitFails, NotAdding
    <3>2. AddingOk'
      BY <1>2, <2>1, <2>2, <3>1 DEF AddingOk
    <3>3. QED  BY <2>1, <3>2 DEF Shape
  <2>3. ASSUME NEW kept \in 1..Bytes(NextPiece),
               file' = Append(file, Written(NextPiece, kept)), adding.part > 0,
               IF kept = Bytes(NextPiece) THEN EmitPhysicalRecord ELSE EmitFails
        PROVE  AddingOk'
    <3> DEFINE w == Written(NextPiece, kept)
    <3>1. /\ w \in Piece /\ w.rec = added /\ w.part = adding.part
          /\ w.type \in {"full", "last"} <=> NextPiece.len = adding.left
          /\ Whole(w) <=> kept = Bytes(NextPiece)
      BY <1>1, <2>3, WrittenIs DEF Shape
    <3>2. /\ file' # <<>> /\ file'[Len(file')] = w
          /\ \A i \in DOMAIN file' : file'[i] = w \/ (i \in DOMAIN file /\ file'[i] = file[i])
      <4>1. file \in Seq(Piece)
        BY <1>1 DEF FileOk
      <4> HIDE DEF w
      <4>2. QED  BY <2>3, <3>1, <4>1, Appended DEF w
    <3> HIDE DEF w
    <3>3. \A i \in DOMAIN file' : file'[i].rec <= added'
      BY <1>1, <1>2, <2>1, <3>1, <3>2
    <3>4. CASE adding'.part = 0
      BY <3>3, <3>4 DEF AddingOk
    <3>5. CASE adding'.part # 0
      <4>1. EmitPhysicalRecord /\ kept = Bytes(NextPiece) /\ NextPiece.len # adding.left
        BY <2>3, <3>5 DEF EmitPhysicalRecord, EmitFails, NotAdding
      <4>2. adding'.rec = adding.rec /\ adding'.part = adding.part + 1 /\ acked' = acked
        BY <4>1 DEF EmitPhysicalRecord
      <4>3. w.type \in {"first", "middle"} /\ Whole(w)
        BY <3>1, <4>1, PieceIs
      <4>4. adding'.part # 1 /\ adding.rec = added /\ added \notin acked
        <5>1. adding.part \in Nat
          BY <3>1, PieceIs
        <5>2. QED  BY <1>1, <2>3, <4>2, <5>1 DEF AddingOk
      <4>5. LET p == file'[Len(file')]
            IN  /\ Whole(p) /\ p.rec = added' /\ adding'.part = p.part + 1
                /\ p.type \in {"first", "middle"}
        BY <2>1, <3>1, <3>2, <4>2, <4>3
      <4>6. QED  BY <2>1, <3>2, <3>3, <4>2, <4>4, <4>5 DEF AddingOk, Whole, Bytes
    <3>6. QED  BY <3>4, <3>5
  <2>4. QED  BY <2>1, <2>2, <2>3 DEF Shape
<1>5. CASE Sync \/ Reopen \/ UNCHANGED vars
  <2>1. UNCHANGED <<file, adding, added, acked>>
    BY <1>5 DEF Sync, Reopen, vars
  <2>2. AddingOk'
    BY <1>1, <2>1 DEF AddingOk, Whole, Bytes
  <2>3. QED  BY <1>1, <2>1, <2>2 DEF Shape
<1>6. CASE Crash
  <2>1. adding'.part = 0 /\ added' = added
    BY <1>6 DEF Crash, NotAdding
  <2>2. CASE file' = <<>>
    <3>1. FileOk(file') /\ AddingOk'
      BY <2>1, <2>2 DEF FileOk, AddingOk
    <3>2. QED  BY <3>1 DEF Shape
  <2>3. ASSUME NEW n \in 1..Len(file), NEW kept \in 1..file[n].kept, file' = FirstPieces(n, kept)
        PROVE  Shape'
    <3>1. FileOk(file') /\ DOMAIN file' = 1..n
          /\ \A i \in 1..n : i \in DOMAIN file /\ file'[i].rec = file[i].rec
      BY <1>1, <2>3, FileCut
    <3>2. AddingOk'
      BY <1>2, <2>1, <3>1 DEF AddingOk
    <3>3. QED  BY <3>1, <3>2 DEF Shape
  <2>4. QED  BY <1>6, <2>2, <2>3 DEF Crash
<1>7. QED  BY <1>3, <1>4, <1>5, <1>6 DEF Next

LEMMA PlacedStep ==
  ASSUME IInv, Shape, PlacedInv, [Next]_vars
  PROVE  PlacedInv'
<1> SUFFICES ASSUME faults' = 0, NEW i \in DOMAIN file' PROVE Placed(file'[i])
  BY DEF PlacedInv, Placed, HeaderOf
<1>1. TypeOK /\ WriterAligned /\ FileOk(file)
  BY DEF IInv, Shape
<1>2. ~EmitFails /\ faults = 0
  <2>1. ~EmitFails
    BY <1>1 DEF EmitFails, TypeOK
  <2>2. faults' = faults
    BY <2>1 DEF Next, AddRecord, EmitPhysicalRecord, Sync, Crash, Reopen, vars
  <2>3. QED  BY <2>1, <2>2
<1>3. \A k \in DOMAIN file : Placed(file[k])
  BY <1>2 DEF PlacedInv
<1>4. CASE EmitPhysicalRecord
  <2>1. PICK kept \in 1..Bytes(NextPiece) :
          file' = Append(file, Written(NextPiece, kept)) /\ adding.part > 0
    BY <1>1, <1>2, <1>4, NewFile
  <2> DEFINE w == Written(NextPiece, kept)
  <2>2. /\ w \in Piece /\ w.at = SizeOf(file) /\ w.pad = Padding(blockOffset)
        /\ w.len = NextPiece.len /\ NextPiece.len <= BlockSize - StartOffset - HeaderSize
    BY <1>1, <2>1, WrittenIs
  <2>3. file'[i] = w \/ (i \in DOMAIN file /\ file'[i] = file[i])
    <3>1. file \in Seq(Piece)
      BY <1>1 DEF FileOk
    <3> HIDE DEF w
    <3>2. QED  BY <2>1, <2>2, <3>1, Appended DEF w
  <2> HIDE DEF w
  <2>4. open
    BY <1>1, <2>1 DEF TypeOK, NotAdding
  <2>5. PICK b \in 0..FileSize : FileSize = (b * BlockSize) + blockOffset
    BY <1>1, <1>2, <2>4 DEF WriterAligned
  <2>6. PICK c \in Nat : FileSize + Padding(blockOffset) = (c * BlockSize) + StartOffset
    BY <1>1, <2>5, StartAligned
  <2>7. /\ StartOffset \in Nat /\ blockOffset \in Nat
        /\ Padding(blockOffset) = 0 \/ (StartOffset = 0 /\ Padding(blockOffset) < HeaderSize)
    BY <1>1, BlockAssumption DEF TypeOK, StartOffset, Padding
  <2>8. HeaderOf(w) = (c * BlockSize) + StartOffset
    BY <2>2, <2>6, FileSizeIs DEF HeaderOf
  <2>9. StartOffset + HeaderSize + w.len <= BlockSize
    BY <2>2, <2>7, PieceIs, BlockAssumption
  <2>10. Placed(w)
    BY <2>2, <2>7, <2>8, <2>9 DEF Placed
  <2>11. QED  BY <1>3, <2>3, <2>10
<1>5. CASE Crash
  <2>1. CASE file' = <<>>
    BY <2>1
  <2>2. ASSUME NEW n \in 1..Len(file), NEW kept \in 1..file[n].kept, file' = FirstPieces(n, kept)
        PROVE  Placed(file'[i])
    <3>1. /\ i \in DOMAIN file /\ file'[i].at = file[i].at /\ file'[i].pad = file[i].pad
          /\ file'[i].len = file[i].len
      BY <1>1, <2>2, FileCut
    <3>2. Placed(file[i])
      BY <1>3, <3>1
    <3>3. QED  BY <3>1, <3>2 DEF Placed, HeaderOf
  <2>3. QED  BY <1>5, <2>1, <2>2 DEF Crash
<1>6. CASE file' = file
  BY <1>3, <1>6
<1>7. QED  BY <1>2, <1>4, <1>5, <1>6 DEF Next, AddRecord, Sync, Reopen, vars

LEMMA ShapeInvariant == Spec => []ShapeInv
<1>1. Init => ShapeInv
  BY InitIInv, InitShape DEF ShapeInv
<1>2. ShapeInv /\ [Next]_vars => ShapeInv'
  BY Inductive, ShapeStep, PlacedStep DEF ShapeInv
<1>3. QED  BY <1>1, <1>2, PTL DEF Spec

\* Whatever lies behind the garbage that failed appends and crashes left, ReadRecord
\* returns only records whose fragments were all written, one after the other,
\* and in the order in which they were added.
THEOREM RecordsIntact == Spec => []ReadIntact
<1>1. ShapeInv => ReadIntact
  BY IntactReads DEF ShapeInv, Shape
<1>2. QED  BY <1>1, ShapeInvariant, PTL
(***************************************************************************)
(* A file without failures and unfinished records is read as it was        *)
(* written.                                                                *)
(***************************************************************************)
LEMMA PlacedIs ==
  ASSUME NEW p \in Piece, Placed(p)
  PROVE  /\ HeaderOf(p) + HeaderSize + p.len <= BlockEnd(HeaderOf(p))
         /\ \/ p.at = HeaderOf(p)
            \/ BlockEnd(p.at) = HeaderOf(p) /\ HeaderOf(p) < p.at + HeaderSize
<1> DEFINE h == HeaderOf(p)
<1>1. PICK b \in Nat, s \in Nat :
        /\ h = (b * BlockSize) + s /\ s + HeaderSize + p.len <= BlockSize
        /\ p.pad = 0 \/ (s = 0 /\ p.pad < HeaderSize)
  BY DEF Placed
<1>2. /\ p.at \in Nat /\ p.pad \in Nat /\ p.len \in Nat /\ h \in Nat /\ h = p.at + p.pad
      /\ b * BlockSize \in Nat
  BY PieceIs, BlockAssumption DEF HeaderOf
<1> HIDE DEF h
<1>3. BlockEnd(h) = (b * BlockSize) + BlockSize
  <2>1. s < BlockSize
    BY <1>1, <1>2, BlockAssumption
  <2>2. QED  BY <1>1, <2>1, BlockOf
<1>4. h + HeaderSize + p.len <= BlockEnd(h)
  BY <1>1, <1>2, <1>3, BlockAssumption
<1>5. CASE p.pad = 0
  <2>1. p.at = h
    BY <1>2, <1>5
  <2>2. QED  BY <1>4, <2>1 DEF h
<1>6. CASE p.pad # 0
  <2>1. s = 0 /\ p.pad < HeaderSize /\ p.pad > 0 /\ h = b * BlockSize
    BY <1>1, <1>2, <1>6
  <2>2. b # 0
    <3> SUFFICES ASSUME b = 0 PROVE FALSE
      OBVIOUS
    <3>1. b * BlockSize = 0
      BY BlockAssumption
    <3>2. QED  BY <1>2, <2>1, <3>1
  <2>3. /\ b - 1 \in Nat /\ BlockSize - p.pad \in Nat /\ BlockSize - p.pad < BlockSize
        /\ (b - 1) * BlockSize \in Nat /\ b * BlockSize = ((b - 1) * BlockSize) + BlockSize
    BY <1>2, <2>1, <2>2, BlockAssumption
  <2>4. p.at = ((b - 1) * BlockSize) + (BlockSize - p.pad)
    BY <1>2, <2>1, <2>3, BlockAssumption
  <2>5. BlockEnd(p.at) = ((b - 1) * BlockSize) + BlockSize
    BY <2>3, <2>4, BlockOf
  <2>6. BlockEnd(p.at) = h /\ h < p.at + HeaderSize
    BY <1>2, <2>1, <2>3, <2>5, BlockAssumption
  <2>7. QED  BY <1>4, <2>6 DEF h
<1>7. QED  BY <1>5, <1>6

\* The trailer of the block before is skipped.
LEMMA SkipsPadding ==
  ASSUME NEW f, FileOk(f), NEW i \in DOMAIN f, Placed(f[i])
  PROVE  IF HeaderOf(f[i]) <= SizeOf(f)
         THEN HeaderOf(f[i]) \in Offsets(f) /\ Reader(f)[f[i].at] = Reader(f)[HeaderOf(f[i])]
         ELSE Reader(f)[f[i].at] = <<>>
<1> DEFINE p == f[i]
           o == p.at
           h == HeaderOf(p)
<1>1. /\ p \in Piece /\ SizeOf(f) \in Nat /\ o < SizeOf(f) /\ f \in Seq(Piece)
  BY FileIs
<1>2. o \in Nat /\ h \in Nat /\ o <= h
  BY <1>1, PieceIs
<1>3. o \in Offsets(f) /\ (h <= SizeOf(f) => h \in Offsets(f))
  BY <1>1, <1>2, BlockAssumption DEF Offsets
<1>4. o = h \/ (BlockEnd(o) = h /\ h < o + HeaderSize)
  BY <1>1, PlacedIs
<1> HIDE DEF p, o, h
<1>5. CASE o = h
  BY <1>1, <1>2, <1>3, <1>5 DEF p, o, h
<1>6. CASE BlockEnd(o) = h /\ h < o + HeaderSize
  <2>1. /\ Limit(f, o) = IF h < SizeOf(f) THEN h ELSE SizeOf(f)
        /\ Eof(f, o) <=> Limit(f, o) < h
    BY <1>6 DEF Limit, Eof
  <2>2. Limit(f, o) - o < HeaderSize
    BY <1>1, <1>2, <1>6, <2>1, BlockAssumption
  <2>3. h <= SizeOf(f) => Reader(f)[o] = Reader(f)[h]
    <3> SUFFICES ASSUME h <= SizeOf(f) PROVE Reader(f)[o] = Reader(f)[h]
      OBVIOUS
    <3>1. ~Eof(f, o)
      BY <1>1, <1>2, <2>1
    <3>2. QED  BY <1>3, <1>6, <2>2, <3>1, ReadIs
  <2>4. ~(h <= SizeOf(f)) => Reader(f)[o] = <<>>
    <3> SUFFICES ASSUME ~(h <= SizeOf(f)) PROVE Reader(f)[o] = <<>>
      OBVIOUS
    <3>1. Eof(f, o)
      BY <1>1, <1>2, <2>1
    <3>2. QED  BY <1>3, <2>2, <3>1, ReadIs
  <2>5. QED  BY <1>3, <2>3, <2>4 DEF p, o, h
<1>7. QED  BY <1>4, <1>5, <1>6

LEMMA ReadsPiece ==
  ASSUME NEW f, FileOk(f), NEW i \in DOMAIN f, Placed(f[i]), Whole(f[i])
  PROVE  Reader(f)[f[i].at] = <<f[i]>> \o Reader(f)[EndOf(f[i])]
<1> DEFINE h == HeaderOf(f[i])
<1>1. /\ f[i] \in Piece /\ SizeOf(f) \in Nat /\ EndOf(f[i]) <= SizeOf(f) /\ f \in Seq(Piece)
  BY FileIs
<1>2. /\ h \in Nat /\ EndOf(f[i]) = h + HeaderSize + f[i].len /\ EndOf(f[i]) \in Nat
      /\ h + HeaderSize <= EndOf(f[i])
  BY <1>1, PieceIs
<1>3. h <= SizeOf(f)
  <2>1. ASSUME NEW a \in Nat, NEW b \in Nat, NEW c \in Nat, a + HeaderSize <= b, b <= c
        PROVE  a <= c
    BY <2>1, BlockAssumption
  <2>2. QED  BY <1>1, <1>2, <2>1
<1>4. h \in Offsets(f) /\ Reader(f)[f[i].at] = Reader(f)[h]
  BY <1>3, SkipsPadding
<1>5. EndOf(f[i]) <= BlockEnd(h)
  BY <1>1, <1>2, PlacedIs
<1>6. i \in Good(f, h)
  <2>1. EndOf(f[i]) <= Limit(f, h)
    BY <1>1, <1>5 DEF Limit
  <2>2. i \in HeadersAt(f, h)
    BY DEF HeadersAt, HeaderOf
  <2>3. Fits(f, h, i)
    BY <1>2, <2>1 DEF Fits
  <2>4. QED  BY <2>2, <2>3 DEF Good
<1> HIDE DEF h
<1>7. Reader(f)[h] = <<f[i]>> \o Reader(f)[EndOf(f[i])]
  BY <1>4, <1>6, ReadIs
<1>8. QED  BY <1>4, <1>7

LEMMA ReadsTorn ==
  ASSUME NEW f, FileOk(f), f # <<>>, Placed(f[Len(f)]), ~Whole(f[Len(f)])
  PROVE  Reader(f)[f[Len(f)].at] = <<>>
<1> DEFINE i == Len(f)
           h == HeaderOf(f[i])
<1>1. i \in DOMAIN f /\ f \in Seq(Piece)
  BY DEF FileOk
<1>2. /\ f[i] \in Piece /\ SizeOf(f) \in Nat /\ SizeOf(f) = EndOf(f[i]) /\ PieceOk(f[i])
  BY <1>1, FileIs
<1>3. /\ h \in Nat /\ EndOf(f[i]) < h + HeaderSize + f[i].len /\ f[i].len \in Nat
      /\ f[i].at \in Nat /\ f[i].pad \in Nat /\ f[i].kept \in Nat
      /\ h = f[i].at + f[i].pad /\ EndOf(f[i]) = f[i].at + f[i].kept /\ f[i].at <= h
  <2>1. f[i].kept < Bytes(f[i])
    BY <1>1, <1>2, PieceIs DEF PieceOk, Whole
  <2>2. /\ f[i].at \in Nat /\ f[i].kept \in Nat /\ Bytes(f[i]) \in Nat /\ f[i].len \in Nat
        /\ f[i].pad \in Nat /\ h \in Nat /\ h + HeaderSize + f[i].len = f[i].at + Bytes(f[i])
        /\ f[i].at <= h
    BY <1>2, PieceIs
  <2>3. EndOf(f[i]) < f[i].at + Bytes(f[i])
    BY <2>1, <2>2 DEF EndOf
  <2>4. QED  BY <2>2, <2>3 DEF HeaderOf, EndOf
<1>4. h + HeaderSize + f[i].len <= BlockEnd(h)
  BY <1>2, PlacedIs
<1>5. CASE ~(h <= SizeOf(f))
  BY <1>1, <1>5, SkipsPadding
<1>6. CASE h <= SizeOf(f)
  <2>1. h \in Offsets(f) /\ Reader(f)[f[i].at] = Reader(f)[h]
    BY <1>1, <1>6, SkipsPadding
  <2>2. BlockEnd(h) \in Nat
    BY <1>3, BlockEndIs
  <2>3. SizeOf(f) < BlockEnd(h)
    BY <1>2, <1>3, <1>4, <2>2, BlockAssumption
  <2>4. Limit(f, h) = SizeOf(f) /\ Eof(f, h)
    BY <1>2, <2>2, <2>3 DEF Limit, Eof
  <2>5. ASSUME NEW k \in Good(f, h) PROVE FALSE
    <3>1. k \in DOMAIN f /\ Whole(f[k]) /\ HeaderOf(f[k]) = h
      BY DEF Good, HeadersAt, HeaderOf
    <3>2. k \in Nat /\ k < i /\ f[k] \in Piece
      BY <1>1, <3>1, FileIs
    <3>3. EndOf(f[k]) <= f[i].at
      BY <1>1, <3>1, <3>2 DEF FileOk
    <3>4. h + HeaderSize <= EndOf(f[k]) /\ EndOf(f[k]) \in Nat
      BY <3>1, <3>2, PieceIs
    <3>5. QED  BY <1>3, <3>3, <3>4, BlockAssumption
  <2>6. ~Fits(f, h, i)
    BY <1>2, <1>3, <2>4, BlockAssumption DEF Fits
  <2>7. CASE Limit(f, h) - h < HeaderSize
    BY <2>1, <2>4, <2>7, ReadIs
  <2>8. CASE ~(Limit(f, h) - h < HeaderSize)
    <3>1. f[i].kept >= f[i].pad + HeaderSize
      <4>1. ASSUME NEW a \in Nat, NEW k \in Nat, NEW q \in Nat, ~((a + k) - (a + q) < HeaderSize)
            PROVE  k >= q + HeaderSize
        BY <4>1, BlockAssumption
      <4>2. ~((f[i].at + f[i].kept) - (f[i].at + f[i].pad) < HeaderSize)
        BY <1>2, <1>3, <2>4, <2>8
      <4>3. QED  BY <1>3, <4>1, <4>2
    <3>2. i \in HeadersAt(f, h)
      BY <1>1 DEF HeadersAt, HeaderOf
    <3>3. Dying(f, h)
      BY <2>4, <2>6, <3>1, <3>2 DEF Dying
    <3>4. QED  BY <2>1, <2>5, <2>8, <3>3, ReadIs
  <2>9. QED  BY <2>7, <2>8
<1>7. QED  BY <1>5, <1>6

LEMMA ReadsEnd ==
  ASSUME NEW f, FileOk(f)
  PROVE  Reader(f)[SizeOf(f)] = <<>>
<1> DEFINE o == SizeOf(f)
<1>1. o \in Nat /\ o \in Offsets(f)
  BY SizeOfType, BlockAssumption DEF FileOk, Offsets
<1>2. BlockEnd(o) \in Nat /\ o < BlockEnd(o)
  BY <1>1, BlockEndIs
<1>3. Limit(f, o) = o /\ Eof(f, o)
  BY <1>1, <1>2 DEF Limit, Eof
<1>4. Limit(f, o) - o < HeaderSize
  BY <1>1, <1>3, BlockAssumption
<1>5. QED  BY <1>1, <1>3, <1>4, ReadIs
\* How many of the pieces are there as a whole, if only the last one may be torn.
Complete(f) == IF f # <<>> /\ ~Whole(f[Len(f)]) THEN Len(f) - 1 ELSE Len(f)

LEMMA ReadsAll ==
  ASSUME NEW f, FileOk(f), \A i \in DOMAIN f : Placed(f[i]),
         \A i \in DOMAIN f : i + 1 \in DOMAIN f => Whole(f[i])
  PROVE  /\ Complete(f) \in Nat /\ Len(Reader(f)[0]) = Complete(f)
         /\ DOMAIN Reader(f)[0] = 1..Complete(f) /\ Complete(f) <= Len(f)
         /\ \A j \in 1..Complete(f) : /\ j \in DOMAIN f /\ Whole(f[j]) /\ Reader(f)[0][j] = f[j]
<1> DEFINE n == Len(f)
           c == Complete(f)
           R(o) == Reader(f)[o]
           Rest(i) == /\ R(f[i].at) \in Seq(Piece \cup {Bad}) /\ Len(R(f[i].at)) = (c + 1) - i
                      /\ \A j \in 1..((c + 1) - i) : R(f[i].at)[j] = f[(i + j) - 1]
           T == {i \in 0..n : i > 0 => Rest(i)}
<1>1. f \in Seq(Piece) /\ n \in Nat /\ c \in Nat /\ c <= n
      /\ \A i \in 1..c : i \in DOMAIN f
  BY DEF FileOk, Complete
<1>2. \A i \in DOMAIN f : i \in 1..n /\ f[i] \in Piece
  BY <1>1
<1>3. \A i \in 1..c : Whole(f[i])
  <2> SUFFICES ASSUME NEW i \in 1..c PROVE Whole(f[i])
    OBVIOUS
  <2>1. CASE i = n
    BY <1>1, <2>1 DEF Complete
  <2>2. CASE i # n
    <3>1. i + 1 \in DOMAIN f
      BY <1>1, <2>2
    <3>2. QED  BY <1>1, <3>1
  <2>3. QED  BY <2>1, <2>2
<1>4. ASSUME NEW i \in 0..n, \A k \in 0..n : i < k => k \in T, i > 0
      PROVE  Rest(i)
  <2>1. i \in DOMAIN f /\ f[i] \in Piece
    BY <1>1, <1>4
  <2>2. CASE i = n /\ c # n
    <3>1. ~Whole(f[n]) /\ f # <<>> /\ c = n - 1
      BY <1>1, <2>1, <2>2 DEF Complete
    <3>2. R(f[i].at) = <<>>
      BY <2>1, <2>2, <3>1, ReadsTorn
    <3> HIDE DEF c, n
    <3>3. QED  BY <1>1, <2>2, <3>1, <3>2
  <2>3. CASE i \in 1..c
    <3> DEFINE m == R(EndOf(f[i]))
               s == R(f[i].at)
    <3>1. s = <<f[i]>> \o m
      BY <1>3, <2>1, <2>3, ReadsPiece
    <3>2. m \in Seq(Piece \cup {Bad}) /\ Len(m) = c - i /\ \A j \in 1..(c - i) : m[j] = f[i + j]
      <4>1. CASE i = n
        <5>1. EndOf(f[i]) = SizeOf(f)
          BY <2>1, <4>1, FileIs
        <5>2. m = <<>> /\ c = n
          BY <1>1, <2>3, <4>1, <5>1, ReadsEnd
        <5> HIDE DEF m, c, n
        <5>3. QED  BY <1>1, <4>1, <5>2
      <4>2. CASE i # n
        <5>1. i + 1 \in 0..n /\ i < i + 1 /\ i + 1 > 0 /\ i + 1 \in DOMAIN f
          BY <1>1, <1>4, <4>2
        <5>2. EndOf(f[i]) = f[i + 1].at
          BY <2>1, <5>1 DEF FileOk
        <5>3. Rest(i + 1)
          BY <1>4, <5>1
        <5>4. m \in Seq(Piece \cup {Bad}) /\ Len(m) = (c + 1) - (i + 1)
              /\ \A j \in 1..((c + 1) - (i + 1)) : m[j] = f[((i + 1) + j) - 1]
          BY <5>2, <5>3
        <5> HIDE DEF m, c, n
        <5>5. (c + 1) - (i + 1) = c - i /\ \A j \in 1..(c - i) : ((i + 1) + j) - 1 = i + j
          BY <1>1, <1>4
        <5>6. QED  BY <5>4, <5>5
      <4>3. QED  BY <4>1, <4>2
    <3>3. /\ s \in Seq(Piece \cup {Bad}) /\ Len(s) = Len(m) + 1 /\ s[1] = f[i]
          /\ \A j \in DOMAIN s : j = 1 \/ (j - 1 \in DOMAIN m /\ s[j] = m[j - 1] /\ j > 1)
      <4>1. f[i] \in Piece \cup {Bad}
        BY <2>1
      <4> HIDE DEF m, s
      <4>2. QED  BY <3>1, <3>2, <4>1, Prepend
    <3> HIDE DEF m, s, c, n
    <3>4. Len(s) = (c + 1) - i
      BY <1>1, <1>4, <3>2, <3>3
    <3>5. ASSUME NEW j \in 1..((c + 1) - i) PROVE s[j] = f[(i + j) - 1]
      <4>1. j \in DOMAIN s
        BY <1>1, <1>4, <3>3, <3>4
      <4>2. CASE j = 1
        <5>1. (i + j) - 1 = i
          BY <1>1, <1>4, <4>2
        <5>2. QED  BY <3>3, <4>2, <5>1
      <4>3. CASE j # 1
        <5>1. s[j] = m[j - 1] /\ j - 1 \in 1..(c - i) /\ i + (j - 1) = (i + j) - 1
          BY <1>1, <1>4, <3>3, <4>1, <4>3
        <5>2. QED  BY <3>2, <5>1
      <4>4. QED  BY <4>2, <4>3
    <3>6. QED  BY <3>3, <3>4, <3>5 DEF s
  <2>4. QED  BY <1>1, <1>4, <2>2, <2>3
<1>5. \A i \in 0..n : i \in T
  <2>1. \A i \in 0..n : (\A k \in 0..n : i < k => k \in T) => i \in T
    BY <1>4
  <2> HIDE DEF T, n
  <2>2. QED  BY <1>1, <2>1, Downwards
<1>6. CASE f = <<>>
  <2>1. SizeOf(f) = 0 /\ n = 0 /\ c = 0
    BY <1>6 DEF SizeOf, Complete
  <2>2. R(0) = <<>>
    BY <2>1, ReadsEnd
  <2>3. QED  BY <2>1, <2>2
<1>7. CASE f # <<>>
  <2>1. 1 \in 0..n /\ f[1].at = 0
    BY <1>1, <1>7 DEF FileOk
  <2>2. Rest(1)
    BY <1>5, <2>1
  <2>3. /\ R(0) \in Seq(Piece \cup {Bad}) /\ Len(R(0)) = (c + 1) - 1
        /\ \A j \in 1..((c + 1) - 1) : R(0)[j] = f[(1 + j) - 1]
    BY <2>1, <2>2
  <2> HIDE DEF c, R, Rest, n
  <2>4. (c + 1) - 1 = c /\ \A j \in 1..c : (1 + j) - 1 = j
    BY <1>1
  <2>5. Len(R(0)) = c /\ DOMAIN R(0) = 1..c /\ \A j \in 1..c : R(0)[j] = f[j]
    BY <1>1, <2>3, <2>4
  <2>6. QED  BY <1>1, <1>3, <2>5 DEF c, n, R
<1>8. QED  BY <1>6, <1>7
\* Every fragment that is not the first of its record has been begun.
LEMMA AllBegun ==
  ASSUME NEW f, FileOk(f), NEW met, NEW c \in Nat, c <= Len(f), DOMAIN met = 1..c,
         \A j \in 1..c : j \in DOMAIN f /\ met[j] = f[j]
  PROVE  \A i \in 1..c : f[i].part > 1 => Fragmented(met, i)
<1> DEFINE T == {i \in Nat : i \in 1..c /\ f[i].part > 1 => Fragmented(met, i)}
<1>1. f \in Seq(Piece) /\ \A i \in 1..c : f[i] \in Piece /\ PieceOk(f[i])
  BY DEF FileOk
<1>2. ASSUME NEW i \in Nat, \A k \in Nat : k < i => k \in T, i \in 1..c, f[i].part > 1
      PROVE  Fragmented(met, i)
  <2>1. f # <<>>
    BY <1>1, <1>2
  <2>2. i # 1
    BY <1>2, <2>1 DEF FileOk
  <2>3. i - 1 \in Nat /\ i - 1 < i /\ i - 1 \in 1..c /\ (i - 1) + 1 = i
    BY <1>2, <2>2
  <2>4. Adjacent(f[i - 1], f[(i - 1) + 1])
    BY <1>2, <2>3 DEF FileOk
  <2>5. f[i - 1].type \in {"first", "middle"}
    BY <1>2, <2>3, <2>4 DEF Adjacent
  <2>6. CASE f[i - 1].type = "first"
    <3>1. \A k \in ((i - 1) + 1)..(i - 1) : FALSE
      BY <1>2
    <3>2. Begins(met, i - 1, i)
      BY <2>3, <2>6, <3>1 DEF Begins
    <3>3. i - 1 \in 1..(i - 1)
      BY <2>3
    <3>4. QED  BY <3>2, <3>3 DEF Fragmented
  <2>7. CASE f[i - 1].type = "middle"
    <3>1. f[i - 1].part > 1
      <4>1. f[i - 1].part # 1 /\ f[i - 1].part \in Nat \ {0}
        BY <1>1, <2>3, <2>7 DEF PieceOk, Piece
      <4>2. QED  BY <4>1
    <3>2. Fragmented(met, i - 1)
      BY <1>2, <2>3, <3>1
    <3>3. PICK j \in 1..((i - 1) - 1) : Begins(met, j, i - 1)
      BY <3>2 DEF Fragmented
    <3>4. \A k \in (j + 1)..(i - 1) : k \in (j + 1)..((i - 1) - 1) \/ k = i - 1
      BY <2>3, <3>3
    <3>5. Begins(met, j, i) /\ j \in 1..(i - 1)
      BY <2>3, <2>7, <3>3, <3>4 DEF Begins
    <3>6. QED  BY <3>5 DEF Fragmented
  <2>8. QED  BY <2>5, <2>6, <2>7
<1>3. \A i \in Nat : i \in T
  <2>1. \A i \in Nat : (\A k \in Nat : k < i => k \in T) => i \in T
    BY <1>2
  <2> HIDE DEF T
  <2>2. QED  BY <2>1, Upwards
<1>4. QED  BY <1>3

\* What is read of a file that is not Broken.
LEMMA SoundReads ==
  ASSUME ShapeInv, ~Broken
  PROVE  /\ Complete(file) \in Nat /\ DOMAIN Physical = 1..Complete(file) /\ Complete(file) <= Len(file)
         /\ \A j \in 1..Complete(file) : j \in DOMAIN file /\ Whole(file[j]) /\ Physical[j] = file[j]
         /\ \A i \in 1..Complete(file) : file[i].part > 1 => Fragmented(Physical, i)
<1>1. FileOk(file) /\ faults \in Nat
  BY DEF ShapeInv, Shape, IInv, TypeOK
<1>2. faults = 0 /\ \A i \in 1..(Len(file) - 1) : ~Unfinished(i)
  BY <1>1 DEF Broken
<1>3. \A i \in DOMAIN file : Placed(file[i])
  BY <1>2 DEF ShapeInv, PlacedInv
<1>4. ASSUME NEW i \in DOMAIN file, i + 1 \in DOMAIN file PROVE Whole(file[i])
  <2>1. file \in Seq(Piece)
    BY <1>1 DEF FileOk
  <2>2. i \in 1..(Len(file) - 1)
    BY <1>4, <2>1
  <2>3. QED  BY <1>2, <2>2 DEF Unfinished
<1>5. /\ Complete(file) \in Nat /\ DOMAIN Physical = 1..Complete(file) /\ Complete(file) <= Len(file)
      /\ \A j \in 1..Complete(file) : j \in DOMAIN file /\ Whole(file[j]) /\ Physical[j] = file[j]
  BY <1>1, <1>3, <1>4, ReadsAll, PhysicalIs
<1>6. \A i \in 1..Complete(file) : file[i].part > 1 => Fragmented(Physical, i)
  BY <1>1, <1>5, AllBegun
<1>7. QED  BY <1>5, <1>6

LEMMA NothingReported ==
  ASSUME ShapeInv, ~Broken
  PROVE  Reported(Physical) = {}
<1> DEFINE met == Physical
           c == Complete(file)
<1>1. FileOk(file) /\ file \in Seq(Piece)
  BY DEF ShapeInv, Shape, FileOk
<1>2. /\ c \in Nat /\ DOMAIN met = 1..c /\ c <= Len(file) /\ Len(file) \in Nat
      /\ \A j \in 1..c : j \in DOMAIN file /\ met[j] = file[j]
      /\ \A i \in 1..c : file[i].part > 1 => Fragmented(met, i)
  BY <1>1, SoundReads
<1>3. \A i \in 1..(Len(file) - 1) : ~Unfinished(i)
  BY DEF Broken
<1> HIDE DEF met, c
<1>4. ASSUME NEW i \in 1..c
      PROVE  /\ met[i].type # "bad"
             /\ met[i].type \in {"middle", "last"} => Fragmented(met, i)
  <2>1. met[i] \in Piece /\ PieceOk(met[i]) /\ met[i] = file[i]
    BY <1>1, <1>2, FileIs
  <2>2. met[i].type # "bad" /\ met[i].part \in Nat /\ met[i].part > 0
    BY <2>1 DEF Piece
  <2>3. met[i].type \in {"middle", "last"} => met[i].part > 1
    BY <2>1, <2>2 DEF PieceOk
  <2>4. QED  BY <1>2, <2>1, <2>2, <2>3
<1>5. ASSUME NEW i \in 1..c, met[i].type \in {"full", "first"}, NEW j \in 1..(i - 1), Begins(met, j, i)
      PROVE  FALSE
  <2>1. i - 1 \in 1..c /\ i - 1 \in 1..(Len(file) - 1) /\ (i - 1) + 1 = i /\ i - 1 < i
    BY <1>2, <1>5
  <2>2. met[i - 1].type \in {"first", "middle"}
    <3>1. CASE j = i - 1
      BY <1>5, <3>1 DEF Begins
    <3>2. CASE j # i - 1
      <4>1. i - 1 \in (j + 1)..(i - 1)
        BY <1>2, <1>5, <3>2
      <4>2. QED  BY <1>5, <4>1 DEF Begins
    <3>3. QED  BY <3>1, <3>2
  <2>3. file[i - 1].type \in {"first", "middle"} /\ i - 1 \in DOMAIN file /\ i \in DOMAIN file
    BY <1>2, <1>5, <2>1, <2>2
  <2>4. file[i].rec = file[i - 1].rec
    BY <1>3, <2>1, <2>3 DEF Unfinished
  <2>5. Sorted(file[i - 1], file[i])
    BY <1>1, <2>1, <2>3 DEF FileOk
  <2>6. /\ file[i].part = 1 /\ file[i - 1].part \in Nat /\ file[i - 1].part > 0
        /\ file[i].rec \in Nat
    <3>1. file[i] \in Piece /\ PieceOk(file[i]) /\ file[i - 1] \in Piece
      BY <1>1, <2>3, FileIs
    <3>2. file[i].part = 1
      BY <1>2, <1>5, <3>1 DEF PieceOk
    <3>3. QED  BY <3>1, <3>2 DEF Piece
  <2>7. QED  BY <2>4, <2>5, <2>6 DEF Sorted
<1>6. Reported(met) = {}
  BY <1>2, <1>4, <1>5 DEF Reported
<1>7. QED  BY <1>6 DEF met

\* A crash in the middle of a record is not reported as a corruption by
\* ReadPhysicalRecord or ReadRecord, wherever in a block, in its trailer, in a
\* header or in a fragment the file ends, and whatever came before in a file
\* that was reused.
THEOREM NoAlarm == Spec => []NoFalseAlarm
<1>1. ShapeInv => NoFalseAlarm
  BY NothingReported DEF NoFalseAlarm
<1>2. QED  BY <1>1, ShapeInvariant, PTL
(***************************************************************************)
(* A file g and what more is written of it, f: the reader of f meets what  *)
(* that of g meets, and then only pieces that are whole in f alone.        *)
(***************************************************************************)
Extends(g, f) ==
  /\ FileOk(g) /\ FileOk(f) /\ Len(g) <= Len(f)
  /\ \A i \in DOMAIN g :
       /\ i \in DOMAIN f
       /\ g[i].rec = f[i].rec /\ g[i].part = f[i].part /\ g[i].type = f[i].type
       /\ g[i].at = f[i].at /\ g[i].pad = f[i].pad /\ g[i].len = f[i].len
       /\ g[i].kept <= f[i].kept
       /\ i < Len(g) \/ Whole(g[i]) => g[i] = f[i]

IsNew(g, f, k) == k \in DOMAIN f /\ Whole(f[k]) /\ ~(k \in DOMAIN g /\ Whole(g[k]))

NewOnly(g, f, s) ==
  /\ s \in Seq(Piece \cup {Bad})
  /\ \A j \in DOMAIN s : s[j] = Bad \/ \E k \in DOMAIN f : s[j] = f[k] /\ IsNew(g, f, k)

Longer(g, f, r, s) == \E t : NewOnly(g, f, t) /\ s = r \o t

LEMMA ExtendsIs ==
  ASSUME NEW g, NEW f, Extends(g, f), NEW i \in DOMAIN g
  PROVE  /\ i \in DOMAIN f /\ g[i] \in Piece /\ f[i] \in Piece
         /\ HeaderOf(g[i]) = HeaderOf(f[i]) /\ Bytes(g[i]) = Bytes(f[i])
         /\ g[i].at = f[i].at /\ g[i].pad = f[i].pad /\ g[i].len = f[i].len
         /\ EndOf(g[i]) <= EndOf(f[i])
         /\ Whole(g[i]) => g[i] = f[i] /\ Whole(f[i])
         /\ i < Len(g) => g[i] = f[i]
<1>1. FileOk(g) /\ FileOk(f) /\ i \in DOMAIN f
  BY DEF Extends
<1>2. g[i] \in Piece /\ f[i] \in Piece
  BY <1>1, FileIs
<1>3. /\ g[i].at = f[i].at /\ g[i].pad = f[i].pad /\ g[i].len = f[i].len
      /\ g[i].kept <= f[i].kept
      /\ i < Len(g) \/ Whole(g[i]) => g[i] = f[i]
  BY DEF Extends
<1>4. HeaderOf(g[i]) = HeaderOf(f[i]) /\ Bytes(g[i]) = Bytes(f[i])
  BY <1>3 DEF HeaderOf, Bytes
<1>5. EndOf(g[i]) <= EndOf(f[i])
  <2>1. f[i].at \in Nat /\ g[i].kept \in Nat /\ f[i].kept \in Nat
    BY <1>2, PieceIs
  <2>2. QED  BY <1>3, <2>1 DEF EndOf
<1>6. QED  BY <1>1, <1>2, <1>3, <1>4, <1>5

\* The pieces of f that g lacks begin behind g, but for the last of g.
LEMMA Behind ==
  ASSUME NEW g, NEW f, Extends(g, f), NEW k \in DOMAIN f
  PROVE  /\ k \in DOMAIN g \/ SizeOf(g) <= f[k].at
         /\ k \in DOMAIN g /\ k # Len(g) => g[k] = f[k]
         /\ k = Len(g) => k \in DOMAIN g /\ SizeOf(g) = EndOf(g[k])
<1>1. FileOk(g) /\ FileOk(f) /\ Len(g) <= Len(f) /\ g \in Seq(Piece) /\ Len(g) \in Nat
  BY DEF Extends, FileOk
<1>2. k \in Nat /\ k >= 1 /\ k <= Len(f) /\ f[k] \in Piece
  BY <1>1, FileIs
<1>3. f[k].at \in Nat
  BY <1>2, PieceIs
<1>4. k \in DOMAIN g <=> k <= Len(g)
  BY <1>1, <1>2
<1>5. CASE k <= Len(g)
  <2>1. k < Len(g) => g[k] = f[k]
    BY <1>4, <1>5, ExtendsIs
  <2>2. k = Len(g) => SizeOf(g) = EndOf(g[k])
    BY <1>1, <1>4, <1>5, FileIs
  <2>3. QED  BY <1>1, <1>2, <1>4, <1>5, <2>1, <2>2
<1>6. CASE ~(k <= Len(g))
  <2>1. CASE g = <<>>
    BY <1>1, <1>2, <1>3, <1>4, <1>6, <2>1 DEF SizeOf
  <2>2. CASE g # <<>>
    <3> DEFINE n == Len(g)
    <3>1. n \in DOMAIN g
      BY <1>1, <2>2
    <3>2. SizeOf(g) = EndOf(g[n]) /\ SizeOf(g) \in Nat
      BY <1>1, <3>1, FileIs
    <3>3. n \in DOMAIN f /\ EndOf(g[n]) <= EndOf(f[n]) /\ f[n] \in Piece
      BY <3>1, ExtendsIs
    <3>4. EndOf(f[n]) <= f[k].at
      BY <1>1, <1>2, <1>6, <3>3 DEF FileOk
    <3>5. EndOf(f[n]) \in Nat
      BY <3>3, PieceIs
    <3>6. SizeOf(g) <= f[k].at
      BY <1>3, <3>2, <3>3, <3>4, <3>5
    <3>7. QED  BY <1>1, <1>2, <1>4, <1>6, <3>6
  <2>3. QED  BY <2>1, <2>2
<1>7. QED  BY <1>5, <1>6

LEMMA NewEnd ==
  ASSUME NEW g, NEW f, Extends(g, f), NEW k, IsNew(g, f, k)
  PROVE  /\ k \in DOMAIN f /\ Whole(f[k]) /\ SizeOf(g) \in Nat /\ EndOf(f[k]) \in Nat
         /\ SizeOf(g) < EndOf(f[k])
         /\ \A i \in DOMAIN g : Whole(g[i]) => i < k
<1>1. k \in DOMAIN f /\ Whole(f[k]) /\ ~(k \in DOMAIN g /\ Whole(g[k]))
  BY DEF IsNew
<1>2. /\ k \in DOMAIN g \/ SizeOf(g) <= f[k].at
      /\ k \in DOMAIN g /\ k # Len(g) => g[k] = f[k]
      /\ k = Len(g) => k \in DOMAIN g /\ SizeOf(g) = EndOf(g[k])
  BY <1>1, Behind
<1>3. FileOk(g) /\ FileOk(f) /\ g \in Seq(Piece)
  BY DEF Extends, FileOk
<1>4. SizeOf(g) \in Nat /\ f[k] \in Piece /\ k \in Nat
  BY <1>1, <1>3, SizeOfType, FileIs
<1>5. f[k].at \in Nat /\ EndOf(f[k]) \in Nat /\ f[k].at < EndOf(f[k])
  BY <1>4, PieceIs
<1>6. ASSUME k \in DOMAIN g
      PROVE  k = Len(g) /\ SizeOf(g) < EndOf(f[k])
  <2>1. k = Len(g)
    BY <1>1, <1>2, <1>6
  <2>2. g[k] \in Piece /\ PieceOk(g[k]) /\ Bytes(g[k]) = Bytes(f[k]) /\ g[k].at = f[k].at
    BY <1>3, <1>6, FileIs, ExtendsIs
  <2>3. g[k].kept \in Nat /\ Bytes(f[k]) \in Nat /\ g[k].kept < Bytes(f[k]) /\ f[k].kept = Bytes(f[k])
    BY <1>1, <1>6, <2>2, PieceIs DEF PieceOk, Whole
  <2>4. QED  BY <1>2, <1>5, <2>1, <2>2, <2>3 DEF EndOf
<1>7. SizeOf(g) < EndOf(f[k])
  BY <1>2, <1>4, <1>5, <1>6
<1>8. ASSUME NEW i \in DOMAIN g, Whole(g[i]) PROVE i < k
  <2>1. i \in Nat /\ i <= Len(g) /\ i >= 1 /\ Len(g) \in Nat
    BY <1>3, FileIs
  <2>2. CASE k \in DOMAIN g
    BY <1>1, <1>6, <1>8, <2>1, <2>2
  <2>3. CASE k \notin DOMAIN g
    <3>1. ~(k <= Len(g)) \/ k = 0
      BY <1>3, <1>4, <2>3
    <3>2. k >= 1
      BY <1>1, <1>3, FileIs
    <3>3. QED  BY <1>4, <2>1, <3>1, <3>2
  <2>4. QED  BY <2>2, <2>3
<1>9. QED  BY <1>1, <1>4, <1>5, <1>7, <1>8

LEMMA LimitGrows ==
  ASSUME NEW g, NEW f, Extends(g, f)
  PROVE  /\ SizeOf(g) \in Nat /\ SizeOf(f) \in Nat /\ SizeOf(g) <= SizeOf(f)
         /\ \A o \in Offsets(g) : o \in Offsets(f) /\ o \in Nat
<1>1. FileOk(g) /\ FileOk(f) /\ g \in Seq(Piece) /\ f \in Seq(Piece) /\ Len(g) \in Nat
  BY DEF Extends, FileOk
<1>2. SizeOf(g) \in Nat /\ SizeOf(f) \in Nat
  BY <1>1, SizeOfType
<1>3. SizeOf(g) <= SizeOf(f)
  <2>1. CASE g = <<>>
    BY <1>2, <2>1 DEF SizeOf
  <2>2. CASE g # <<>>
    <3> DEFINE n == Len(g)
    <3>1. n \in DOMAIN g
      BY <1>1, <2>2
    <3>2. n \in DOMAIN f /\ EndOf(g[n]) <= EndOf(f[n]) /\ g[n] \in Piece /\ f[n] \in Piece
      BY <3>1, ExtendsIs
    <3>3. SizeOf(g) = EndOf(g[n]) /\ EndOf(f[n]) <= SizeOf(f)
      BY <1>1, <3>1, <3>2, FileIs
    <3>4. EndOf(f[n]) \in Nat
      BY <3>2, PieceIs
    <3>5. QED  BY <1>2, <3>2, <3>3, <3>4
  <2>3. QED  BY <2>1, <2>2
<1>4. \A o \in Offsets(g) : o \in Offsets(f) /\ o \in Nat
  BY <1>2, <1>3, BlockAssumption DEF Offsets
<1>5. QED  BY <1>2, <1>3, <1>4

LEMMA NewOnlyNone ==
  ASSUME NEW g, NEW f
  PROVE  NewOnly(g, f, <<>>)
  BY DEF NewOnly

LEMMA NewOnlyPrepend ==
  ASSUME NEW g, NEW f, NEW x \in Piece \cup {Bad}, NEW s, NewOnly(g, f, s),
         x = Bad \/ \E k \in DOMAIN f : x = f[k] /\ IsNew(g, f, k)
  PROVE  NewOnly(g, f, <<x>> \o s)
<1> DEFINE S == Piece \cup {Bad}
           r == <<x>> \o s
<1>1. s \in Seq(S) /\ x \in S
  BY DEF NewOnly
<1>2. /\ r \in Seq(S) /\ r[1] = x
      /\ \A j \in DOMAIN r : j = 1 \/ (j - 1 \in DOMAIN s /\ r[j] = s[j - 1])
  <2> HIDE DEF S, r
  <2>1. QED  BY <1>1, Prepend DEF r
<1> HIDE DEF r
<1>3. ASSUME NEW j \in DOMAIN r
      PROVE  r[j] = Bad \/ \E k \in DOMAIN f : r[j] = f[k] /\ IsNew(g, f, k)
  <2>1. CASE j = 1
    BY <1>2, <2>1
  <2>2. CASE j # 1
    <3>1. j - 1 \in DOMAIN s /\ r[j] = s[j - 1]
      BY <1>2, <2>2
    <3>2. QED  BY <3>1 DEF NewOnly
  <2>3. QED  BY <2>1, <2>2
<1>4. QED  BY <1>2, <1>3 DEF NewOnly, r

LEMMA LongerThanNone ==
  ASSUME NEW g, NEW f, NEW s, NewOnly(g, f, s)
  PROVE  Longer(g, f, <<>>, s)
<1>1. s = <<>> \o s
  BY ConcatEmptySeq DEF NewOnly
<1>2. QED  BY <1>1 DEF Longer

LEMMA LongerPrepend ==
  ASSUME NEW g, NEW f, NEW x \in Piece \cup {Bad}, NEW r \in Seq(Piece \cup {Bad}), NEW s,
         Longer(g, f, r, s)
  PROVE  Longer(g, f, <<x>> \o r, <<x>> \o s)
<1> DEFINE S == Piece \cup {Bad}
<1>1. PICK t : NewOnly(g, f, t) /\ s = r \o t
  BY DEF Longer
<1>2. <<x>> \in Seq(S) /\ r \in Seq(S) /\ t \in Seq(S)
  BY <1>1 DEF NewOnly
<1>3. <<x>> \o (r \o t) = (<<x>> \o r) \o t
  BY <1>2, ConcatAssociative
<1>4. QED  BY <1>1, <1>3 DEF Longer

\* From an offset so near the end of g that no header of g follows.
LEMMA ReadsNew ==
  ASSUME NEW g, NEW f, Extends(g, f), NEW o \in Offsets(f), SizeOf(g) < o + HeaderSize
  PROVE  NewOnly(g, f, Reader(f)[o])
<1> DEFINE s == Reader(f)[o]
<1>1. FileOk(f) /\ FileOk(g) /\ SizeOf(g) \in Nat /\ f \in Seq(Piece)
  BY LimitGrows DEF Extends, FileOk
<1>2. Intact(f, o, s)
  BY <1>1, AllIntact
<1>3. o \in Nat
  BY <1>1, GoesOn
<1> HIDE DEF s
<1>4. ASSUME NEW j \in DOMAIN s, s[j] # Bad
      PROVE  \E k \in DOMAIN f : s[j] = f[k] /\ IsNew(g, f, k)
  <2>1. PICK k \in DOMAIN f : s[j] = f[k] /\ Whole(f[k]) /\ o <= HeaderOf(f[k])
    BY <1>2, <1>4 DEF Intact, Readable
  <2>2. ASSUME k \in DOMAIN g, Whole(g[k]) PROVE FALSE
    <3>1. EndOf(g[k]) <= SizeOf(g) /\ g[k] \in Piece
      BY <1>1, <2>2, FileIs
    <3>2. HeaderOf(g[k]) = HeaderOf(f[k])
      BY <2>2, ExtendsIs
    <3>3. /\ HeaderOf(g[k]) \in Nat /\ EndOf(g[k]) \in Nat
          /\ HeaderOf(g[k]) + HeaderSize <= EndOf(g[k])
      BY <2>2, <3>1, PieceIs
    <3>4. QED  BY <1>1, <1>3, <2>1, <3>1, <3>2, <3>3, BlockAssumption
  <2>3. QED  BY <2>1, <2>2 DEF IsNew
<1>5. QED  BY <1>2, <1>4 DEF NewOnly, Intact, s

\* While the limit is that of the block, the file's growth does not move it.
LEMMA SameLimit ==
  ASSUME NEW g, NEW f, Extends(g, f), NEW o \in Offsets(g)
  PROVE  /\ Limit(g, o) \in Nat /\ Limit(f, o) \in Nat /\ Limit(g, o) <= Limit(f, o)
         /\ BlockEnd(o) \in Nat /\ Limit(f, o) <= BlockEnd(o) /\ o < BlockEnd(o)
         /\ Eof(f, o) => Eof(g, o)
         /\ Eof(g, o) => Limit(g, o) = SizeOf(g) /\ SizeOf(g) < BlockEnd(o)
         /\ ~Eof(g, o) => /\ Limit(g, o) = BlockEnd(o) /\ Limit(f, o) = BlockEnd(o) /\ ~Eof(f, o)
                          /\ BlockEnd(o) \in Offsets(g) /\ BlockEnd(o) <= SizeOf(g)
<1>1. /\ SizeOf(g) \in Nat /\ SizeOf(f) \in Nat /\ SizeOf(g) <= SizeOf(f)
      /\ o \in Offsets(f) /\ o \in Nat
  BY LimitGrows
<1>2. BlockEnd(o) \in Nat /\ o < BlockEnd(o)
  BY <1>1, BlockEndIs
<1> DEFINE e == BlockEnd(o)
           a == SizeOf(g)
           b == SizeOf(f)
<1>3. Limit(g, o) = (IF e < a THEN e ELSE a) /\ Limit(f, o) = (IF e < b THEN e ELSE b)
  BY DEF Limit
<1>4. (Eof(g, o) <=> Limit(g, o) < e) /\ (Eof(f, o) <=> Limit(f, o) < e)
  BY DEF Eof
<1>5. ~Eof(g, o) => e \in Offsets(g)
  BY GoesOn DEF Extends, FileOk
<1> HIDE DEF e, a, b
<1>6. e \in Nat /\ o < e /\ a \in Nat /\ b \in Nat /\ a <= b
  BY <1>1, <1>2 DEF e, a, b
<1>7. QED  BY <1>3, <1>4, <1>5, <1>6 DEF e, a, b

\* Where the reader of g met nothing whole, that of f does only at the torn end of g.
LEMMA FoundLater ==
  ASSUME NEW g, NEW f, Extends(g, f), NEW o \in Offsets(g), ~(Limit(g, o) - o < HeaderSize),
         Good(g, o) = {}, NEW j \in Good(f, o)
  PROVE  IsNew(g, f, j) /\ Dying(g, o)
<1>1. FileOk(g) /\ FileOk(f) /\ g \in Seq(Piece) /\ f \in Seq(Piece) /\ o \in Offsets(f) /\ o \in Nat
  BY LimitGrows DEF Extends, FileOk
<1>2. /\ j \in DOMAIN f /\ f[j] \in Piece /\ HeaderOf(f[j]) = o /\ Whole(f[j])
      /\ o + HeaderSize + f[j].len = EndOf(f[j]) /\ EndOf(f[j]) \in Nat
      /\ EndOf(f[j]) <= Limit(f, o)
  BY <1>1, GoesOn
<1>3. /\ Limit(g, o) \in Nat /\ Limit(f, o) \in Nat
      /\ Eof(g, o) => Limit(g, o) = SizeOf(g) /\ SizeOf(g) < BlockEnd(o)
      /\ ~Eof(g, o) => Limit(g, o) = Limit(f, o) /\ BlockEnd(o) <= SizeOf(g) /\ Limit(g, o) = BlockEnd(o)
  BY SameLimit
<1>4. IsNew(g, f, j)
  <2> SUFFICES ASSUME j \in DOMAIN g, Whole(g[j]) PROVE FALSE
    BY <1>2 DEF IsNew
  <2>1. g[j] = f[j] /\ EndOf(g[j]) <= SizeOf(g)
    BY <1>1, FileIs, ExtendsIs
  <2>2. EndOf(g[j]) <= Limit(g, o)
    BY <1>2, <1>3, <2>1
  <2>3. j \in HeadersAt(g, o)
    BY <1>2, <2>1 DEF HeadersAt, HeaderOf
  <2>4. Fits(g, o, j)
    BY <1>2, <2>1, <2>2 DEF Fits
  <2>5. QED  BY <2>3, <2>4 DEF Good
<1>5. SizeOf(g) < EndOf(f[j]) /\ SizeOf(g) \in Nat
  BY <1>4, NewEnd
<1>6. Eof(g, o) /\ Limit(g, o) = SizeOf(g)
  <2>1. Limit(f, o) <= BlockEnd(o) /\ BlockEnd(o) \in Nat
    BY SameLimit
  <2>2. ASSUME ~Eof(g, o) PROVE FALSE
    <3>1. EndOf(f[j]) <= SizeOf(g)
      BY <1>2, <1>3, <1>5, <2>1, <2>2
    <3>2. QED  BY <1>2, <1>5, <3>1
  <2>3. QED  BY <1>3, <2>2
<1>7. /\ f[j].at \in Nat /\ f[j].pad \in Nat /\ f[j].at <= o /\ f[j].len \in Nat
      /\ o = f[j].at + f[j].pad
  BY <1>2, PieceIs DEF HeaderOf
<1>8. j \in DOMAIN g
  <2> SUFFICES ASSUME SizeOf(g) <= f[j].at PROVE FALSE
    BY <1>2, Behind
  <2>1. QED  BY <1>1, <1>5, <1>6, <1>7, BlockAssumption
<1>9. j = Len(g) /\ SizeOf(g) = EndOf(g[j])
  <2>1. ~Whole(g[j])
    BY <1>4, <1>8 DEF IsNew
  <2>2. j # Len(g) => g[j] = f[j]
    BY <1>2, <1>8, Behind
  <2>3. j = Len(g)
    BY <1>2, <2>1, <2>2
  <2>4. QED  BY <1>2, <2>3, Behind
<1>10. /\ g[j].at = f[j].at /\ g[j].pad = f[j].pad /\ g[j].len = f[j].len /\ g[j].kept \in Nat
  BY <1>8, ExtendsIs, PieceIs
<1>11. g[j].kept >= g[j].pad + HeaderSize
  <2>1. SizeOf(g) = f[j].at + g[j].kept
    BY <1>9, <1>10 DEF EndOf
  <2>2. ASSUME NEW at \in Nat, NEW pad \in Nat, NEW kept \in Nat,
               ~((at + kept) - (at + pad) < HeaderSize)
        PROVE  kept >= pad + HeaderSize
    BY <2>2, BlockAssumption
  <2>3. ~((f[j].at + g[j].kept) - (f[j].at + f[j].pad) < HeaderSize)
    BY <1>6, <1>7, <2>1
  <2>4. QED  BY <1>7, <1>10, <2>2, <2>3
<1>12. ~Fits(g, o, j)
  <2>1. o + HeaderSize + g[j].len = EndOf(f[j])
    BY <1>2, <1>10
  <2>2. ~(EndOf(f[j]) <= Limit(g, o))
    BY <1>2, <1>5, <1>6
  <2>3. QED  BY <2>1, <2>2 DEF Fits
<1>13. j \in HeadersAt(g, o)
  BY <1>7, <1>8, <1>10 DEF HeadersAt
<1>14. QED  BY <1>4, <1>6, <1>11, <1>12, <1>13 DEF Dying

\* Where the reader of f stops at a fragment that goes beyond the end, so does that of g.
LEMMA DyingBefore ==
  ASSUME NEW g, NEW f, Extends(g, f), NEW o \in Offsets(g), ~(Limit(g, o) - o < HeaderSize),
         Dying(f, o)
  PROVE  Dying(g, o)
<1>1. FileOk(g) /\ FileOk(f) /\ g \in Seq(Piece) /\ f \in Seq(Piece) /\ o \in Offsets(f) /\ o \in Nat
  BY LimitGrows DEF Extends, FileOk
<1>2. PICK i \in HeadersAt(f, o) : f[i].kept >= f[i].pad + HeaderSize /\ ~Fits(f, o, i)
  BY DEF Dying
<1>3. i \in DOMAIN f /\ f[i] \in Piece /\ f[i].at + f[i].pad = o
  BY <1>1, FileIs DEF HeadersAt
<1>4. f[i].at \in Nat /\ f[i].pad \in Nat /\ f[i].len \in Nat /\ f[i].at <= o
  BY <1>3, PieceIs
<1>5. /\ Eof(g, o) /\ Limit(g, o) = SizeOf(g) /\ Limit(g, o) <= Limit(f, o)
      /\ Limit(g, o) \in Nat /\ Limit(f, o) \in Nat
  BY SameLimit DEF Dying
<1>6. i \in DOMAIN g
  <2> SUFFICES ASSUME SizeOf(g) <= f[i].at PROVE FALSE
    BY <1>3, Behind
  <2>1. QED  BY <1>1, <1>4, <1>5, BlockAssumption
<1>7. /\ g[i].at = f[i].at /\ g[i].pad = f[i].pad /\ g[i].len = f[i].len /\ g[i].kept \in Nat
  BY <1>6, ExtendsIs, PieceIs
<1>8. g[i].kept >= g[i].pad + HeaderSize
  <2>1. CASE i = Len(g)
    <3>1. SizeOf(g) = f[i].at + g[i].kept
      BY <1>3, <1>7, <2>1, Behind DEF EndOf
    <3>2. ASSUME NEW at \in Nat, NEW pad \in Nat, NEW kept \in Nat,
                 ~((at + kept) - (at + pad) < HeaderSize)
          PROVE  kept >= pad + HeaderSize
      BY <3>2, BlockAssumption
    <3>3. ~((f[i].at + g[i].kept) - (f[i].at + f[i].pad) < HeaderSize)
      BY <1>3, <1>5, <3>1
    <3>4. QED  BY <1>4, <1>7, <3>2, <3>3
  <2>2. CASE i # Len(g)
    <3>1. g[i] = f[i]
      BY <1>3, <1>6, <2>2, Behind
    <3>2. QED  BY <1>2, <3>1
  <2>3. QED  BY <2>1, <2>2
<1>9. ~Fits(g, o, i)
  <2>1. ~(o + HeaderSize + f[i].len <= Limit(f, o))
    BY <1>2 DEF Fits
  <2>2. o + HeaderSize + f[i].len \in Nat
    BY <1>1, <1>4, BlockAssumption
  <2>3. ~(o + HeaderSize + f[i].len <= Limit(g, o))
    BY <1>5, <2>1, <2>2
  <2>4. QED  BY <1>7, <2>3 DEF Fits
<1>10. i \in HeadersAt(g, o)
  BY <1>3, <1>6, <1>7 DEF HeadersAt
<1>11. QED  BY <1>5, <1>8, <1>9, <1>10 DEF Dying

LEMMA ReadLonger ==
  ASSUME NEW g, NEW f, Extends(g, f)
  PROVE  Longer(g, f, Reader(g)[0], Reader(f)[0])
<1> DEFINE r == Reader(g)
           s == Reader(f)
           T == {o \in Offsets(g) : Longer(g, f, r[o], s[o])}
           top == SizeOf(g) + BlockSize
           S == Piece \cup {Bad}
<1>1. /\ FileOk(g) /\ FileOk(f) /\ g \in Seq(Piece) /\ f \in Seq(Piece)
      /\ SizeOf(g) \in Nat /\ top \in Nat /\ Offsets(g) = 0..top
      /\ \A o \in Offsets(g) : o \in Offsets(f) /\ o \in Nat
  BY LimitGrows, BlockAssumption DEF Extends, FileOk, Offsets
<1>2. ASSUME NEW o \in 0..top, \A p \in 0..top : o < p => p \in T
      PROVE  Longer(g, f, r[o], s[o])
  <2> DEFINE e == BlockEnd(o)
  <2>1. /\ o \in Offsets(g) /\ o \in Offsets(f) /\ o \in Nat
        /\ Limit(g, o) \in Nat /\ Limit(f, o) \in Nat /\ Limit(g, o) <= Limit(f, o)
        /\ e \in Nat /\ Limit(f, o) <= e /\ o < e
        /\ Eof(f, o) => Eof(g, o)
        /\ Eof(g, o) => Limit(g, o) = SizeOf(g) /\ SizeOf(g) < e
        /\ ~Eof(g, o) => /\ Limit(g, o) = e /\ Limit(f, o) = e /\ ~Eof(f, o)
                         /\ e \in Offsets(g) /\ e <= SizeOf(g)
    BY <1>1, SameLimit
  <2>2. ~Eof(g, o) => Longer(g, f, r[e], s[e]) /\ r[e] \in Seq(S) /\ s[e] \in Seq(S)
    BY <1>1, <1>2, <2>1, AllIntact DEF Intact
  <2>3. ~Eof(f, o) => e \in Offsets(f)
    BY <1>1, <2>1, GoesOn
  <2> HIDE DEF T, top, e
  <2>4. Eof(g, o) /\ ~Eof(f, o) => NewOnly(g, f, s[e])
    <3> SUFFICES ASSUME Eof(g, o), ~Eof(f, o) PROVE NewOnly(g, f, s[e])
      OBVIOUS
    <3>1. SizeOf(g) < e + HeaderSize
      BY <1>1, <2>1, BlockAssumption
    <3>2. QED  BY <2>3, <3>1, ReadsNew
  <2>5. CASE Limit(g, o) - o < HeaderSize /\ Eof(g, o)
    <3>1. r[o] = <<>>
      BY <1>1, <2>1, <2>5, ReadIs
    <3>2. SizeOf(g) < o + HeaderSize
      BY <1>1, <2>1, <2>5, BlockAssumption
    <3>3. NewOnly(g, f, s[o])
      BY <2>1, <3>2, ReadsNew
    <3> HIDE DEF r, s
    <3>4. QED  BY <3>1, <3>3, LongerThanNone
  <2>6. CASE Limit(g, o) - o < HeaderSize /\ ~Eof(g, o)
    <3>1. r[o] = r[e] /\ s[o] = s[e]
      BY <1>1, <2>1, <2>6, ReadIs DEF e
    <3>2. QED  BY <2>2, <2>6, <3>1
  <2>7. CASE Good(g, o) # {}
    <3>1. PICK i \in Good(g, o) : TRUE
      BY <2>7
    <3>2. /\ i \in DOMAIN g /\ g[i] \in Piece /\ Whole(g[i]) /\ EndOf(g[i]) \in Offsets(g)
          /\ o < EndOf(g[i])
      BY <1>1, <2>1, GoesOn
    <3>3. g[i] = f[i] /\ i \in DOMAIN f /\ Whole(f[i])
      BY <3>2, ExtendsIs
    <3>4. i \in Good(f, o)
      <4>1. o + HeaderSize + g[i].len <= Limit(g, o) /\ g[i].len \in Nat /\ g[i].at + g[i].pad = o
        BY <3>1, <3>2, PieceIs DEF Good, Fits, HeadersAt
      <4>2. o + HeaderSize + f[i].len <= Limit(f, o)
        BY <2>1, <3>3, <4>1, BlockAssumption
      <4>3. QED  BY <3>3, <4>1, <4>2 DEF Good, Fits, HeadersAt
    <3>5. r[o] = <<g[i]>> \o r[EndOf(g[i])] /\ s[o] = <<f[i]>> \o s[EndOf(f[i])]
      BY <1>1, <2>1, <3>1, <3>4, ReadIs
    <3>6. r[EndOf(g[i])] \in Seq(S) /\ Longer(g, f, r[EndOf(g[i])], s[EndOf(g[i])])
      BY <1>1, <1>2, <3>2, AllIntact DEF T, Intact
    <3> HIDE DEF r, s
    <3>7. QED  BY <3>2, <3>3, <3>5, <3>6, LongerPrepend
  <2>8. CASE ~(Limit(g, o) - o < HeaderSize) /\ Good(g, o) = {}
    <3>1. r[o] = IF Dying(g, o) THEN <<>> ELSE <<Bad>> \o (IF Eof(g, o) THEN <<>> ELSE r[e])
      BY <1>1, <2>1, <2>8, ReadIs DEF e
    <3>2. ~(Limit(f, o) - o < HeaderSize)
      BY <2>1, <2>8, BlockAssumption
    <3>3. Good(f, o) = {} =>
            s[o] = IF Dying(f, o) THEN <<>> ELSE <<Bad>> \o (IF Eof(f, o) THEN <<>> ELSE s[e])
      BY <1>1, <2>1, <3>2, ReadIs DEF e
    <3>4. Bad \in S
      OBVIOUS
    <3> HIDE DEF S
    <3>5. CASE Dying(g, o)
      <4>1. Eof(g, o) /\ r[o] = <<>>
        BY <3>1, <3>5 DEF Dying
      <4>2. CASE Good(f, o) # {}
        <5>1. PICK j \in Good(f, o) : TRUE
          BY <4>2
        <5>2. IsNew(g, f, j)
          BY <2>1, <2>8, FoundLater
        <5>3. /\ j \in DOMAIN f /\ f[j] \in Piece /\ EndOf(f[j]) \in Offsets(f)
              /\ EndOf(f[j]) \in Nat /\ SizeOf(g) < EndOf(f[j])
          BY <1>1, <2>1, <5>1, <5>2, GoesOn, NewEnd
        <5>4. SizeOf(g) < EndOf(f[j]) + HeaderSize
          BY <1>1, <5>3, BlockAssumption
        <5>5. NewOnly(g, f, s[EndOf(f[j])])
          BY <5>3, <5>4, ReadsNew
        <5>6. s[o] = <<f[j]>> \o s[EndOf(f[j])]
          BY <1>1, <2>1, <5>1, ReadIs
        <5> HIDE DEF r, s
        <5>7. NewOnly(g, f, s[o])
          BY <5>2, <5>3, <5>5, <5>6, NewOnlyPrepend DEF S
        <5>8. QED  BY <4>1, <5>7, LongerThanNone
      <4>3. CASE Good(f, o) = {}
        <5>1. s[o] = <<>> \/ s[o] = <<Bad>> \o <<>> \/ (~Eof(f, o) /\ s[o] = <<Bad>> \o s[e])
          BY <3>3, <4>3
        <5> HIDE DEF r, s
        <5>2. NewOnly(g, f, <<Bad>> \o <<>>)
          BY <3>4, NewOnlyNone, NewOnlyPrepend DEF S
        <5>3. ~Eof(f, o) => NewOnly(g, f, <<Bad>> \o s[e])
          BY <2>4, <3>4, <4>1, NewOnlyPrepend DEF S
        <5>4. NewOnly(g, f, s[o])
          BY <5>1, <5>2, <5>3, NewOnlyNone
        <5>5. QED  BY <4>1, <5>4, LongerThanNone
      <4>4. QED  BY <4>2, <4>3
    <3>6. CASE ~Dying(g, o)
      <4>1. Good(f, o) = {}
        BY <2>1, <2>8, <3>6, FoundLater
      <4>2. ~Dying(f, o)
        BY <2>1, <2>8, <3>6, DyingBefore
      <4>3. /\ r[o] = <<Bad>> \o (IF Eof(g, o) THEN <<>> ELSE r[e])
            /\ s[o] = <<Bad>> \o (IF Eof(f, o) THEN <<>> ELSE s[e])
        BY <3>1, <3>3, <3>6, <4>1, <4>2
      <4> HIDE DEF r, s
      <4>4. CASE Eof(g, o)
        <5>1. NewOnly(g, f, IF Eof(f, o) THEN <<>> ELSE s[e])
          BY <2>4, <4>4, NewOnlyNone
        <5>2. Longer(g, f, <<>>, IF Eof(f, o) THEN <<>> ELSE s[e])
          BY <5>1, LongerThanNone
        <5>3. <<>> \in Seq(S)
          OBVIOUS
        <5>4. Longer(g, f, <<Bad>> \o <<>>, <<Bad>> \o (IF Eof(f, o) THEN <<>> ELSE s[e]))
          BY <3>4, <5>2, <5>3, LongerPrepend DEF S
        <5>5. QED  BY <4>3, <4>4, <5>4
      <4>5. CASE ~Eof(g, o)
        <5>1. s[o] = <<Bad>> \o s[e] /\ r[o] = <<Bad>> \o r[e]
          BY <2>1, <4>3, <4>5
        <5>2. Longer(g, f, <<Bad>> \o r[e], <<Bad>> \o s[e])
          BY <2>2, <3>4, <4>5, LongerPrepend DEF S
        <5>3. QED  BY <5>1, <5>2
      <4>6. QED  BY <4>4, <4>5
    <3>7. QED  BY <3>5, <3>6
  <2>9. QED  BY <2>5, <2>6, <2>7, <2>8
<1>3. \A o \in 0..top : (\A p \in 0..top : o < p => p \in T) => o \in T
  BY <1>1, <1>2
<1>4. 0 \in T
  <2> HIDE DEF T, top
  <2>1. \A o \in 0..top : o \in T
    BY <1>1, <1>3, Downwards
  <2>2. QED  BY <1>1, <2>1
<1>5. QED  BY <1>4
(***************************************************************************)
(* The records of a file and of a longer one.                              *)
(***************************************************************************)
RecordsOf(met) == {met[r[2]].rec : r \in Returned(met)}

LEMMA ReadRecordsIs == ReadRecords = RecordsOf(Reader(file)[0])
<1>1. ReadRecords = RecordsOf(Physical)
  BY DEF ReadRecords, RecordsOf
<1>2. QED  BY <1>1, PhysicalIs

LEMMA ConcatIs ==
  ASSUME NEW S, NEW r \in Seq(S), NEW t \in Seq(S)
  PROVE  /\ \A j \in DOMAIN r : j \in DOMAIN (r \o t) /\ (r \o t)[j] = r[j]
         /\ \A j \in DOMAIN (r \o t) :
              /\ j \in Nat /\ j >= 1 /\ Len(r) \in Nat
              /\ j <= Len(r) <=> j \in DOMAIN r
              /\ ~(j <= Len(r)) => j - Len(r) \in DOMAIN t /\ (r \o t)[j] = t[j - Len(r)]
<1>1. \A j \in DOMAIN r : j \in DOMAIN (r \o t) /\ (r \o t)[j] = r[j]
  OBVIOUS
<1>2. Len(r) \in Nat /\ \A j \in DOMAIN (r \o t) : j \in Nat /\ j >= 1
  OBVIOUS
<1>3. \A j \in DOMAIN (r \o t) : j <= Len(r) <=> j \in DOMAIN r
  OBVIOUS
<1>4. \A j \in DOMAIN (r \o t) :
        ~(j <= Len(r)) => j - Len(r) \in DOMAIN t /\ (r \o t)[j] = t[j - Len(r)]
  OBVIOUS
<1>5. QED  BY <1>1, <1>2, <1>3, <1>4

LEMMA ReturnedEnd ==
  ASSUME NEW f, FileOk(f), NEW o, NEW met, Intact(f, o, met), NEW r \in Returned(met)
  PROVE  r[2] \in DOMAIN met /\ met[r[2]] # Bad /\ met[r[2]].type \in {"full", "last"}
<1>1. /\ r[1] \in DOMAIN met /\ r[2] \in DOMAIN met /\ r[1] <= r[2]
      /\ met[r[2]].type \in {"full", "last"} /\ \A j \in r[1]..r[2] : met[j] # Bad
  BY ReturnedWhole
<1>2. r[1] \in Nat /\ r[2] \in Nat
  BY <1>1, MetIs
<1>3. r[2] \in r[1]..r[2]
  BY <1>1, <1>2
<1>4. QED  BY <1>1, <1>3

\* What is returned of a longer file: the same records, and then new ones.
LEMMA RecordsGrow ==
  ASSUME NEW g, NEW f, Extends(g, f)
  PROVE  /\ RecordsOf(Reader(g)[0]) \subseteq RecordsOf(Reader(f)[0])
         /\ \A x \in RecordsOf(Reader(g)[0]) :
              \E i \in DOMAIN g : /\ x = g[i].rec /\ Whole(g[i]) /\ g[i].type \in {"full", "last"}
         /\ \A x \in RecordsOf(Reader(f)[0]) \ RecordsOf(Reader(g)[0]) :
              \E k \in DOMAIN f : /\ IsNew(g, f, k) /\ x = f[k].rec
                                  /\ f[k].type \in {"full", "last"}
<1> DEFINE m == Reader(g)[0]
           M == Reader(f)[0]
           S == Piece \cup {Bad}
<1>1. FileOk(g) /\ FileOk(f) /\ 0 \in Offsets(g) /\ 0 \in Offsets(f)
  BY LimitGrows, BlockAssumption DEF Extends, Offsets
<1>2. Intact(g, 0, m) /\ Intact(f, 0, M)
  BY <1>1, AllIntact
<1>3. PICK t : NewOnly(g, f, t) /\ M = m \o t
  BY ReadLonger DEF Longer
<1>4. m \in Seq(S) /\ t \in Seq(S)
  BY <1>2, <1>3 DEF Intact, NewOnly
<1> HIDE DEF m, M, S
<1>5. /\ \A j \in DOMAIN m : j \in DOMAIN M /\ M[j] = m[j]
      /\ \A j \in DOMAIN M : /\ j \in Nat /\ j >= 1 /\ Len(m) \in Nat
                             /\ j <= Len(m) <=> j \in DOMAIN m
                             /\ ~(j <= Len(m)) => j - Len(m) \in DOMAIN t /\ M[j] = t[j - Len(m)]
  BY <1>3, <1>4, ConcatIs
<1>6. ASSUME NEW a \in DOMAIN m, NEW b \in DOMAIN m, a <= b
      PROVE  \A j \in a..b : j \in DOMAIN m /\ m[j] = M[j]
  BY <1>4, <1>5, <1>6
<1>7. \A a, b \in DOMAIN m : a < b => (Begins(m, a, b) <=> Begins(M, a, b))
  <2> SUFFICES ASSUME NEW a \in DOMAIN m, NEW b \in DOMAIN m, a < b
               PROVE  Begins(m, a, b) <=> Begins(M, a, b)
    OBVIOUS
  <2>1. a \in Nat /\ b \in Nat
    BY <1>5
  <2>2. \A j \in (a + 1)..(b - 1) : j \in a..b
    BY <2>1
  <2>3. m[a] = M[a] /\ \A j \in (a + 1)..(b - 1) : m[j] = M[j]
    BY <1>5, <1>6, <2>1, <2>2
  <2>4. QED  BY <2>3 DEF Begins
<1>8. \A r \in Returned(m) : r \in Returned(M)
  <2> SUFFICES ASSUME NEW r \in Returned(m) PROVE r \in Returned(M)
    OBVIOUS
  <2>1. CASE \E i \in DOMAIN m : r = <<i, i>> /\ m[i].type = "full"
    BY <1>5, <2>1 DEF Returned
  <2>2. CASE /\ r \in (DOMAIN m) \X (DOMAIN m) /\ r[1] < r[2] /\ m[r[2]].type = "last"
             /\ Begins(m, r[1], r[2])
    <3>1. r \in (DOMAIN M) \X (DOMAIN M) /\ M[r[2]].type = "last" /\ Begins(M, r[1], r[2])
      BY <1>5, <1>7, <2>2
    <3>2. QED  BY <2>2, <3>1 DEF Returned
  <2>3. QED  BY <2>1, <2>2 DEF Returned
<1>9. ASSUME NEW r \in Returned(M), r[2] \in DOMAIN m PROVE r \in Returned(m)
  <2>1. CASE \E i \in DOMAIN M : r = <<i, i>> /\ M[i].type = "full"
    BY <1>5, <1>9, <2>1 DEF Returned
  <2>2. CASE /\ r \in (DOMAIN M) \X (DOMAIN M) /\ r[1] < r[2] /\ M[r[2]].type = "last"
             /\ Begins(M, r[1], r[2])
    <3>1. r[1] \in DOMAIN m
      <4>1. r[1] \in DOMAIN M /\ r[2] \in DOMAIN M
        BY <2>2
      <4>2. r[1] <= Len(m)
        BY <1>5, <1>9, <2>2, <4>1
      <4>3. QED  BY <1>5, <4>1, <4>2
    <3>2. r \in (DOMAIN m) \X (DOMAIN m) /\ m[r[2]].type = "last" /\ Begins(m, r[1], r[2])
      BY <1>5, <1>7, <1>9, <2>2, <3>1
    <3>3. QED  BY <2>2, <3>2 DEF Returned
  <2>3. QED  BY <2>1, <2>2 DEF Returned
<1>10. \A r \in Returned(m) : /\ r[2] \in DOMAIN m /\ m[r[2]] # Bad
                              /\ m[r[2]].type \in {"full", "last"}
  BY <1>1, <1>2, ReturnedEnd
<1>11. \A r \in Returned(M) : /\ r[2] \in DOMAIN M /\ M[r[2]] # Bad
                              /\ M[r[2]].type \in {"full", "last"}
  BY <1>1, <1>2, ReturnedEnd
<1>12. RecordsOf(m) \subseteq RecordsOf(M)
  BY <1>5, <1>8, <1>10 DEF RecordsOf
<1>13. ASSUME NEW x \in RecordsOf(m)
       PROVE  \E i \in DOMAIN g : x = g[i].rec /\ Whole(g[i]) /\ g[i].type \in {"full", "last"}
  <2>1. PICK r \in Returned(m) : x = m[r[2]].rec
    BY DEF RecordsOf
  <2>2. r[2] \in DOMAIN m /\ m[r[2]] # Bad /\ m[r[2]].type \in {"full", "last"}
    BY <1>10
  <2>3. QED  BY <1>2, <2>1, <2>2 DEF Intact, Readable
<1>14. ASSUME NEW x \in RecordsOf(M), x \notin RecordsOf(m)
       PROVE  \E k \in DOMAIN f : IsNew(g, f, k) /\ x = f[k].rec /\ f[k].type \in {"full", "last"}
  <2>1. PICK r \in Returned(M) : x = M[r[2]].rec
    BY DEF RecordsOf
  <2>2. r[2] \in DOMAIN M /\ M[r[2]] # Bad /\ M[r[2]].type \in {"full", "last"}
    BY <1>11
  <2>3. r[2] \notin DOMAIN m
    <3> SUFFICES ASSUME r[2] \in DOMAIN m PROVE FALSE
      OBVIOUS
    <3>1. r \in Returned(m) /\ M[r[2]] = m[r[2]]
      BY <1>5, <1>9
    <3>2. QED  BY <1>14, <2>1, <3>1 DEF RecordsOf
  <2>4. r[2] - Len(m) \in DOMAIN t /\ M[r[2]] = t[r[2] - Len(m)]
    BY <1>5, <2>2, <2>3
  <2>5. QED  BY <1>3, <2>1, <2>2, <2>4 DEF NewOnly
<1>15. QED  BY <1>12, <1>13, <1>14 DEF m, M

\* What a file has lost are its last records.
LEMMA LosesLast ==
  ASSUME NEW g, NEW f, Extends(g, f)
  PROVE  /\ RecordsOf(Reader(g)[0]) \subseteq RecordsOf(Reader(f)[0])
         /\ \A r \in RecordsOf(Reader(g)[0]),
               q \in RecordsOf(Reader(f)[0]) \ RecordsOf(Reader(g)[0]) : r < q
<1>1. ASSUME NEW r \in RecordsOf(Reader(g)[0]),
             NEW q \in RecordsOf(Reader(f)[0]) \ RecordsOf(Reader(g)[0])
      PROVE  r < q
  <2>1. PICK i \in DOMAIN g : r = g[i].rec /\ Whole(g[i]) /\ g[i].type \in {"full", "last"}
    BY RecordsGrow
  <2>2. PICK k \in DOMAIN f : IsNew(g, f, k) /\ q = f[k].rec /\ f[k].type \in {"full", "last"}
    BY RecordsGrow
  <2>3. i < k
    BY <2>1, <2>2, NewEnd
  <2>4. g[i] = f[i] /\ i \in DOMAIN f
    BY <2>1, ExtendsIs
  <2>5. Sorted(f[i], f[k])
    BY <2>3, <2>4 DEF Extends, FileOk
  <2>6. QED  BY <2>1, <2>2, <2>4, <2>5 DEF Sorted
<1>2. QED  BY <1>1, RecordsGrow

LEMMA AppendExtends ==
  ASSUME NEW g, NEW w \in Piece, FileOk(g), FileOk(Append(g, w))
  PROVE  /\ Extends(g, Append(g, w))
         /\ \A k : IsNew(g, Append(g, w), k) => k = Len(g) + 1 /\ Append(g, w)[k] = w /\ Whole(w)
<1> DEFINE f == Append(g, w)
<1>1. g \in Seq(Piece)
  BY DEF FileOk
<1>2. /\ Len(g) \in Nat /\ Len(f) = Len(g) + 1 /\ f[Len(g) + 1] = w
      /\ \A i \in DOMAIN g : i \in DOMAIN f /\ f[i] = g[i] /\ i <= Len(g)
      /\ \A i \in DOMAIN f : i \in Nat /\ i >= 1 /\ (i = Len(g) + 1 \/ i \in DOMAIN g)
  BY <1>1, Appended
<1> HIDE DEF f
<1>3. \A i \in DOMAIN g : g[i].kept <= f[i].kept
  <2> SUFFICES ASSUME NEW i \in DOMAIN g PROVE g[i].kept <= f[i].kept
    OBVIOUS
  <2>1. g[i] \in Piece /\ f[i] = g[i]
    BY <1>2, FileIs
  <2>2. g[i].kept \in Nat
    BY <2>1, PieceIs
  <2>3. QED  BY <2>1, <2>2
<1>4. Len(g) <= Len(f)
  BY <1>2
<1>5. Extends(g, f)
  BY <1>2, <1>3, <1>4 DEF Extends, f
<1>6. \A k : IsNew(g, f, k) => k = Len(g) + 1 /\ f[k] = w /\ Whole(w)
  BY <1>2 DEF IsNew
<1>7. QED  BY <1>5, <1>6 DEF f

LEMMA CutExtends ==
  ASSUME FileOk(file), NEW n \in 1..Len(file), NEW kept \in 1..file[n].kept,
         NEW g, g = FirstPieces(n, kept)
  PROVE  Extends(g, file)
<1>1. /\ FileOk(g) /\ Len(g) = n /\ DOMAIN g = 1..n /\ g[n].kept = kept
      /\ \A i \in 1..n : /\ i \in DOMAIN file /\ (i # n => g[i] = file[i])
                         /\ g[i].rec = file[i].rec /\ g[i].part = file[i].part
                         /\ g[i].type = file[i].type /\ g[i].at = file[i].at
                         /\ g[i].pad = file[i].pad /\ g[i].len = file[i].len
                         /\ g[i].kept <= file[i].kept /\ Bytes(g[i]) = Bytes(file[i])
  BY FileCut
<1>2. n \in Nat /\ n <= Len(file) /\ n \in DOMAIN file /\ file \in Seq(Piece)
  BY DEF FileOk
<1>3. ASSUME NEW i \in 1..n, i < n \/ Whole(g[i]) PROVE g[i] = file[i]
  <2>1. CASE i < n
    BY <1>1, <1>2, <2>1
  <2>2. CASE i = n
    <3>1. g[n] = [file[n] EXCEPT !.kept = kept] /\ file[n] \in Piece
      BY <1>2 DEF FirstPieces
    <3>2. PieceOk(file[n]) /\ file[n].kept \in Nat /\ Bytes(file[n]) \in Nat
      BY <1>2, <3>1, FileIs, PieceIs
    <3>3. kept = Bytes(file[n])
      BY <1>1, <1>2, <1>3, <2>2 DEF Whole
    <3>4. kept = file[n].kept
      BY <3>2, <3>3 DEF PieceOk
    <3>5. QED  BY <2>2, <3>1, <3>4 DEF Piece
  <2>3. QED  BY <1>2, <1>3, <2>1, <2>2
<1>4. QED  BY <1>1, <1>2, <1>3 DEF Extends

LEMMA NoneExtends ==
  ASSUME NEW f, FileOk(f)
  PROVE  Extends(<<>>, f)
<1>1. FileOk(<<>>)
  BY DEF FileOk
<1>2. Len(f) \in Nat
  BY DEF FileOk
<1>3. QED  BY <1>1, <1>2 DEF Extends

\* The last record of a file that is not Broken is read, if its last fragment is
\* there.
LEMMA LastIsRead ==
  ASSUME ShapeInv, ~Broken, file # <<>>, Whole(file[Len(file)]),
         file[Len(file)].type \in {"full", "last"}
  PROVE  file[Len(file)].rec \in ReadRecords
<1> DEFINE n == Len(file)
           met == Physical
<1>1. FileOk(file) /\ file \in Seq(Piece) /\ Complete(file) = n
  BY DEF ShapeInv, Shape, FileOk, Complete
<1>2. n \in Nat /\ n >= 1 /\ n \in 1..n /\ n \in DOMAIN file
  BY <1>1
<1>3. /\ DOMAIN met = 1..n /\ \A j \in 1..n : met[j] = file[j]
      /\ file[n].part > 1 => Fragmented(met, n)
  BY <1>1, <1>2, SoundReads
<1> HIDE DEF met, n
<1>4. \E r \in Returned(met) : r[2] = n
  <2>1. CASE file[n].type = "full"
    <3>1. n \in DOMAIN met /\ met[n].type = "full"
      BY <1>2, <1>3, <2>1
    <3>2. <<n, n>> \in Returned(met) /\ <<n, n>>[2] = n
      BY <3>1 DEF Returned
    <3>3. QED  BY <3>2
  <2>2. CASE file[n].type = "last"
    <3>1. file[n] \in Piece /\ PieceOk(file[n])
      BY <1>1, <1>2, FileIs
    <3>2. file[n].part > 1
      <4>1. file[n].part \in Nat /\ file[n].part > 0
        BY <3>1 DEF Piece
      <4>2. file[n].part # 1
        BY <2>2, <3>1 DEF PieceOk
      <4>3. QED  BY <4>1, <4>2
    <3>3. PICK j \in 1..(n - 1) : Begins(met, j, n)
      BY <1>3, <3>2 DEF Fragmented
    <3>4. j \in DOMAIN met /\ n \in DOMAIN met /\ j < n /\ met[n].type = "last"
      BY <1>2, <1>3, <2>2, <3>3
    <3>5. <<j, n>> \in Returned(met)
      BY <3>3, <3>4 DEF Returned
    <3>6. QED  BY <3>5
  <2>3. QED  BY <2>1, <2>2 DEF n
<1>5. PICK r \in Returned(met) : r[2] = n
  BY <1>4
<1>6. met[r[2]].rec = file[n].rec
  BY <1>2, <1>3, <1>5
<1>7. file[n].rec \in ReadRecords
  BY <1>6 DEF ReadRecords, met
<1>8. QED  BY <1>7 DEF n

LEMMA BrokenStays ==
  ASSUME TypeOK, Broken, NEW w, file' = Append(file, w), faults' = faults
  PROVE  Broken'
<1>1. file \in Seq(Piece) /\ Len(file) \in Nat
  BY DEF TypeOK
<1>2. CASE faults > 0
  BY <1>2 DEF Broken
<1>3. CASE \E i \in 1..(Len(file) - 1) : Unfinished(i)
  <2>1. PICK i \in 1..(Len(file) - 1) : Unfinished(i)
    BY <1>3
  <2>2. Len(file') = Len(file) + 1 /\ i \in 1..(Len(file') - 1)
    BY <1>1
  <2>3. file'[i] = file[i] /\ file'[i + 1] = file[i + 1]
    BY <1>1
  <2>4. Unfinished(i)'
    BY <2>1, <2>3 DEF Unfinished, Whole, Bytes
  <2>5. QED  BY <2>2, <2>4 DEF Broken
<1>4. QED  BY <1>2, <1>3 DEF Broken

LEMMA InitRecords == Init => ReadRecords = {} /\ acked = {} /\ ~Broken
<1> SUFFICES ASSUME Init PROVE ReadRecords = {} /\ acked = {} /\ ~Broken
  OBVIOUS
<1>1. file = <<>> /\ acked = {} /\ faults = 0
  BY DEF Init
<1>2. FileOk(<<>>) /\ SizeOf(<<>>) = 0
  BY DEF FileOk, SizeOf
<1>3. Reader(file)[0] = <<>>
  BY <1>1, <1>2, ReadsEnd
<1>4. Returned(<<>>) = {}
  BY DEF Returned
<1>5. RecordsOf(<<>>) = {}
  BY <1>4 DEF RecordsOf
<1>6. ~Broken
  BY <1>1 DEF Broken
<1>7. QED  BY <1>1, <1>3, <1>5, <1>6, ReadRecordsIs

LEMMA RecordsStep ==
  ASSUME ShapeInv, ShapeInv', [Next]_vars
  PROVE  Log!Add \/ Log!Lose
<1> DEFINE R == ReadRecords
<1>1. TypeOK /\ Shape /\ FileOk(file) /\ AddingOk
  BY DEF ShapeInv, IInv, Shape
<1>2. ReadRecords = RecordsOf(Reader(file)[0]) /\ ReadRecords' = RecordsOf(Reader(file')[0])
  <2>1. ReadRecords = RecordsOf(Reader(file)[0])
    BY ReadRecordsIs
  <2>2. (ReadRecords = RecordsOf(Reader(file)[0]))'
    BY ReadRecordsIs, PTL
  <2>3. QED  BY <2>1, <2>2
<1>3. CASE acked' = acked /\ file' = file
  <2>1. ReadRecords' = ReadRecords
    BY <1>2, <1>3
  <2>2. QED  BY <1>3, <2>1 DEF Log!Lose
<1>4. CASE Crash
  <2>1. acked' = acked
    BY <1>4 DEF Crash
  <2>2. Extends(file', file)
    <3>1. CASE file' = <<>>
      BY <1>1, <3>1, NoneExtends
    <3>2. ASSUME NEW n \in 1..Len(file), NEW kept \in 1..file[n].kept, file' = FirstPieces(n, kept)
          PROVE  Extends(file', file)
      BY <1>1, <3>2, CutExtends
    <3>3. QED  BY <1>4, <3>1, <3>2 DEF Crash
  <2>3. /\ ReadRecords' \subseteq ReadRecords
        /\ \A r \in ReadRecords', q \in ReadRecords \ ReadRecords' : r < q
    BY <1>2, <2>2, LosesLast
  <2>4. QED  BY <2>1, <2>3 DEF Log!Lose
<1>5. CASE EmitPhysicalRecord \/ EmitFails
  <2>1. \/ file' = file /\ EmitFails
        \/ \E kept \in 1..Bytes(NextPiece) :
             /\ file' = Append(file, Written(NextPiece, kept)) /\ adding.part > 0
             /\ IF kept = Bytes(NextPiece) THEN EmitPhysicalRecord ELSE EmitFails
    BY <1>1, <1>5, NewFile
  <2>2. CASE file' = file /\ EmitFails
    BY <1>3, <2>2 DEF EmitFails
  <2>3. ASSUME NEW kept \in 1..Bytes(NextPiece),
               file' = Append(file, Written(NextPiece, kept)), adding.part > 0,
               IF kept = Bytes(NextPiece) THEN EmitPhysicalRecord ELSE EmitFails
        PROVE  Log!Add \/ Log!Lose
    <3> DEFINE w == Written(NextPiece, kept)
    <3>1. /\ FileOk(Append(file, w)) /\ w \in Piece /\ w.rec = added
          /\ w.type \in {"full", "last"} <=> NextPiece.len = adding.left
          /\ Whole(w) <=> kept = Bytes(NextPiece)
      BY <1>1, <2>3, WrittenIs
    <3> HIDE DEF w
    <3>2. Extends(file, file') /\ file' = Append(file, w)
          /\ \A k : IsNew(file, file', k) => k = Len(file) + 1 /\ file'[k] = w /\ Whole(w)
      BY <1>1, <2>3, <3>1, AppendExtends DEF w
    <3>3. /\ ReadRecords \subseteq ReadRecords'
          /\ \A x \in ReadRecords' \ ReadRecords :
               \E k \in DOMAIN file' : /\ IsNew(file, file', k) /\ x = file'[k].rec
                                       /\ file'[k].type \in {"full", "last"}
      <4> DEFINE old == RecordsOf(Reader(file)[0])
                 new == RecordsOf(Reader(file')[0])
      <4>1. /\ old \subseteq new
            /\ \A x \in new \ old :
                 \E k \in DOMAIN file' : /\ IsNew(file, file', k) /\ x = file'[k].rec
                                         /\ file'[k].type \in {"full", "last"}
        <5>1. Extends(file, file')
          BY <3>2
        <5>2. QED  BY <5>1, RecordsGrow, Zenon
      <4>2. ReadRecords = old /\ ReadRecords' = new
        BY <1>2
      <4> HIDE DEF old, new
      <4>3. QED  BY <4>1, <4>2
    <3>4. \A x \in ReadRecords' \ ReadRecords : 
            x = added /\ kept = Bytes(NextPiece) /\ NextPiece.len = adding.left
      BY <3>1, <3>2, <3>3
    <3>5. CASE kept = Bytes(NextPiece) /\ NextPiece.len = adding.left
      <4>1. EmitPhysicalRecord
        BY <2>3, <3>5
      <4>2. adding.rec = added /\ added \notin acked /\ acked \subseteq 1..added /\ added \in Nat
        BY <1>1, <2>3 DEF AddingOk, TypeOK
      <4>3. acked' = acked \cup {added} /\ faults' = faults
        BY <3>5, <4>1, <4>2 DEF EmitPhysicalRecord
      <4>4. \A q \in acked : q < added
        BY <4>2
      <4>5. Broken => Broken'
        BY <1>1, <3>2, <4>3, BrokenStays
      <4>6. ~Broken' => added \in ReadRecords'
        <5>1. /\ file' # <<>> /\ file'[Len(file')] = w
          BY <1>1, <3>1, <3>2, Appended DEF FileOk
        <5>2. Whole(w) /\ w.type \in {"full", "last"}
          BY <3>1, <3>5
        <5>3. (/\ ShapeInv /\ ~Broken /\ file # <<>> /\ Whole(file[Len(file)])
               /\ file[Len(file)].type \in {"full", "last"}
               => file[Len(file)].rec \in ReadRecords)'
          BY LastIsRead, PTL
        <5>4. Whole(file'[Len(file')])
          BY <5>1, <5>2
        <5>5. QED  BY <3>1, <5>1, <5>2, <5>3, <5>4 DEF Whole, Bytes
      <4>7. ReadRecords' = ReadRecords \/ ReadRecords' = ReadRecords \cup {added}
        BY <3>3, <3>4
      <4>8. \/ ReadRecords' = ReadRecords \cup {added}
            \/ Broken' /\ ReadRecords' = ReadRecords
        BY <4>6, <4>7
      <4>9. added \in acked' \ acked
        BY <4>2, <4>3
      <4>10. Log!Add
        BY <4>3, <4>4, <4>5, <4>8, <4>9 DEF Log!Add
      <4>11. QED  BY <4>10
    <3>6. CASE ~(kept = Bytes(NextPiece) /\ NextPiece.len = adding.left)
      <4>1. ReadRecords' = ReadRecords
        BY <3>3, <3>4, <3>6
      <4>2. acked' = acked
        BY <2>3, <3>6 DEF EmitPhysicalRecord, EmitFails
      <4>3. QED  BY <4>1, <4>2 DEF Log!Lose
    <3>7. QED  BY <3>5, <3>6
  <2>4. QED  BY <2>1, <2>2, <2>3
<1>6. QED
  BY <1>3, <1>4, <1>5 DEF Next, AddRecord, Sync, Reopen, vars

\* The file implements the log its users rely on: AddRecord adds one record, that
\* ReadRecord then returns as a whole unless the file is already known to be
\* broken, and a crash takes nothing but records at the end.
THEOREM RecordsKept == Spec => ImplementsRecordLog
<1>1. Init => Log!Init
  BY InitRecords DEF Log!Init
<1>2. ShapeInv /\ ShapeInv' /\ [Next]_vars => [Log!Next]_Log!logVars
  BY RecordsStep DEF Log!Next
<1>3. QED
  BY <1>1, <1>2, ShapeInvariant, PTL DEF Spec, ImplementsRecordLog, Log!Spec

===============================================================================
