------------------------------ MODULE LogFormat ------------------------------
(***************************************************************************)
(* One log file: log::Writer, the failures of the appends below it, a crash*)
(* and log::Reader (db/log_writer.cc, db/log_reader.cc).  The write-ahead  *)
(* log and the MANIFEST are such files.                                    *)
(*                                                                         *)
(* The file is the sequence of pieces that reached it.  A piece is what one*)
(* EmitPhysicalRecord wrote: padding of the block before, a header and a   *)
(* fragment of a record; it begins at byte "at" of the file, which has     *)
(* "kept" of its bytes.  Where the reader looks for a header and none was  *)
(* written, or not all of its fragment follows it, what it finds fails the *)
(* length or checksum test.                                                *)
(***************************************************************************)
EXTENDS Integers, Sequences

CONSTANTS
  BlockSize, HeaderSize, \* kBlockSize, kHeaderSize
  Sizes,       \* the sizes of records, in bytes
  ReuseLogs,   \* options_.reuse_logs
  MaxRecords,  \* BOUND: records added
  MaxFaults,   \* BOUND: appends that fail
  MaxCrashes   \* BOUND: crashes

ASSUME BlockAssumption ==
  /\ HeaderSize \in Nat \ {0} /\ BlockSize \in Nat /\ HeaderSize < BlockSize
  /\ Sizes \subseteq Nat /\ ReuseLogs \in BOOLEAN
  /\ MaxRecords \in Nat /\ MaxFaults \in Nat /\ MaxCrashes \in Nat

VARIABLES
  file,        \* the pieces in the file
  synced,      \* how many of its bytes are on the disk
  open,        \* there is a Writer
  blockOffset, \* Writer::block_offset_
  adding,      \* the AddRecord in progress: [rec, left, part]; part 0: none
  added,       \* AddRecords begun: they number the records
  acked,       \* HISTORY: records whose AddRecord returned OK
  faults, crashes

vars == <<file, synced, open, blockOffset, adding, added, acked, faults, crashes>>

NotAdding == [rec |-> 0, left |-> 0, part |-> 0]

Init ==
  /\ file = <<>> /\ synced = 0
  /\ open = TRUE /\ blockOffset = 0
  /\ adding = NotAdding
  /\ added = 0 /\ acked = {}
  /\ faults = 0 /\ crashes = 0

Bytes(p) == p.pad + HeaderSize + p.len
Whole(p) == p.kept = Bytes(p)

FileSize == IF file = <<>> THEN 0 ELSE file[Len(file)].at + file[Len(file)].kept

(***************************************************************************)
(* AddRecord: the record in fragments, one EmitPhysicalRecord each.        *)
(***************************************************************************)
Idle == open /\ adding = NotAdding

AddRecord(size) ==
  /\ Idle /\ added < MaxRecords
  /\ added' = added + 1
  /\ adding' = [rec |-> added + 1, left |-> size, part |-> 1]
  /\ UNCHANGED <<file, synced, open, blockOffset, acked, faults, crashes>>

Type(begin, end) ==
  CASE begin /\ end -> "full" [] begin /\ ~end -> "first"
    [] ~begin /\ end -> "last" [] OTHER -> "middle"

\* mutant: a header is begun in the last bytes of a block
NeverPads(offset) == 0
\* The trailer of a block that has no room for a header.
Padding(offset) ==
  IF BlockSize - offset < HeaderSize THEN BlockSize - offset ELSE 0

\* mutant: the block is not switched
NeverSwitches == blockOffset
\* Where the header goes: in a new block if this one has no room for it.
StartOffset == IF BlockSize - blockOffset < HeaderSize THEN 0 ELSE blockOffset

NextPiece ==
  LET avail == BlockSize - StartOffset - HeaderSize
      len == IF adding.left < avail THEN adding.left ELSE avail
  IN  [rec |-> adding.rec, part |-> adding.part,
       type |-> Type(adding.part = 1, len = adding.left),
       pad |-> Padding(blockOffset), len |-> len]

\* mutant: the offset stays behind by the header
HeaderForgotten(len) == StartOffset + len
\* block_offset_ after a fragment, whether or not its bytes reached the file.
OffsetAfter(len) == StartOffset + HeaderSize + len

Written(p, kept) ==
  [rec |-> p.rec, part |-> p.part, type |-> p.type, pad |-> p.pad, len |-> p.len,
   at |-> FileSize, kept |-> kept]

\* The Appends go to a buffer and Flush writes it.
EmitPhysicalRecord ==
  /\ adding.part > 0
  /\ LET p == NextPiece
         done == p.len = adding.left
     IN  /\ file' = Append(file, Written(p, Bytes(p)))
         /\ blockOffset' = OffsetAfter(p.len)
         /\ adding' = IF done THEN NotAdding
                      ELSE [rec |-> adding.rec, left |-> adding.left - p.len, part |-> adding.part + 1]
         /\ acked' = IF done THEN acked \cup {adding.rec} ELSE acked
  /\ UNCHANGED <<synced, open, added, faults, crashes>>

\* write() fails after some of the bytes: AddRecord returns the error.
EmitFails ==
  /\ adding.part > 0 /\ faults < MaxFaults
  /\ LET p == NextPiece
     IN  /\ \E kept \in 0..(Bytes(p) - 1) :
              file' = IF kept = 0 THEN file ELSE Append(file, Written(p, kept))
         /\ blockOffset' = OffsetAfter(p.len)
  /\ adding' = NotAdding
  /\ faults' = faults + 1
  /\ UNCHANGED <<synced, open, added, acked, crashes>>

Sync ==
  /\ Idle /\ synced < FileSize
  /\ synced' = FileSize
  /\ UNCHANGED <<file, open, blockOffset, adding, added, acked, faults, crashes>>

(***************************************************************************)
(* The process or the machine dies: any bytes at the end that were not     *)
(* synced may be gone.  A new Writer appends to the file only with         *)
(* reuse_logs, and takes its offset from the file's size.                  *)
(***************************************************************************)
FirstPieces(n, kept) ==
  [i \in 1..n |-> IF i = n THEN [file[i] EXCEPT !.kept = kept] ELSE file[i]]

Crash ==
  /\ open /\ crashes < MaxCrashes
  /\ \/ synced = 0 /\ file' = <<>> /\ UNCHANGED synced
     \/ \E n \in 1..Len(file) : \E kept \in 1..file[n].kept :
          /\ synced <= file[n].at + kept
          /\ file' = FirstPieces(n, kept)
          /\ synced' = file[n].at + kept
  /\ open' = FALSE /\ adding' = NotAdding
  /\ crashes' = crashes + 1
  /\ UNCHANGED <<blockOffset, added, acked, faults>>

\* mutant: the Writer starts as if the file were empty
OffsetOfNewFile(size) == 0
\* Writer(dest, dest_length).
InitialOffset(size) == size % BlockSize

Reopen ==
  /\ ~open /\ ReuseLogs
  /\ open' = TRUE
  /\ blockOffset' = InitialOffset(FileSize)
  /\ UNCHANGED <<file, synced, adding, added, acked, faults, crashes>>

Next ==
  \/ \E size \in Sizes : AddRecord(size)
  \/ EmitPhysicalRecord
  \/ EmitFails
  \/ Sync
  \/ Crash
  \/ Reopen

Spec == Init /\ [][Next]_vars

(***************************************************************************)
(* ReadPhysicalRecord: what the reader meets from offset o on, a sequence  *)
(* of pieces, Bad for each stretch it drops and reports.                   *)
(***************************************************************************)
Bad == [type |-> "bad", rec |-> 0, part |-> 0, len |-> 0]

HeaderAt(o) == {i \in DOMAIN file : file[i].at + file[i].pad = o}
HeaderKept(i) == file[i].kept >= file[i].pad + HeaderSize

Physical ==
  LET size == FileSize
      read[o \in 0..(size + BlockSize)] ==
        LET blockEnd == (o \div BlockSize + 1) * BlockSize
            limit == IF blockEnd < size THEN blockEnd ELSE size
            fits(i) == o + HeaderSize + file[i].len <= limit
            good == {i \in HeaderAt(o) : Whole(file[i]) /\ fits(i)}
            eof == limit < blockEnd
            dying == eof /\ \E i \in HeaderAt(o) : HeaderKept(i) /\ ~fits(i)
        IN  IF limit - o < HeaderSize
            THEN IF eof THEN <<>> ELSE read[blockEnd]
            ELSE IF good # {}
            THEN LET i == CHOOSE i \in good : TRUE
                 IN  <<file[i]>> \o read[o + HeaderSize + file[i].len]
            ELSE IF dying THEN <<>>
            ELSE <<Bad>> \o (IF eof THEN <<>> ELSE read[blockEnd])
  IN  read[0]

(***************************************************************************)
(* ReadRecord, until the end of the file.  A record is returned where a    *)
(* full fragment is met, or a last one after a first one with only middle  *)
(* ones in between; Bad and a new beginning end what was begun.            *)
(***************************************************************************)
\* mutant: a dropped stretch does not end the record it is in
BeginsBeforeBad(met, j, i) ==
  met[j].type = "first" /\ \A k \in (j + 1)..(i - 1) : met[k].type \in {"middle", "bad"}
\* i is met while the record begun at j is in scratch.
Begins(met, j, i) ==
  met[j].type = "first" /\ \A k \in (j + 1)..(i - 1) : met[k].type = "middle"

Fragmented(met, i) == \E j \in 1..(i - 1) : Begins(met, j, i)

\* The records returned, as the places where they begin and end.
Returned(met) ==
  {<<i, i>> : i \in {i \in DOMAIN met : met[i].type = "full"}} \cup
  {r \in (DOMAIN met) \X (DOMAIN met) :
     r[1] < r[2] /\ met[r[2]].type = "last" /\ Begins(met, r[1], r[2])}

\* Corruptions reported: dropped stretches, fragments without a beginning and
\* beginnings, unless empty, without an end.
Reported(met) ==
  {i \in DOMAIN met :
     \/ met[i].type = "bad"
     \/ met[i].type \in {"middle", "last"} /\ ~Fragmented(met, i)
     \/ /\ met[i].type \in {"full", "first"}
        /\ \E j \in 1..(i - 1) : /\ Begins(met, j, i)
                                 /\ \E k \in j..(i - 1) : met[k].len > 0}

ReadRecords == UNION {{met[r[2]].rec : r \in Returned(met)} : met \in {Physical}}

(***************************************************************************)
(* Properties.                                                             *)
(***************************************************************************)
Piece == [rec : 1..MaxRecords, part : Nat \ {0}, type : {"full", "first", "middle", "last"},
          pad : Nat, len : Nat, at : Nat, kept : Nat \ {0}]

\* "Invariant: we never leave < kHeaderSize bytes in a block" (AddRecord), and
\* no fragment crosses the end of its block as the writer counts.
TypeOK ==
  /\ file \in Seq(Piece) /\ \A i \in DOMAIN file : file[i].kept <= Bytes(file[i])
  /\ synced \in 0..FileSize
  /\ open \in BOOLEAN
  /\ blockOffset \in 0..BlockSize
  /\ StartOffset + HeaderSize <= BlockSize
  /\ \/ adding = NotAdding
     \/ open /\ adding \in [rec : 1..added, left : Nat, part : Nat \ {0}]
  /\ added \in 0..MaxRecords /\ acked \subseteq 1..added
  /\ faults \in Nat /\ crashes \in Nat

\* The writer counts as the reader does: while no append has failed, its offset
\* in the block is that of the file's end, also in a file it did not begin.
WriterAligned ==
  open /\ faults = 0 =>
    \E blocks \in 0..FileSize : FileSize = (blocks * BlockSize) + blockOffset

\* A record the reader returns was added as it is: all of its fragments, in
\* order, of one record, also behind garbage that failed appends and crashes
\* left; and records come in the order they were added, none twice.
ReadIntact ==
  LET met == Physical
  IN  \A r, q \in Returned(met) :
        /\ \A j \in r[1]..r[2] : /\ met[j].rec = met[r[1]].rec
                               /\ met[j].part = j - r[1] + 1
        /\ r[2] < q[1] => met[r[2]].rec < met[q[1]].rec

\* An append has failed, or the file goes on behind an unfinished record.
Unfinished(i) ==
  \/ ~Whole(file[i])
  \/ file[i].type \in {"first", "middle"} /\ file[i + 1].rec # file[i].rec
Broken == faults > 0 \/ \E i \in 1..(Len(file) - 1) : Unfinished(i)

\* A crash in the middle of a record is not a corruption ("assume the writer
\* died in the middle of writing the record. Don't report a corruption"),
\* whatever the place in the block and the fragment.
NoFalseAlarm == ~Broken => Reported(Physical) = {}

\* The file is a log: a record can be read, as a whole, from the moment that
\* AddRecord returns OK, and a crash takes only records at the end.
Log == INSTANCE RecordLog WITH records <- ReadRecords, broken <- Broken
ImplementsRecordLog == Log!Spec

\* "if it is just the process that crashes ... no writes will be lost even if
\* sync==false" (options.h): a record that was acknowledged, and none of whose
\* bytes a crash took, is read back.
AckedReadable ==
  \A r \in acked :
    (\A i \in DOMAIN file : file[i].rec = r => Whole(file[i]))
      /\ (\E i \in DOMAIN file : file[i].rec = r /\ file[i].type \in {"full", "last"})
    => r \in ReadRecords
==============================================================================
