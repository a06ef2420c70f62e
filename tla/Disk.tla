-------------------------------- MODULE Disk --------------------------------
(***************************************************************************)
(* The database directory as util/env_posix.cc uses it, and what a crash   *)
(* leaves of it.                                                           *)
(*                                                                         *)
(* A file is a sequence of records, of which the first "durable" ones are  *)
(* known to be on the disk.  The directory changes by creating, renaming   *)
(* and removing files; the file system keeps these changes in order, as a  *)
(* journal does, and an fsync of any file makes the ones before it durable.*)
(* "dirs" are the directories that a power failure may leave: the last one *)
(* is what the program sees.                                               *)
(***************************************************************************)
EXTENDS Integers, Sequences

VARIABLES
  dirs,  \* [names: the files, current: the number of the MANIFEST in CURRENT]
  files  \* their contents: [recs, durable]

diskVars == <<dirs, files>>

Log(n) == <<"log", n>>
Table(n) == <<"table", n>>
Manifest(n) == <<"manifest", n>>
Temp(n) == <<"temp", n>>

DiskInit ==
  /\ dirs = << [names |-> {}, current |-> 0] >>
  /\ files = [f \in {} |-> {}]

Dir == dirs[Len(dirs)]
Numbers(kind) == {f[2] : f \in {f \in Dir.names : f[1] = kind}}
Recs(f) == files[f].recs

\* What can still be read after some crash.
Reachable(ds) == UNION {ds[i].names : i \in DOMAIN ds}

\* The directory becomes d, and the file f, if it is one of its files, c.
Change(d, f, c) ==
  /\ dirs' = Append(dirs, d)
  /\ files' = [g \in Reachable(dirs) \cup d.names |-> IF g = f THEN c ELSE files[g]]

Contents(recs, durable) == [recs |-> recs, durable |-> durable]

\* Opening for writing, O_TRUNC | O_CREAT, and appending recs.
NewWritableFile(f, recs) ==
  IF f \in Dir.names
  THEN files' = [files EXCEPT ![f] = Contents(recs, 0)] /\ UNCHANGED dirs
  ELSE Change([Dir EXCEPT !.names = @ \cup {f}], f, Contents(recs, 0))

\* Append and Flush.
AppendRecord(f, r) ==
  /\ files' = [files EXCEPT ![f].recs = Append(@, r)]
  /\ UNCHANGED dirs

\* Sync, after the records recs were appended.
SyncFile(f, recs) ==
  /\ dirs' = <<Dir>>
  /\ files' = [g \in Dir.names |-> IF g = f THEN Contents(recs, Len(recs)) ELSE files[g]]

\* WriteStringToFileSync: the file f with one record.
WriteFileSync(f, r) ==
  /\ dirs' = << [Dir EXCEPT !.names = @ \cup {f}] >>
  /\ files' = [g \in Dir.names \cup {f} |-> IF g = f THEN Contents(<<r>>, 1) ELSE files[g]]

\* RenameFile(temp, "CURRENT").
SetCurrent(temp, n) ==
  /\ dirs' = Append(dirs, [names |-> Dir.names \ {temp}, current |-> n])
  /\ UNCHANGED files

\* The directories after RemoveFile: a file that is not there makes no difference.
Without(ds, f) ==
  LET d == ds[Len(ds)]
  IN  IF f \in d.names THEN Append(ds, [d EXCEPT !.names = @ \ {f}]) ELSE ds

RemoveFile(f) == dirs' = Without(dirs, f) /\ UNCHANGED files

(***************************************************************************)
(* A power failure: one of the directories, and of each file at least what *)
(* is durable.  A record of which only some bytes are left is one that is  *)
(* not there (module LogFormat: the reader stops at it).                   *)
(***************************************************************************)
AtRisk(d) == {f \in d.names : files[f].durable < Len(Recs(f))}

Longest(fs) == CHOOSE n \in {0} \cup {Len(Recs(f)) : f \in fs} : \A f \in fs : Len(Recs(f)) <= n

PowerFails ==
  \E i \in DOMAIN dirs :
    \E kept \in [AtRisk(dirs[i]) -> 0..Longest(AtRisk(dirs[i]))] :
      /\ \A f \in DOMAIN kept : kept[f] \in files[f].durable..Len(Recs(f))
      /\ dirs' = <<dirs[i]>>
      /\ files' = [f \in dirs[i].names |->
                     LET n == IF f \in DOMAIN kept THEN kept[f] ELSE Len(Recs(f))
                     IN  Contents(SubSeq(Recs(f), 1, n), n)]
==============================================================================
