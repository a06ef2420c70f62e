----------------------------- MODULE MC_LsmTree -----------------------------
(***************************************************************************)
(* The instances of LsmTree that TLC checks.                               *)
(***************************************************************************)
EXTENDS LsmTree

Everything == {<<Least, Greatest>>}
Uses(size, limit, ranges, updates, snaps) ==
  [max_file_size |-> size, grandparent_limit |-> limit, manual_ranges |-> ranges,
   updates |-> updates, max_snapshots |-> snaps]
AnyOf(keys, n) == [i \in 1..n |-> keys \X BOOLEAN]
Puts(keys) == [i \in DOMAIN keys |-> keys[i] \X {FALSE}]

\* Files of one entry, so that a user key is spread over several, and automatic
\* compactions only; or files that are never cut, and manual compactions too,
\* of two keys or of two ends and then a key in the gap between them.
CutOrManual == {Uses(1, 1, {}, AnyOf(Keys, 3), 1),
                Uses(9, 9, Everything, AnyOf({1, 2}, 3), 1),
                Uses(9, 9, Everything, Puts(<<{1, 3}, {1, 3}, {1, 3}, {1, 3}, {2}>>), 0)}
CutAndManual == {Uses(2, 9, Everything, AnyOf(Keys, 4), 1)}
==============================================================================
