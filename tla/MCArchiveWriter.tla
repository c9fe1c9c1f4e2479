--------------------------- MODULE MCArchiveWriter ---------------------------
(* Four files: two of path 1 in group 0 share the log type A, so the    *)
(* second writes an existing entry; file 3 reuses the variable x of file 1 *)
(* and file 4 the log type B of file 1; file 4 has no timestamps and goes *)
(* to the other segment.  Segments seal at 3 messages, so files 1+2 or    *)
(* 1+3 seal a segment mid-run and close() seals what is left.             *)
EXTENDS ArchiveWriter, TLC

MCMIN == -1

Msg(t, v) == [logtype |-> t, var |-> v]

MCAttr ==
  1 :> [group_id |-> 0, end_ts |-> 5, path |-> 1, msgs |-> <<Msg("A", "x"), Msg("B", NoVar)>>] @@
  2 :> [group_id |-> 0, end_ts |-> 5, path |-> 1, msgs |-> <<Msg("A", "y")>>] @@
  3 :> [group_id |-> 1, end_ts |-> 3, path |-> 2, msgs |-> <<Msg("C", "x")>>] @@
  4 :> [group_id |-> 1, end_ts |-> -1, path |-> 2, msgs |-> <<Msg("B", NoVar)>>]
=============================================================================
