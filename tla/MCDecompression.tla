--------------------------- MODULE MCDecompression ---------------------------
(* Two archives in creation order.  Path p1 is stored in both (the same   *)
(* log compressed twice), p2 in the first only, p3 in none, so the same  *)
(* final path is wanted twice and a requested path can be missing.  The   *)
(* requests reach the three branches of the driver: no path, one path     *)
(* (stored, or not stored), several paths.  The output directory is empty, *)
(* or already holds p1, or p1 and p1.1, so the suffix loop runs up to 2.  *)
EXTENDS Decompression

MCArchiveOrder == <<"a1", "a2">>

MCStored ==
  ("a1" :> <<[id |-> "f1", path |-> "p1"], [id |-> "f2", path |-> "p2"]>>)
  @@ ("a2" :> <<[id |-> "f3", path |-> "p1"]>>)

MCRequests == {{}, {"p1"}, {"p3"}, {"p1", "p2"}, {"p1", "p3"}}

MCOutputs == {{}, {Name("p1", 0)}, {Name("p1", 0), Name("p1", 1)}}

\* p1 is wanted twice and may be taken twice already: suffixes 0..3
MCMaxSuffix == 3
====
