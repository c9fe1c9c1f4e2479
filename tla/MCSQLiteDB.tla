----------------------------- MODULE MCSQLiteDB -----------------------------
(* Three connections: one leaked, one open and one sqlite can still hand  *)
(* out.  Two statement slots: a close is BUSY with one statement and still *)
(* BUSY after the other is finalised.  Connections and statements are     *)
(* interchangeable, so both are symmetry sets.                            *)
EXTENDS SQLiteDB, TLC

Symmetry == Permutations(Conns) \cup Permutations(Stmts)
====
