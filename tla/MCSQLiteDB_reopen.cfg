SPECIFICATION Spec
CONSTANTS
  DBs = {d1, d2}
  Conns = {c1, c2, c3}
  Stmts = {s1, s2}
  Null = Null
  AllowReopen = TRUE
INVARIANT NoLeakedConnection
