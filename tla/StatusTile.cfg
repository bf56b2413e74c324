\* Two handlers and a tick at a time, two domains; an interval of two
\* seconds, of which a fetch may take one.
CONSTANTS
  Task = {t1, t2, t3}
  Domain = {d1, d2}
  NoDomain = NoDomain
  REFRESH = 2
  FETCH = 1
  STALE_AFTER = 1
  MaxLag = 1
  Offset <- Offsets
  None = None
SPECIFICATION Spec
SYMMETRY Symmetry
INVARIANTS
  GreenIsRecent
  WrongDomainHeals
