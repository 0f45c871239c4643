\* More records than slots: the buffer wraps round and is Reset.
SPECIFICATION Spec
CONSTANTS
  Producers = {p1, p2}
  Consumers = {c1, c2}
  Capacity = 2
  MaxRecords = 3
  MaxResets = 1
SYMMETRY Symmetry
INVARIANTS ClaimsAreExclusive StatsAccountForClaims
PROPERTIES FullAndEmptyAreExact ImplementsQueue
