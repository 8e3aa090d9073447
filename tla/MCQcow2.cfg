SPECIFICATION Spec
CONSTANTS
  s1 = s1
  s2 = s2
  k1 = k1
  k2 = k2
  t1 = t1
  t2 = t2
  b1 = b1
  b2 = b2
  l2 = l2
  refcount = refcount
  header = header
  Null = Null
  Reqs = {r1, r2}
  Slots = {s1, s2}
  Clusters = {k1, k2}
  Snapshot = {k1}
  HomeOf <- MCHomeOf
  Size <- MCSize
  InitialL2 <- MCInitialL2
  MaxErrors = 1
SYMMETRY MCSymmetry
CONSTRAINT NothingIgnored
INVARIANTS
  RefcountsCover
  FlushedIsDurable
  NoDependencyLoop
PROPERTIES
  CopiedBeforeLinked
