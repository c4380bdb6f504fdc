SPECIFICATION Spec
CONSTANTS
  v1 = v1
  g1 = g1
  g2 = g2
  o1 = o1
  o2 = o2
  m1 = m1
  w1 = w1
  w2 = w2
  r1 = r1
  k1 = k1
  k2 = k2
  h1 = h1
  h2 = h2
  p1 = p1
  p2 = p2
  t1 = t1
  Nil = Nil
  Absent = Absent
  RuntimeVar = {v1}
  RegionVar = {g1, g2}
  BufferVar = {o1, o2}
  TraceVar = {p1}
  ResourceVar = {m1}
  ViewVar = {w1, w2}
  Runtime = {r1}
  Region = {k1, k2}
  Buffer = {h1, h2}
  Trace = {t1}
SYMMETRY Symmetry
INVARIANTS
  NothingDangles
  OwnedOnce
  NothingLeaks
  ViewsCloseTheirOwn
CHECK_DEADLOCK FALSE
