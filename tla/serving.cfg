CONSTANTS
  p1 = p1  p2 = p2  p3 = p3  c1 = c1  c2 = c2
  w1 = w1  w2 = w2  u1 = u1  u2 = u2  r1 = r1  r2 = r2
  Lanes = {p1, p2, p3}
  Contents = {c1, c2}
  Files = {1, 2, 3, 4, 5, 6}
  None = None
  Requests = {r1}
  Encryptions = {TRUE, FALSE}
  Frame <- MCFrame
  Workers = {w1, w2}
  Updates = {u1, u2}
  Seed = Seed
  Default = Default
  Row <- MCRow
  TTL = 2
  LoadTime = 1
  Starts = {0, 3}
  MaxTime = 8
  FrameLists <- MCFrameLists
  Modes <- MCModes
SPECIFICATION Spec
SYMMETRY MCSymmetry
INVARIANTS SettledIsWhole ResultsRestOnOriginals ResultsAreLegal StaleForTtlAtMost
CHECK_DEADLOCK FALSE
