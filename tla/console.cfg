CONSTANTS
  k1 = k1  k2 = k2  k3 = k3  sup = sup
  s1 = s1  s2 = s2  f1 = f1  f2 = f2
  Conns = {k1, k2, k3, sup}
  Pool = {k1, k2, k3}
  Scans = {s1, s2}
  Topics = {s1, s2}
  Fetches = {f1, f2}
  Loads = {1, 2}
  Mounts = {1, 2}
  MaxReconnects = 1
  None = None
  Nobody = Nobody
  LanesOf <- MCLanesOf
  LaneOf <- MCLaneOf
  Modes <- MCModes
SPECIFICATION Spec
INVARIANTS NoGhosts OneSocket
PROPERTY QueueCatchesUp
CHECK_DEADLOCK FALSE
