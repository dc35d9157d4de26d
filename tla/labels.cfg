CONSTANTS
  Categories <- MCCategories
  MinBoxArea <- MCMinBoxArea
  Minimum <- MCMinimum
  Mixes <- MCMixes
  Workers = {w1, w2}
  Tags = {t1}
  None = None
  MinNew = 1
  MinTotal = 2
  MaxFaults = 1
SPECIFICATION LoopSpec
INVARIANT AcknowledgedIsQueued
PROPERTY SpecsRestOnReviews
SYMMETRY MCSymmetry
CHECK_DEADLOCK FALSE
