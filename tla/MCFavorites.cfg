SPECIFICATION MCSpec
CONSTANTS
  Products = {p1, p2}
  Loads = {l1, l2}
  Toggles = {t1}
  NoLoad = NoLoad
SYMMETRY Symmetry
INVARIANTS
  CalmViewIsAccount
  PromiseIsLive
CHECK_DEADLOCK FALSE
