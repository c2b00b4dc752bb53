SPECIFICATION MCLockSpec
CONSTANTS
  Proc = {p1, p2, p3, p4}
  Slot = {a, b}
  Calls <- Cycle
  Tops = {a, b}
  MaxWalk = 3
  Deaths = TRUE
  Recycling = FALSE
  Nobody = Nobody
  Root = Root
  a = a
  b = b
  bystander = p4
INVARIANTS
  NeverWaitsForAncestor
PROPERTIES
  KeepsPromise
  EveryAskEnds
