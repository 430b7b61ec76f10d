CONSTANTS
  t1 = t1
  t2 = t2
  t3 = t3
  c1 = c1
  root = root
  g1 = g1
  g2 = g2
  Task = {t1, t2}
  Initial <- OneOrTwo
  CPU = {c1}
  Group = {root, g1, g2}
  Online = {root, g1}
  Home <- Places
  Root = root
  Parent <- Line
  Ancestors <- Path
  Scale = 2
  Buckets = 2
  Width = 4
  Attrs <- Calls
  Written <- Knobs
  Limits = {1, 2}
  Roof = {FALSE, TRUE}
  Boosts = {t1}
  MaxUser = 2
  MaxAdmin = 2
SPECIFICATION Spec
INVARIANTS  RequestFollowsPolicy  EffectiveIsCurrent BoundsRespected
CHECK_DEADLOCK FALSE
