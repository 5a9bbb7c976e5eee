SPECIFICATION Spec
CONSTANTS
  Ids = {i1, i2}
  Seeds = {s1}
  Vector = s1
  Short = {h5}
  Tall = {}
  None = none
  Builds = {TRUE, FALSE}
INVARIANT CachesIsolated
