SPECIFICATION Spec
CONSTANTS
  Ids = {i1, i2}
  Seeds = {s1, s2}
  Vector = s1
  Short = {h5}
  Tall = {h10}
  None = none
  Builds = {TRUE, FALSE}
  MaxCauses = 1
SYMMETRY MCIds
CONSTRAINT FewCauses
INVARIANT SeedOfKey
INVARIANT PathOfKey
INVARIANT RootOfKey
