SPECIFICATION Spec
SYMMETRY Symmetry
CONSTANTS
  Messages = {m1, m2}
  Lengths = {74, 1994, 1995, 2049}
  Widths = {1, 2, 4}
  Platforms = {"shake256", "sha256"}
  Faults = TRUE
  None = None
INVARIANT TypeOK
INVARIANT Verdict
INVARIANT OwnSignature
INVARIANT ClaimIsRefused
