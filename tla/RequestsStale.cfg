SPECIFICATION Spec
CONSTANTS
  Messages = {m1, m2}
  Lengths = {75}
  Widths = {4}
  Platforms = {"shake256"}
  Faults = FALSE
  None = None
INVARIANT OwnMessage
