SPECIFICATION Spec
CONSTANTS
  Heights <- MCHeights
  Targets <- MCTargets
  Built <- MCBuilt
  Leaves <- MCLeaves
  Failures <- MCFailures
  Widths <- MCWidths
  Digests <- MCDigests
  CachedOts <- MCCachedOts
INVARIANT RootsAgree
INVARIANT CacheMatchesSegment
INVARIANT OwnSignatureAccepted
INVARIANT NoOtherMessage
INVARIANT MemoryAccounted
INVARIANT ConfigurationBest
