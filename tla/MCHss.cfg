SPECIFICATION Spec
SYMMETRY MCMessages
CONSTRAINT FewLost
CONSTANTS
  Levels = 4
  Cap <- MCCap
  GenMod = 7
  Messages = {m1, m2}
  MaxLost = 2
INVARIANT TypeOK
INVARIANT OneTimeLeaves
INVARIANT ReturnedVerifies
INVARIANT CertificateIsNoMessage
INVARIANT ExhaustedForReal
PROPERTY NeverBack
