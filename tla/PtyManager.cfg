\* Three tabs opened, killed and shut down in every order.
CONSTANT
  Sessions = {s1, s2, s3}
SPECIFICATION FairSpec
CHECK_DEADLOCK FALSE
INVARIANTS
  NoneForgotten
  ReturnedMeansReaped
PROPERTY
  ShutdownEnds
