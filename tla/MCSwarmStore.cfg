SPECIFICATION FairSpec
CONSTANTS
  Background = {b1, b2}
  b1 = b1
  f1 = f1
  named = named
  Foreground = {f1, f2}
  GivenId <- ClientNames
  MaxSwarms = 2
  MaxResets = 1
  MayFail = TRUE
INVARIANTS
  BoundedUnlessOrphaned
PROPERTIES
  ForgottenOnlyForYounger
  RunningEnds
  ImplementsSwarmView
CHECK_DEADLOCK FALSE
