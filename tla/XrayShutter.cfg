\* The interlock closes the shutter during a test.
CONSTANTS
  v1 = v1
  v2 = v2
  i1 = i1
  i2 = i2
  Ag = Ag
  Sn = Sn
  none = none
  None = None
  Direct = none
  Targets <- KnownTargets
  Environments <- TestEnvironments
  NumTests = 1
  LeftOpen = {}
  MaxTrips = 1
  MaxFaults = 0
SPECIFICATION Spec
INVARIANTS
  BeamLossWillBeReported
