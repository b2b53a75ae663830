CONSTANTS
  Proc = {p1, p2}
  Serve = {s1, s2}
  Human = {h1}
  Nobody = Nobody
  Liberties = {{}, {"upgrade"}, {"upgrade", "skewed"}, {"unkillable", "cold"}}
  SkewRestartMax = 1
  MaxFaults = 2
SPECIFICATION FairSpec
INVARIANTS
  OneListenerAsWired
PROPERTIES
  HealthyIsSpared
  ListenerSettles
