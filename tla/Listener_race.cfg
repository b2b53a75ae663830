CONSTANTS
  Proc = {p1, p2}
  Serve = {s1}
  Human = {h1}
  Nobody = Nobody
  Liberties = {{"overlap"}}
  SkewRestartMax = 1
  MaxFaults = 0
SPECIFICATION Spec
INVARIANTS
  NeverTwoListeners
