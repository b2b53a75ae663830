CONSTANTS
  Daemon = {d1, d2}
  Launcher = {l1, l2}
  Serve = {s1}
  Nobody = Nobody
  Liberties = {{}}
  MaxCrashes = 2
SPECIFICATION Spec
PROPERTIES
  NoReviveAfterAStop
