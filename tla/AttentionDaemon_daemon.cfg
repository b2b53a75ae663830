CONSTANTS
  Daemon = {d1, d2}
  Launcher = {l1, l2}
  Serve = {s1}
  Nobody = Nobody
  Liberties = {{}, {"foreground", "reuse"}}
  MaxCrashes = 1
SPECIFICATION FairSpec
INVARIANTS
  RecordNamesTheDaemon
PROPERTIES
  StopsAreClean
  CrashedIsRevived
