CONSTANTS
  Sids = {"a", "b"}
  Files = {"s", "t", "u", "r"}
  Records = {"r"}
  Owner <- MCOwner
  Tick = "tick"
  Commands = {"c"}
  NoOne = "none"
  MaxClock = 3
  Setups <- MCSetups
SPECIFICATION FairSpec
INVARIANTS
  NothingSlipsBehind
  LastTurnIsHome
PROPERTIES
  HomeIsKept
  AllComesHome
