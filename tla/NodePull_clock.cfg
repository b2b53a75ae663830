CONSTANTS
  Sids = {"a", "b"}
  Files = {"s", "t", "u", "r"}
  Records = {"r"}
  Owner <- MCOwner
  Tick = "tick"
  Commands = {"c"}
  NoOne = "none"
  MaxClock = 3
  Setups <- MCBack
SPECIFICATION Spec
INVARIANTS
  LastTurn
