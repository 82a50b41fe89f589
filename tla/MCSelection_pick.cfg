SPECIFICATION Spec
CONSTANTS
  a = a
  b = b
  Endpoint = {a, b}
  Picker = {p1, p2}
  Cooldown = 1
  RTTs = {1, 9}
  Millisecond = 2
  Penalties = {0}
  UnknownRTT = 2
  MaxScore = 100
  UnitWeight = 2
  Quotient <- MCQuotient
  StickyTTL = 1
  MinSwitch = 8
  Pool <- MCPool
  Weight <- MCWeight

SYMMETRY Symmetry
INVARIANTS PickWasUsable ErrorWasJustified
PROPERTIES UndisturbedPickIsIntended
