CONSTANTS
  Value = {x, y}
  MaxCapacity = 4
  MaxElement = 5
  Object = {o1, o2, o3}
  Local = {p, q}
  Null = Null
SPECIFICATION Spec
INVARIANTS TypeOK WellFormed HoldsWhatItShould SafeIfCareful
