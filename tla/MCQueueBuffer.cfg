SPECIFICATION Spec
CONSTANTS
  Data = {a, b}
  Waiters = {w1, w2}
  Thresholds <- MCThresholds
  MaxPushes = 4
SYMMETRY Symmetry
INVARIANTS TypeOK Conservation
