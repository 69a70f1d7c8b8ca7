SPECIFICATION Spec
CONSTANTS
  None = None
  Names = {a, b}
  Writers = {w1, w2}
  MaxNumbers = 4
INVARIANTS OneBody
