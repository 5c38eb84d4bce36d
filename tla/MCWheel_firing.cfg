CONSTANTS
  h1 = h1  h2 = h2
  Hints = {h1, h2}
  Slots <- MCSlots
  Width <- MCWidth
  Horizon = 52
SYMMETRY Symmetry
SPECIFICATION Spec
INVARIANTS TypeOK WellPlaced
PROPERTIES ImplementsHintStore
CHECK_DEADLOCK FALSE
