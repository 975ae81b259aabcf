SPECIFICATION Spec
CONSTANTS
  MaxCalls = 3
  MaxDepth = 3
  MaxWrites = 2
  Objects = {o1, o2, o3}
  Habits = {}
SYMMETRY ObjectSymmetry
INVARIANTS TypeOK EndsItsOwn SurroundingsStand NothingLeftOpen
PROPERTY ExitUndoes
CHECK_DEADLOCK FALSE
