SPECIFICATION Spec
CONSTANTS
  MAX_PPLAN = 3
  Addresses = {1, 2, 3, 4}
INVARIANTS FreeListOK PlansUsable SlotsAccounted ClosedHasNoPlans
