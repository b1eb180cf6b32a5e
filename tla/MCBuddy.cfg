SPECIFICATION Spec
CONSTANTS
  MaxIndex = 3
  MaxHeld = 5
INVARIANTS Partition Coalesced WholeAgain
