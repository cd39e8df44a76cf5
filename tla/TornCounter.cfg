\* Three bytes of two bits: one carry into each of the upper bytes occurs.
CONSTANTS
  OS_COUNTER_TIME = 2
  Byte = 4
  Bytes = 3
  value = 6
  MaxTicksPerAccess = 1
  MaxCounter = 41
SPECIFICATION Spec
INVARIANTS StartNonZero ExactWithoutCarry OffByLessThanCarry
CHECK_DEADLOCK FALSE
