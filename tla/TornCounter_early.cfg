\* Three bytes of two bits, as in TornCounter.cfg: the expiry comes before the
\* time of the timer when an access loads bytes on both sides of a carry.
CONSTANTS
  OS_COUNTER_TIME = 2
  Byte = 4
  Bytes = 3
  value = 6
  MaxTicksPerAccess = 1
  MaxCounter = 41
SPECIFICATION Spec
INVARIANT NotEarly
CHECK_DEADLOCK FALSE
