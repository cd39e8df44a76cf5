\* Three slots, so that in, out and the overwritten slot can all differ;
\* the 16-bit count is scaled to 9, a multiple of the capacity.
CONSTANTS
  UINT16_MOD = 9
  Capacity = 3
  Element = {none, a, b}
  Zero = none

SPECIFICATION Spec
INVARIANTS TypeOK IndicesAgree
PROPERTY ImplementsWindow
