\* Two coroutines, so that they nest; the main program calls with interrupts
\* disabled and hands over no data, they do both.  A stack holds the deepest
\* call of a coroutine.
CONSTANTS
  Main = Main
  A = A
  B = B
  v = v
  w = w
  Stack = {Main, A, B}
  Context <- MCContext
  Coro = {A, B}
  Value = {v, w}
  NoData = NoData
  Deaf = {Main}
  Silent = {Main}
  InterruptsSplitSP = FALSE
  StackSize = 7
SPECIFICATION Spec
INVARIANTS StacksKept PartiesRestored
PROPERTY ImplementsCoroutines
CHECK_DEADLOCK FALSE
SYMMETRY Symmetry
