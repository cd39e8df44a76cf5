\* Two coroutines, so that they nest; the main program calls with interrupts
\* disabled and hands over no data, they do both.  A stack holds the deepest
\* call of a coroutine.  An interrupt may come between the two halves of SP.
CONSTANTS
  Main = Main
  A = A
  B = B
  v = v
  w = w
  Stack = {Main, A, B}
  Context <- MCContext
  Coro = {A, B}
  Value = {v, w}
  NoData = NoData
  Deaf = {Main}
  Silent = {Main}
  InterruptsSplitSP = TRUE
  StackSize = 7
SPECIFICATION Spec
INVARIANT StacksKept
CHECK_DEADLOCK FALSE
SYMMETRY Symmetry
