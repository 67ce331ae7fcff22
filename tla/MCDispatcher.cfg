\* Admission, cancellation and shutdown in every order.
SPECIFICATION DispatcherSpec
CONSTANTS
  Calls = {a, b, c}
  Closers = {k1, k2}
  Capacity = 2
  NoCloser = NoCloser
INVARIANTS SlotsConserved NothingRunsAfterClose
PROPERTIES CloseReturns
\* A process whose calls are over and whose dispatcher is closed has stopped.
CHECK_DEADLOCK FALSE
