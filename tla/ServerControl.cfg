SPECIFICATION Spec
CONSTANTS
  Conns = {c1, c2, c3}
  Handles = {h1, h2}
  Nobody = nobody
  Accept = acceptor
  Senders = {}
  Workers = 1
  Control = TRUE
SYMMETRY Alike
CHECK_DEADLOCK FALSE
INVARIANT TypeOK
INVARIANT AtMostOneLateCommand
INVARIANT EveryClientHasHandler
INVARIANT LastOneWinsSerially
INVARIANT NoInheritedCommand
PROPERTY ControlIsHandedOver
