SPECIFICATION Spec
CONSTANTS
  Conns = {c1, c2, c3}
  Handles = {h1, h2}
  Nobody = nobody
  Accept = acceptor
  Senders = {}
  Workers = 2
  Control = TRUE
CHECK_DEADLOCK FALSE
INVARIANT OnlyNewerKicks
