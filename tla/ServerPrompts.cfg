SPECIFICATION Spec
CONSTANTS
  Conns = {c1, c2}
  Handles = {h1, h2}
  Nobody = nobody
  Accept = acceptor
  Senders = {sender}
  Workers = 2
  Control = TRUE
SYMMETRY Alike
CHECK_DEADLOCK FALSE
INVARIANT NoStrayFrames
