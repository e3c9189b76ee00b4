SPECIFICATION FairSpec
CONSTANTS
  Conns = {c1, c2}
  Handles = {h1, h2}
  Nobody = nobody
  Accept = acceptor
  Senders = {}
  Workers = 1
  Control = FALSE
CHECK_DEADLOCK FALSE
PROPERTY AcceptedIsHandled
PROPERTY KickedHandlerEnds
INVARIANT QueueGoesOn
