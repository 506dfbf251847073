SPECIFICATION WsSpec
CONSTANTS
  Conns = {c1, c2, c3}
  Fds = {1, 2}
  NoFd = 0
INVARIANTS SenderOwnsStream FreeWhenNone
PROPERTY SenderStops
CHECK_DEADLOCK FALSE
