CONSTANTS
  Hashes = {h1, h2}
  States = {downloading}
  Gone = Gone
  Sockets = {s1, s2}
  SendCap = 1
  MaxChanges = 1
  MaxFaults = 1
SPECIFICATION Spec
INVARIANT TypeOK
INVARIANT SocketDiscipline
PROPERTY SessionEndsSockets
PROPERTY ImplementsView
CHECK_DEADLOCK FALSE
