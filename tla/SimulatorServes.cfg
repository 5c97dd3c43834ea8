\* Two entries besides the listener's, which failed accepts may take for good, one or
\* both: the table fills and shifts, and a client has to wait.  The scheduler refuses what is
\* read.
CONSTANTS
  Clients <- TwoClients
  c1 = c1
  c2 = c2
  Ids <- BadId
  Prios <- OnePrio
  MaxMessages = 2
  Backlog = 2
  Listener = Listener
  NoFd = NoFd
  MaxFds = 3
  NTasks = 2
  Depth = 1
  MaxFailures = 2
SPECIFICATION Spec
INVARIANT TableIsOpenConnections
PROPERTY EveryClientServed
