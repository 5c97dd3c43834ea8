\* Two clients and two messages each: every split of the stream, queues that overflow
\* and every order of the priorities.
CONSTANTS
  Clients <- TwoClients
  c1 = c1
  c2 = c2
  Ids <- TwoIds
  Prios <- TwoPrios
  MaxMessages = 2
  Backlog = 1
  Listener = Listener
  NoFd = NoFd
  MaxFds = 3
  NTasks = 2
  Depth = 2
  MaxFailures = 0
SPECIFICATION Spec
SYMMETRY ClientSymmetry
INVARIANT TypeOK
INVARIANT Framed
INVARIANT DroppedOnlyWhenFull
