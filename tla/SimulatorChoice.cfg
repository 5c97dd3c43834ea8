\* Lines 208 and 223 speak of the lowest number and the latest message: two tasks, and
\* queues in which the latest message is not the oldest.
CONSTANTS
  Clients <- TwoClients
  c1 = c1
  c2 = c2
  Ids <- TwoIds
  Prios <- TwoPrios
  MaxMessages = 2
  Backlog = 1
  Listener = Listener
  NoFd = NoFd
  MaxFds = 3
  NTasks = 2
  Depth = 2
  MaxFailures = 0
SPECIFICATION Spec
SYMMETRY ClientSymmetry
INVARIANT ChoosesAsCommented
