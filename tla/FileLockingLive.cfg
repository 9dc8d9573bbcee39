\* A writer and two readers that keep asking, with writer priority.
SPECIFICATION FairSpec
CONSTANTS
  Procs = {p1, p2, p3}
  Readers = {p2, p3}
  Writers = {p1}
  Inodes = {1, 2, 3, 4}
  NoInode = NoInode
  NoFd = NoFd
  PrioritiseWriteLocks = TRUE
  NonBlock = {FALSE}
  CanFork = FALSE
  CanCrash = FALSE
INVARIANTS NoLitter
PROPERTIES WritersNotStalled
