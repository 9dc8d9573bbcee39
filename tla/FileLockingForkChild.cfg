SPECIFICATION Spec
CONSTANTS
  Procs = {p1, p2, p3}
  Readers = {p1, p2, p3}
  Writers = {p1, p2, p3}
  Inodes = {1, 2, 3, 4}
  NoInode = NoInode
  NoFd = NoFd
  PrioritiseWriteLocks = FALSE
  NonBlock = {FALSE}
  CanFork = TRUE
  CanCrash = FALSE
INVARIANTS ExclusionAcrossFork
