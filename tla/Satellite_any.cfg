\* Two concurrent handlers and a shutdown, any client, with fairness.
SPECIFICATION FairSpec
CONSTANTS
  Files = {f1, f2}
  FDs = {3}
  NoFile = NoFile
  Procs = {p1, p2}
  UseOps = {"read"}
  Sd = Sd
INVARIANTS OwnDescriptor StaleAlreadyClosed
PROPERTIES Answered ExitsAfterEOF ShutdownEnds
