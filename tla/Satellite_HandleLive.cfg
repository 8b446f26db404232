\* Two concurrent handlers.
SPECIFICATION ProperSpec
CONSTANTS
  Files = {f1, f2}
  FDs = {3, 4}
  NoFile = NoFile
  Procs = {p1, p2}
  UseOps = {"read"}
  Sd = Sd
CONSTRAINT SynchronisedMap
INVARIANTS HandleLive
