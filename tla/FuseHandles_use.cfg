\* Two handles, one handler at a time.
SPECIFICATION FuseSpec
CONSTANTS
  Files = {f1, f2}
  FDs = {3, 4}
  NoFile = NoFile
  Procs = {p1}
  UseOps = {"write"}
  Sd = Sd
  Handles = {h1, h2}
  MaxRefs = 2
  NoHandle = NoHandle
INVARIANTS UseReachesOwnFile
