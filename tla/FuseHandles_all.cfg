\* Two handles, three concurrent handlers, an unsynchronised map.
SPECIFICATION FuseSpec
CONSTANTS
  Files = {f1, f2}
  FDs = {3, 4}
  NoFile = NoFile
  Procs = {p1, p2, p3}
  UseOps = {"read"}
  Sd = Sd
  Handles = {h1, h2}
  MaxRefs = 2
  NoHandle = NoHandle
INVARIANTS FuseTypeOK ReleasedIsShut
 
