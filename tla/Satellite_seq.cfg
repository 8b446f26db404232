\* One handler at a time, any client: handles used twice, closed twice, unknown.
SPECIFICATION Spec
CONSTANTS
  Files = {f1, f2, f3}
  FDs = {3, 4}
  NoFile = NoFile
  Procs = {p1}
  UseOps = {"read", "write"}
  Sd = Sd
INVARIANTS IndInv SerialInv NoPanic RestIsExact HandleLive
PROPERTIES KeepsPromise
