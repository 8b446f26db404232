\* Two calls at a time and another process, in a mount of the whole container.
SPECIFICATION TreeSpec
CONSTANTS
  Names = {a, b}
  Inodes = {root, i1, i2}
  RootIno = root
  LowInodes = {}
  NodeIds = {nroot, n1, n2}
  RootNode = nroot
  Procs = {p1, p2}
  Mount <- ContainerRoot
  Cwd <- ContainerRoot
  OutsideKinds = {"sock"}
  StatErrors = {"link"}
  MaxOutside = 1
  None = None
SYMMETRY Symmetry
INVARIANTS TreeInv UnmovedReachable TwoStepsAgree RenameLands ListingIsFaithful
PROPERTIES RenameTakesChild
