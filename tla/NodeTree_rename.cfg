\* A mount of one directory of the container, and one call at a time.
SPECIFICATION TreeSpec
CONSTANTS
  Names = {a, b}
  Inodes = {root, i1, i2}
  RootIno = root
  LowInodes = {}
  NodeIds = {nroot, n1}
  RootNode = nroot
  Procs = {p1}
  Mount <- FirstName
  Cwd <- ContainerRoot
  OutsideKinds = {}
  StatErrors = {}
  MaxOutside = 0
  None = None
INVARIANT NodesReachable
