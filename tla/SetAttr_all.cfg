\* Two concurrent calls on the file and on the link to it, and one replacement.
SPECIFICATION SetAttrSpec
CONSTANTS
  Reqs = {r1, r2}
  Inodes = {i1, i2}
  Askable = {"mode", "uid", "gid", "mtime", "size"}
  Modes = {{8, 7, 6, 5}}
  MaxReplaced = 1
  Link = Link
  Gone = Gone
SYMMETRY Symmetry
INVARIANTS SetAttrTypeOK NoUpdateLost FailureLeavesPrefix ReplyIsFresh ModeIsComplete
