\* One call, with and without setuid, and nothing else.
SPECIFICATION SetAttrSpec
CONSTANTS
  Reqs = {r1}
  Inodes = {i1}
  Askable = {"mode"}
  Modes = {{8, 7, 6}, {11, 8, 7, 6}}
  MaxReplaced = 0
  Link = Link
  Gone = Gone
INVARIANTS ModeIsComplete
