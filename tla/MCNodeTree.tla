------------------------------ MODULE MCNodeTree ------------------------------
(* Small instances of NodeTree for TLC.                                      *)
EXTENDS NodeTree, TLC

ContainerRoot == <<>>
FirstName == <<CHOOSE x \in Names : TRUE>>

Symmetry ==
  Permutations(Names) \cup Permutations(Inodes \ ({RootIno} \cup LowInodes))
    \cup Permutations(NodeIds \ {RootNode}) \cup Permutations(Procs)
===============================================================================
