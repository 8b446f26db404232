------------------------------ MODULE MCSetAttr ------------------------------
(* SetAttr for TLC: the calls and the inodes are interchangeable. *)
EXTENDS SetAttr, TLC

Symmetry == Permutations(Reqs) \cup Permutations(Inodes)
===============================================================================
