---------------------------- MODULE MCImageBuild ----------------------------
(* ImageBuild with interchangeable tokens. *)
EXTENDS ImageBuild, TLC

TokenSymmetry == Permutations(Tokens)
=============================================================================
