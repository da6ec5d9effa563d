---------------------------- MODULE MCInstallerBeacons ----------------------------
(* InstallerBeacons with interchangeable tokens. *)
EXTENDS InstallerBeacons, TLC

TokenSymmetry == Permutations(Tokens)
=============================================================================
