--------------------------- MODULE MCFrameInstall ---------------------------
(* FrameInstall on objects that ask for one hostname.                       *)
EXTENDS FrameInstall, TLC

SameHost == [i \in Installs |-> "node-a"]

\* The placeholders SomeInstall and SomeMachine are not symmetric, and are
\* written only to slots that no action and no property reads: an idle
\* worker, a run or an object that is not there yet.
InstallSymmetry == Permutations(Installs) \cup Permutations(Machines)
=============================================================================
