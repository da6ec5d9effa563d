---------------------------- MODULE MCNodeTuning ----------------------------
(* NodeTuning with interchangeable nodes and objects, and its scenarios. *)
EXTENDS NodeTuning, TLC

TuningSymmetry == Permutations(Nodes) \cup Permutations(Tunings)

Quiet == [tunings |-> 1, width |-> 1, edits |-> 0, cordons |-> 1, stray |-> 0, crash |-> 0, fault |-> 0,
          lost |-> 0, release |-> 0, deletes |-> 0, flap |-> FALSE, lag |-> FALSE]

\* Two NodeTunings on two nodes; two nodes and a dying manager; a trailing
\* cache; edits with nodes that come and go; a rollout ended from outside by an
\* edit, a hand release or a deletion.
SafetyLimits ==
  {[Quiet EXCEPT !.tunings = 2, !.width = 2],
   [Quiet EXCEPT !.width = 2, !.cordons = 2, !.crash = 1],
   [Quiet EXCEPT !.cordons = 2, !.lag = TRUE, !.crash = 1, !.fault = 1],
   [Quiet EXCEPT !.cordons = 2, !.edits = 1, !.flap = TRUE],
   [Quiet EXCEPT !.edits = 1, !.deletes = 1, !.fault = 1],
   [Quiet EXCEPT !.release = 1, !.deletes = 1, !.fault = 1]}
LiveLimits == {[Quiet EXCEPT !.crash = 1, !.fault = 1, !.deletes = 1, !.stray = 1, !.lost = 1]}
CrashLimits == {[Quiet EXCEPT !.cordons = 2, !.crash = 1]}
=============================================================================
