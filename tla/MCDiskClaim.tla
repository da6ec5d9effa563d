---------------------------- MODULE MCDiskClaim ----------------------------
(* DiskClaim with interchangeable claims, disks and serials, and its        *)
(* scenarios.                                                              *)
EXTENDS DiskClaim, TLC

ClaimSymmetry == Permutations(Claims) \cup Permutations(Disks) \cup Permutations(Serials)

One == [claims |-> 1, faults |-> 1, crashes |-> 0, reports |-> 1, drops |-> 0, edits |-> 0, lag |-> FALSE]

\* Two claims and a crash; two claims and a trailing cache; one claim with
\* lost writes and a crash, edited, or with reports that miss its disk, or both.
SafetyLimits ==
  {[One EXCEPT !.claims = 2, !.crashes = 1],
   [One EXCEPT !.claims = 2, !.crashes = 1, !.lag = TRUE],
   [One EXCEPT !.faults = 2, !.crashes = 1, !.edits = 1],
   [One EXCEPT !.faults = 2, !.crashes = 1, !.reports = 2, !.drops = 1],
   [One EXCEPT !.reports = 2, !.drops = 1, !.edits = 1]}
LiveLimits == {[One EXCEPT !.claims = 2, !.faults = 2, !.crashes = 1, !.lag = TRUE]}
MovedLimits == {[One EXCEPT !.edits = 1]}
=============================================================================
