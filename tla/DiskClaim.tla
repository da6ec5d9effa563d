------------------------------ MODULE DiskClaim ------------------------------
(***************************************************************************)
(* FrameDiskClaim, the one object that destroys data on a node              *)
(* (internal/controller/frame/framediskclaim_controller.go): a claim names  *)
(* a disk of one machine by path and retyped serial; one worker identifies  *)
(* the disk in the agent's report, reads the marker kept on the machine,    *)
(* authorises, destroys, records completion and ends in Ready or Failed.    *)
(* Every call may fail, the manager may die between any two of them, reads  *)
(* come from an informer cache that trails the API server when lag, and the *)
(* disks of the machine come into use behind everybody's back.  A claim is  *)
(* its UID: an object created again is another member of Claims.            *)
(***************************************************************************)
EXTENDS Integers, FiniteSets

CONSTANTS Claims, Disks, Serials, None,
          Limits        \* the scenarios: what may happen in one behaviour

\* Bounded: claims created, calls that fail, deaths of the manager, reports of
\* the agent, reports that miss a disk, edits and deletions of claims.  When
\* lag, a pass may read an old cache.
Scenario == [claims: Nat, faults: Nat, crashes: Nat, reports: Nat, drops: Nat, edits: Nat, lag: BOOLEAN]

ASSUME ClaimBounds == None \notin Claims \cup Disks \cup Serials /\ Limits \subseteq Scenario

VARIABLES serial,   \* the serial number of each disk, fixed at the factory
          disk,     \* what each disk really is: free, used or half destroyed
          marker,   \* on the machine: whose claim, and whether complete
          api,      \* the API server: the claims and the machine's report
          cache,    \* the manager's copy of it
          queue,    \* claims waiting for a pass
          wk,       \* the worker: its claim, its step, what it has read
          expired,  \* reports up to this one are over observationMaxAge
          longUsed, \* disks in use for longer than observationMaxAge
          began,    \* <<c, d>> : c began to destroy d
          done,     \* claims whose destructive work finished
          spent     \* the scenario of this behaviour, and how much of it is used

vars == <<serial, disk, marker, api, cache, queue, wk, expired, longUsed, began, done, spent>>

Phases == {"", "Claiming", "Ready", "Failed"}
Terminal == {"Ready", "Failed"}
NoClaim == [phase |-> "absent", rec |-> "", serial |-> None, path |-> None]
Idle == [c |-> None, pc |-> "idle", obj |-> NoClaim, disk |-> None, occ |-> "absent", at |-> 0, rec |-> ""]
lim == spent.lim    \* fixed by Init
Spend(b) == spent' = [spent EXCEPT ![b] = @ + 1]
Node == <<serial, disk, marker, longUsed, began, done>>

-----------------------------------------------------------------------------
(* The operator, the agent and the machine.                                *)

\* A claim is created; the CRD demands a by-id path and a serial that is not
\* empty, which a blank one (None) satisfies.
Create(c) ==
  /\ api.claim[c].phase = "absent" /\ c \notin spent.used
  /\ Cardinality(spent.used) < lim.claims
  /\ \E s \in Serials \cup {None}, p \in Disks :
        api' = [api EXCEPT !.claim[c] = [phase |-> "", rec |-> "", serial |-> s, path |-> p]]
  /\ spent' = [spent EXCEPT !.used = @ \cup {c}]
  /\ UNCHANGED <<Node, cache, queue, wk, expired>>

\* The spec has no webhook and no immutability rule.
EditSpec(c) ==
  /\ api.claim[c].phase # "absent" /\ spent.edits < lim.edits
  /\ \E s \in Serials, p \in Disks :
        /\ s # api.claim[c].serial \/ p # api.claim[c].path
        /\ api' = [api EXCEPT !.claim[c].serial = s, !.claim[c].path = p]
  /\ Spend("edits") /\ UNCHANGED <<Node, cache, queue, wk, expired>>

Delete(c) ==
  /\ api.claim[c].phase # "absent" /\ spent.edits < lim.edits
  /\ api' = [api EXCEPT !.claim[c] = NoClaim]
  /\ Spend("edits") /\ UNCHANGED <<Node, cache, queue, wk, expired>>

\* Somebody formats or mounts a free disk.
Occupy(d) ==
  /\ disk[d] = "free"
  /\ disk' = [disk EXCEPT ![d] = "used"]
  /\ UNCHANGED <<serial, marker, longUsed, began, done, api, cache, queue, wk, expired, spent>>

\* PatchObservedStorage: what lsblk shows replaces the list whole.  A half
\* destroyed disk may look free or not; one disk may be missing.
AgentReports ==
  /\ spent.reports < lim.reports
  /\ \E drop \in {{}} \cup {{d} : d \in Disks}, half \in {"free", "used"} :
        /\ drop # {} => spent.drops < lim.drops
        /\ api' = [api EXCEPT !.report = [n |-> spent.reports + 1,
                     occ |-> [d \in Disks |-> IF d \in drop THEN "absent"
                                              ELSE IF disk[d] = "half" THEN half ELSE disk[d]]]]
        /\ spent' = [spent EXCEPT !.reports = @ + 1, !.drops = @ + Cardinality(drop)]
  /\ UNCHANGED <<Node, cache, queue, wk, expired>>

\* observationMaxAge goes by without a report.
Age ==
  /\ expired < spent.reports
  /\ expired' = spent.reports
  /\ longUsed' = {d \in Disks : disk[d] = "used"}
  /\ UNCHANGED <<serial, disk, marker, began, done, api, cache, queue, wk, spent>>

\* The watch delivers; a claim that changed is queued.
CacheSync ==
  /\ cache # api
  /\ cache' = api
  /\ queue' = queue \cup {c \in Claims : cache.claim[c] # api.claim[c]}
  /\ UNCHANGED <<Node, api, wk, expired, spent>>

-----------------------------------------------------------------------------
(* Reconcile.                                                              *)

Ends == wk' = Idle /\ UNCHANGED queue
Requeues == wk' = Idle /\ queue' = queue \cup {wk.c}
Fault == spent.faults < lim.faults /\ Spend("faults")
Goes(pc) == wk' = [wk EXCEPT !.pc = pc] /\ UNCHANGED queue

\* Mutant: a claim that has ended is worked on again.
GetClaimAgain(c) ==
  /\ wk.pc = "idle" /\ c \in queue /\ (lim.lag \/ cache = api)
  /\ queue' = queue \ {c}
  /\ wk' = IF cache.claim[c].phase = "absent" THEN Idle
           ELSE [Idle EXCEPT !.c = c, !.pc = "identify", !.obj = cache.claim[c]]
  /\ UNCHANGED <<Node, api, cache, expired, spent>>

\* A terminal phase is terminal.
GetClaim(c) ==
  /\ wk.pc = "idle" /\ c \in queue /\ (lim.lag \/ cache = api)
  /\ queue' = queue \ {c}
  /\ wk' = IF cache.claim[c].phase \in Terminal \cup {"absent"} THEN Idle
           ELSE [Idle EXCEPT !.c = c, !.pc = "identify", !.obj = cache.claim[c]]
  /\ UNCHANGED <<Node, api, cache, expired, spent>>

\* Guards 1 and 2: the disks of the report that answer to the retyped
\* serial.  Exactly one must, and at the path the claim names.
Matches(obj, report) == {d \in Disks : report.occ[d] # "absent" /\ serial[d] = obj.serial}


Identified(obj, report) ==
  /\ obj.serial # None
  /\ report.n > 0                        \* the agent has reported at least once
  /\ Matches(obj, report) = {obj.path}

Identify ==
  /\ wk.pc = "identify"
  /\ wk' = IF Identified(wk.obj, cache.report)
           THEN [wk EXCEPT !.pc = "marker", !.disk = wk.obj.path,
                           !.occ = cache.report.occ[wk.obj.path], !.at = cache.report.n]
           ELSE [wk EXCEPT !.pc = "fail"]
  /\ UNCHANGED <<Node, api, cache, queue, expired, spent>>

\* Mutant: the age of the report is not looked at.
AuthorisedAnyAge == wk.occ = "free"

\* authoriseDestruction: guard 3.
Authorised == wk.at > expired /\ wk.occ = "free"


\* Mutant: a claim that began is begun again.
AfterMarkerResumes(mk) ==
  IF mk.by = wk.c /\ mk.complete THEN "succeed"
  ELSE IF mk.by \notin {None, wk.c} THEN "fail"
  ELSE IF Authorised THEN "setClaiming" ELSE "fail"

\* Guard 4: our own marker ends the claim one way or the other, anybody
\* else's refuses it, and none at all leads to the guards of destruction.
AfterMarker(mk) ==
  IF mk.by = wk.c THEN IF mk.complete THEN "succeed" ELSE "fail"
  ELSE IF mk.by # None THEN "fail"
  ELSE IF Authorised THEN "setClaiming" ELSE "fail"

ReadMarker ==
  /\ wk.pc = "marker"
  /\ \/ /\ wk' = [wk EXCEPT !.pc = AfterMarker(marker[wk.disk]), !.rec = "True"]
        /\ UNCHANGED <<queue, spent>>
     \/ Requeues /\ Fault
  /\ UNCHANGED <<Node, api, cache, expired>>

\* Mutant: the write brings a deleted claim back.
PatchedUpserts(phase, rec) ==
  api' = [api EXCEPT !.claim[wk.c].phase = phase, !.claim[wk.c].rec = IF rec = "" THEN @ ELSE rec]

\* setPhase: a merge patch of the status, which carries the phase only when
\* it differs from the object read.  On a deleted claim it errors.
Patched(phase, rec) ==
  /\ api.claim[wk.c].phase # "absent"
  /\ api' = [api EXCEPT !.claim[wk.c].phase = IF phase = wk.obj.phase THEN @ ELSE phase,
                        !.claim[wk.c].rec = IF rec = "" THEN @ ELSE rec]

PatchFails ==
  /\ UNCHANGED api
  /\ IF api.claim[wk.c].phase = "absent" THEN UNCHANGED spent ELSE Fault

SetClaiming ==
  /\ wk.pc = "setClaiming"
  /\ \/ Patched("Claiming", "") /\ Goes("claim") /\ UNCHANGED spent
     \/ PatchFails /\ Requeues
  /\ UNCHANGED <<Node, cache, expired>>

\* Wiper.Claim begins: the started marker, then the work.  It may fail
\* before it has written anything.
WiperStarts ==
  /\ wk.pc = "claim"
  /\ \/ /\ marker' = [marker EXCEPT ![wk.disk] = [by |-> wk.c, complete |-> FALSE]]
        /\ disk' = [disk EXCEPT ![wk.disk] = "half"]
        /\ began' = began \cup {<<wk.c, wk.disk>>}
        /\ Goes("wipe") /\ UNCHANGED spent
     \/ Goes("claimError") /\ Fault /\ UNCHANGED <<marker, disk, began>>
  /\ UNCHANGED <<serial, longUsed, done, api, cache, expired>>

\* The work ends.  A wiped disk is free, an OSD in use; a failure leaves it
\* half done, and a lost answer reports a failure that was none.
WiperEnds ==
  /\ wk.pc = "wipe"
  /\ \/ /\ \E to \in {"free", "used"} : disk' = [disk EXCEPT ![wk.disk] = to]
        /\ done' = done \cup {wk.c}
        /\ \/ Goes("markComplete") /\ UNCHANGED spent
           \/ Goes("claimError") /\ Fault
     \/ Goes("claimError") /\ Fault /\ UNCHANGED <<disk, done>>
  /\ UNCHANGED <<serial, marker, longUsed, began, api, cache, expired>>

\* Mutant: a failure after the useful work is Ready all the same.
ClaimErrorSwallowed ==
  /\ wk.pc = "claimError"
  /\ \/ Patched("Ready", "") /\ Ends /\ UNCHANGED spent
     \/ PatchFails /\ Requeues
  /\ UNCHANGED <<Node, cache, expired>>

\* Guard 5: the phase stays Claiming and the error is returned.
ClaimError ==
  /\ wk.pc = "claimError"
  /\ \/ Patched("Claiming", "") /\ UNCHANGED spent
     \/ PatchFails
  /\ Requeues /\ UNCHANGED <<Node, cache, expired>>

\* Mutant: a completion record that could not be written is not told.
MarkCompleteHides ==
  /\ wk.pc = "markComplete"
  /\ \/ /\ marker' = [marker EXCEPT ![wk.disk].complete = TRUE]
        /\ wk' = [wk EXCEPT !.pc = "succeed", !.rec = "True"] /\ UNCHANGED spent
     \/ /\ wk' = [wk EXCEPT !.pc = "succeed", !.rec = "True"] /\ Fault /\ UNCHANGED marker
  /\ UNCHANGED <<serial, disk, longUsed, began, done, api, cache, queue, expired>>

\* MarkComplete: whatever comes of it the phase becomes Ready; a failure is
\* told in the condition.
MarkComplete ==
  /\ wk.pc = "markComplete"
  /\ \/ /\ marker' = [marker EXCEPT ![wk.disk].complete = TRUE]
        /\ wk' = [wk EXCEPT !.pc = "succeed", !.rec = "True"] /\ UNCHANGED spent
     \/ /\ wk' = [wk EXCEPT !.pc = "succeed", !.rec = "False"] /\ Fault /\ UNCHANGED marker
  /\ UNCHANGED <<serial, disk, longUsed, began, done, api, cache, queue, expired>>

Succeed ==
  /\ wk.pc = "succeed"
  /\ \/ Patched("Ready", wk.rec) /\ Ends /\ UNCHANGED spent
     \/ PatchFails /\ Requeues
  /\ UNCHANGED <<Node, cache, expired>>

\* Mutant: a refusal that cannot be written is forgotten.
FailForgets ==
  /\ wk.pc = "fail"
  /\ \/ Patched("Failed", "") /\ Ends /\ UNCHANGED spent
     \/ PatchFails /\ Ends
  /\ UNCHANGED <<Node, cache, expired>>

Fail ==
  /\ wk.pc = "fail"
  /\ \/ Patched("Failed", "") /\ Ends /\ UNCHANGED spent
     \/ PatchFails /\ Requeues
  /\ UNCHANGED <<Node, cache, expired>>

\* The manager dies and comes back: everything is listed and queued.  What
\* it had started on the node stops half way or runs to its end.
Crash ==
  /\ spent.crashes < lim.crashes /\ Spend("crashes")
  /\ wk' = Idle /\ cache' = api
  /\ queue' = {c \in Claims : api.claim[c].phase # "absent"}
  /\ \/ UNCHANGED <<disk, done>>
     \/ /\ wk.pc = "wipe" /\ done' = done \cup {wk.c}
        /\ \E to \in {"free", "used"} : disk' = [disk EXCEPT ![wk.disk] = to]
  /\ UNCHANGED <<serial, marker, longUsed, began, api, expired>>

Pass == \/ Identify \/ ReadMarker \/ SetClaiming \/ WiperStarts \/ WiperEnds
        \/ ClaimError \/ MarkComplete \/ Succeed \/ Fail

Init ==
  /\ serial \in [Disks -> Serials]
  /\ disk \in [Disks -> {"free", "used"}]
  /\ marker = [d \in Disks |-> [by |-> None, complete |-> FALSE]]
  /\ api = [claim |-> [c \in Claims |-> NoClaim],
            report |-> [n |-> 0, occ |-> [d \in Disks |-> "absent"]]]
  /\ cache = api /\ queue = {} /\ wk = Idle
  /\ expired = 0 /\ longUsed = {} /\ began = {} /\ done = {}
  /\ \E l \in Limits :
       spent = [faults |-> 0, crashes |-> 0, reports |-> 0, drops |-> 0, edits |-> 0, used |-> {}, lim |-> l]

Next ==
  \/ \E c \in Claims : Create(c) \/ EditSpec(c) \/ Delete(c) \/ GetClaim(c)
  \/ \E d \in Disks : Occupy(d)
  \/ AgentReports \/ Age \/ CacheSync \/ Pass \/ Crash

Spec == Init /\ [][Next]_vars

\* The worker takes whatever is queued and goes on while the manager lives;
\* the watch delivers.  Nothing is asked of the operator or the agent.
FairSpec == Spec /\ WF_vars(Pass) /\ WF_vars(CacheSync) /\ \A c \in Claims : SF_vars(GetClaim(c))

-----------------------------------------------------------------------------
(* Properties.                                                             *)

\* Every variable has its type.
TypeOK ==
  LET Claim == {NoClaim} \cup [phase : Phases, rec : {"", "True", "False"},
                                serial : Serials \cup {None}, path : Disks]
      Report == [n : 0..lim.reports, occ : [Disks -> {"free", "used", "absent"}]]
      Server == [claim : [Claims -> Claim], report : Report]
  IN /\ serial \in [Disks -> Serials] /\ disk \in [Disks -> {"free", "used", "half"}]
     /\ marker \in [Disks -> [by : Claims \cup {None}, complete : BOOLEAN]]
     /\ api \in Server /\ cache \in Server /\ queue \subseteq Claims
     /\ wk \in [c : Claims \cup {None}, obj : Claim, disk : Disks \cup {None},
                pc : {"idle", "identify", "marker", "setClaiming", "claim", "wipe",
                      "claimError", "markComplete", "succeed", "fail"},
                occ : {"free", "used", "absent"}, at : 0..lim.reports, rec : {"", "True", "False"}]
     /\ expired \in 0..lim.reports /\ longUsed \subseteq Disks
     /\ began \subseteq Claims \X Disks /\ done \subseteq Claims

\* Whatever crashes, retries, edits and stale reads come between, no disk is
\* destroyed by two claims or by one claim twice: from the moment of the
\* first start the marker on the machine refuses every other.
OneWipePerDisk ==
  [][wk.pc = "claim" /\ wk'.pc = "wipe" => marker[wk.disk].by = None]_vars

\* A claim says Ready only if the destructive work finished, and says that
\* its completion is recorded only if the record is on the machine.
ReadyIsDone ==
  \A c \in Claims :
    /\ api.claim[c].phase = "Ready" => c \in done
    /\ api.claim[c].rec = "True" => \E d \in Disks : marker[d] = [by |-> c, complete |-> TRUE]

\* A disk that has been in use for longer than observationMaxAge is never
\* authorised, however old the report the cache holds.
AuthorisedIsRecent ==
  [][wk.pc = "marker" /\ wk'.pc = "setClaiming" => wk.disk \notin longUsed]_vars



\* "A terminal phase is terminal": through crashes, lost writes and edits, as
\* long as the pass that follows it reads what the last one wrote.
TerminalIsTerminal ==
  [][~lim.lag => \A c \in Claims : api.claim[c].phase \in Terminal =>
        api'.claim[c].phase \in {api.claim[c].phase, "absent"}]_vars

\* A claim is "a one-shot act": it destroys at most one disk.
OneDiskPerClaim ==
  \A c \in Claims : Cardinality({d \in Disks : <<c, d>> \in began}) <= 1

\* Once faults, crashes and edits are over, every claim ends.
ClaimEnds ==
  \A c \in Claims : api.claim[c].phase \in {"", "Claiming"} ~> api.claim[c].phase \in Terminal \cup {"absent"}
=============================================================================
