---------------------------- MODULE FrameInstall ----------------------------
(***************************************************************************)
(* The FrameInstall controller (internal/controller/frame), the            *)
(* provision.Install goroutine it starts (internal/provision) and the BMC  *)
(* that goroutine drives.                                                  *)
(*                                                                         *)
(* Three kinds of process interleave here:                                 *)
(*   - the one reconcile worker (SetupWithManager leaves                   *)
(*     MaxConcurrentReconciles at 1), which reads objects through the      *)
(*     manager's informer cache;                                           *)
(*   - one goroutine per started installation (a "run");                   *)
(*   - people, who create, edit and delete FrameInstall objects.           *)
(* inFlight is the memory that keeps them apart.  A crash of the manager   *)
(* loses inFlight and every run, and keeps the API objects and the BMCs.   *)
(***************************************************************************)
EXTENDS Integers, FiniteSets

CONSTANTS Installs,     \* FrameInstall objects
          Machines,     \* FrameMachine objects, one BMC each
          NoInstall,    \* an inFlight slot nobody holds
          Host,         \* spec.hostname of each install
          InitMode,     \* installs whose spec.cluster.mode is "init"
          MaxRuns,      \* bound: provision.Install calls
          MaxGen,       \* bound: metadata.generation (1 = nobody edits a spec)
          MaxCrashes,   \* bound: manager restarts
          MaxFaults,    \* bound: refused status writes
          MaxSpread,    \* bound: machines in use plus objects deleted
          Lag           \* whether the informer cache may trail the API server

ASSUME RunsAssumption == MaxRuns \in Nat
ASSUME GenAssumption == MaxGen \in Nat \ {0}
ASSUME BoundsAssumption == {MaxCrashes, MaxFaults, MaxSpread} \subseteq Nat /\ Lag \in BOOLEAN
ASSUME SetsAssumption == Installs # {} /\ Machines # {}
ASSUME HostAssumption == DOMAIN Host = Installs /\ InitMode \subseteq Installs
ASSUME NoInstallAssumption == NoInstall \notin Installs

VARIABLES api,        \* FrameInstall objects at the API server
          cache,      \* the manager's informer cache: a past value of api
          inFlight,   \* r.inFlight: machineRef -> install
          wk,         \* the reconcile worker
          runs,       \* provision.Install goroutines
          bmc,        \* virtual media and one-time boot override per machine
          booted,     \* the image each machine last booted and installed from
          images,     \* images provisiond holds, by run
          kubeconfigs,\* installs whose kubeconfig Secret exists
          abandoned,  \* machines a finalizer gave up on (BMC unreachable)
          crashes, faults

vars == <<api, cache, inFlight, wk, runs, bmc, booted, images, kubeconfigs, abandoned, crashes, faults>>
mgrVars == <<cache, inFlight, wk, runs>>
worldVars == <<bmc, booted, images, kubeconfigs, abandoned>>

-----------------------------------------------------------------------------
RunIds == 1 .. MaxRuns
NoRun == 0

Phases == {"", "Pending", "Preparing", "MediaAttached", "Installing",
           "Installed", "Joining", "Ready", "Failed"}
Terminal == {"Ready", "Failed"}

\* One FrameInstall: where it is in its life, its spec and its status.  cond
\* is whether status carries an InstallerResponding condition.
Objects == [st: {"absent", "live", "deleting", "gone"}, gen: 1 .. MaxGen,
            machine: Machines, fin: BOOLEAN,
            phase: Phases, obs: 0 .. MaxGen, cond: BOOLEAN]

WkPcs == {"idle", "addfin", "check", "liveness", "setcond", "guards", "refuse",
          "claim", "stamp", "spawn", "restarted", "markfailed",
          "finalize", "release", "unfin"}

RunPcs == {"none", "start", "serial", "prep", "build", "media", "insert", "boot",
           "reset", "installing", "wait", "installed", "joining", "join",
           "nodeready", "eject", "clear", "remove", "settle", "finish", "free",
           "done", "killed"}
Live == RunPcs \ {"none", "done", "killed"}

Run == [pc: RunPcs, i: Installs, m: Machines, res: {"Ready", "Failed"},
        ejected: BOOLEAN, clean: BOOLEAN, kube: BOOLEAN]

\* Placeholders for slots that hold nothing yet.
SomeInstall == CHOOSE i \in Installs : TRUE
SomeMachine == CHOOSE m \in Machines : TRUE
NewObject == [st |-> "absent", gen |-> 1, machine |-> SomeMachine, fin |-> FALSE,
              phase |-> "", obs |-> 0, cond |-> FALSE]

LiveRun(r) == runs[r].pc \in Live

\* What a read through the manager's client returns.
View(i) == IF Lag THEN cache[i] ELSE api[i]

\* A JSON merge patch of the status carries only the fields in which the new
\* object differs from the base it was built from (client.MergeFrom).
MergePatch(cur, base, new) ==
  [cur EXCEPT !.phase = IF new.phase # base.phase THEN new.phase ELSE @,
              !.obs = IF new.obs # base.obs THEN new.obs ELSE @,
              !.cond = IF new.cond # base.cond THEN new.cond ELSE @]

Exists(i) == api[i].st \in {"live", "deleting"}

\* r.Status().Patch: lands when the object is still there.
StatusPatch(i, base, new) ==
  /\ Exists(i)
  /\ api' = [api EXCEPT ![i] = MergePatch(@, base, new)]
  /\ UNCHANGED faults

\* ... or comes back with an error: NotFound, or an API server that failed.
StatusPatchFails(i) ==
  /\ UNCHANGED api
  /\ \/ ~Exists(i) /\ UNCHANGED faults
     \/ Exists(i) /\ faults < MaxFaults /\ faults' = faults + 1

-----------------------------------------------------------------------------
(* People.                                                                 *)

Spread(machines) ==
  Cardinality({api[i].machine : i \in {j \in Installs : api[j].st # "absent"}} \cup machines)
    + Cardinality({i \in Installs : api[i].st \in {"deleting", "gone"}})

Create(i, m) ==
  /\ api[i].st = "absent" /\ Spread({m}) <= MaxSpread
  /\ api' = [api EXCEPT ![i].st = "live", ![i].machine = m]
  /\ UNCHANGED <<mgrVars, worldVars, crashes, faults>>

\* A spec edit bumps metadata.generation; nothing makes machineRef immutable.
Edit(i, m) ==
  /\ api[i].st = "live" /\ api[i].gen < MaxGen /\ Spread({m}) <= MaxSpread
  /\ api' = [api EXCEPT ![i].gen = @ + 1, ![i].machine = m]
  /\ UNCHANGED <<mgrVars, worldVars, crashes, faults>>

\* Deletion waits for the finalizer when there is one.
Delete(i) ==
  /\ api[i].st = "live" /\ Spread({}) < MaxSpread
  /\ api' = [api EXCEPT ![i].st = IF api[i].fin THEN "deleting" ELSE "gone"]
  /\ UNCHANGED <<mgrVars, worldVars, crashes, faults>>

\* The informer delivers events in order, so the cache is always a past value.
CacheSync ==
  /\ Lag /\ cache # api
  /\ cache' = api
  /\ UNCHANGED <<api, inFlight, wk, runs, worldVars, crashes, faults>>

-----------------------------------------------------------------------------
(* The reconcile worker.  wk.obj is the object as Reconcile's Get read it. *)

\* Where the worker is between two Reconcile calls: it holds no object.
Idle == [pc |-> "idle", i |-> SomeInstall, obj |-> NewObject]

Goto(pc) == wk' = IF pc = "idle" THEN Idle ELSE [wk EXCEPT !.pc = pc]
WkQuiet == UNCHANGED <<cache, inFlight, runs, worldVars, crashes>>

\* Mutant: no early return on a terminal phase.
WkGetTerminalToo(i) ==
  /\ wk.pc = "idle" /\ View(i).st = "live"
  /\ wk' = [pc |-> IF View(i).fin THEN "check" ELSE "addfin", i |-> i, obj |-> View(i)]
  /\ UNCHANGED <<api, faults>> /\ WkQuiet

\* Reconcile, from Get to the first branch that is not decided by the object
\* itself.  A terminal phase, or a deletion whose finalizer is already gone,
\* returns at once: a call that does nothing is no step here.
WkGet(i) ==
  /\ wk.pc = "idle" /\ View(i).st \in {"live", "deleting"}
  /\ View(i).fin => (View(i).st = "deleting" \/ View(i).phase \notin Terminal)
  /\ ~View(i).fin => View(i).st = "live"
  /\ wk' = [pc |-> CASE View(i).st = "deleting" -> "finalize"
                     [] View(i).st = "live" /\ ~View(i).fin -> "addfin"
                     [] OTHER -> "check",
            i |-> i, obj |-> View(i)]
  /\ UNCHANGED <<api, faults>> /\ WkQuiet

\* r.Update carries the resourceVersion it read: a stale object conflicts.
WkAddFinalizer ==
  /\ wk.pc = "addfin" /\ Goto("idle")
  /\ api' = IF api[wk.i] = wk.obj THEN [api EXCEPT ![wk.i].fin = TRUE] ELSE api
  /\ UNCHANGED faults /\ WkQuiet

\* Mutant: observedGeneration is looked at before running().
WkCheckObsFirst ==
  /\ wk.pc = "check"
  /\ Goto(CASE wk.obj.obs = wk.obj.gen -> "restarted"
            [] wk.obj.obs # wk.obj.gen /\ inFlight[wk.obj.machine] # NoInstall -> "liveness"
            [] OTHER -> "guards")
  /\ UNCHANGED <<api, faults>> /\ WkQuiet

\* Mutant: a committed install without a goroutine is left alone.
WkCheckForgets ==
  /\ wk.pc = "check"
  /\ Goto(CASE inFlight[wk.obj.machine] # NoInstall -> "liveness"
            [] inFlight[wk.obj.machine] = NoInstall /\ wk.obj.obs = wk.obj.gen -> "idle"
            [] OTHER -> "guards")
  /\ UNCHANGED <<api, faults>> /\ WkQuiet

\* running(), then the restart-recovery test on observedGeneration.
WkCheck ==
  /\ wk.pc = "check"
  /\ Goto(CASE inFlight[wk.obj.machine] # NoInstall -> "liveness"
            [] inFlight[wk.obj.machine] = NoInstall /\ wk.obj.obs = wk.obj.gen -> "restarted"
            [] OTHER -> "guards")
  /\ UNCHANGED <<api, faults>> /\ WkQuiet

\* reportInstallerLiveness polls only in Installing; setCondition then reads
\* the object again and looks at its phase before it patches.
WkLiveness ==
  /\ wk.pc = "liveness"
  /\ wk' = IF wk.obj.phase = "Installing" /\ View(wk.i).phase = "Installing"
           THEN [wk EXCEPT !.pc = "setcond", !.obj = View(wk.i)]
           ELSE Idle
  /\ UNCHANGED <<api, faults>> /\ WkQuiet

WkSetCondition ==
  /\ wk.pc = "setcond" /\ Goto("idle")
  /\ \/ Exists(wk.i) /\ api' = [api EXCEPT ![wk.i].cond = TRUE] /\ UNCHANGED faults
     \/ StatusPatchFails(wk.i)
  /\ WkQuiet

\* Mutant: an install that has not reported a phase yet does not count.
HostnameTakenIfStarted(i) ==
  \E j \in Installs \ {i} : /\ Host[j] = Host[i]
                            /\ View(j).st \in {"live", "deleting"}
                            /\ View(j).phase \notin Terminal \cup {""}

\* checkHostnameNotTaken: another install of this hostname, by UID, that the
\* manager has not seen finish.
HostnameTaken(i) ==
  \E j \in Installs \ {i} : /\ Host[j] = Host[i]
                            /\ View(j).st \in {"live", "deleting"}
                            /\ View(j).phase \notin Terminal

\* The refusals that are decided outside this model (no such machine, media
\* URL not configured, a live cluster member, unreadable Secrets, ...) may
\* happen at any attempt.
WkGuards ==
  /\ wk.pc = "guards"
  /\ \/ Goto("refuse")
     \/ ~HostnameTaken(wk.i) /\ Goto("claim")
  /\ UNCHANGED <<api, faults>> /\ WkQuiet

\* failPending.
WkRefuse ==
  /\ wk.pc = "refuse" /\ Goto("idle")
  /\ \/ StatusPatch(wk.i, wk.obj, [wk.obj EXCEPT !.phase = "Failed"])
     \/ StatusPatchFails(wk.i)
  /\ WkQuiet

\* startInstall: check-and-set of inFlight under the mutex.
WkClaim ==
  /\ wk.pc = "claim"
  /\ \E r \in RunIds : runs[r].pc = "none"
  /\ IF inFlight[wk.obj.machine] # NoInstall
       THEN Goto("idle") /\ UNCHANGED inFlight
       ELSE /\ Goto("stamp")
            /\ inFlight' = [inFlight EXCEPT ![wk.obj.machine] = wk.i]
  /\ UNCHANGED <<api, faults, cache, runs, worldVars, crashes>>

\* Mutant: the goroutine is started without the durable commit.
WkStampNothing ==
  /\ wk.pc = "stamp" /\ Goto("spawn")
  /\ UNCHANGED <<api, faults>> /\ WkQuiet

\* Mutant: commits the generation after the one it read.
WkStampNextGen ==
  /\ wk.pc = "stamp" /\ Goto("spawn")
  /\ StatusPatch(wk.i, wk.obj, [wk.obj EXCEPT !.obs = wk.obj.gen + 1])
  /\ WkQuiet

\* The durable commit of this generation, strictly before the goroutine.
WkStamp ==
  /\ wk.pc = "stamp"
  /\ \/ /\ StatusPatch(wk.i, wk.obj, [wk.obj EXCEPT !.obs = wk.obj.gen])
        /\ Goto("spawn") /\ UNCHANGED inFlight
     \/ /\ StatusPatchFails(wk.i)
        /\ Goto("idle")
        /\ inFlight' = [inFlight EXCEPT ![wk.obj.machine] = NoInstall]
  /\ UNCHANGED <<cache, runs, worldVars, crashes>>

\* newInstallUID, then "go r.runInstall(...)"; without a UID the claim is
\* given back and the install refused.
WkSpawn(r) ==
  /\ wk.pc = "spawn"
  /\ runs[r].pc = "none" /\ \A q \in RunIds : q < r => runs[q].pc # "none"
  /\ \/ /\ runs' = [runs EXCEPT ![r].pc = "start", ![r].i = wk.i, ![r].m = wk.obj.machine]
        /\ Goto("idle") /\ UNCHANGED inFlight
     \/ /\ inFlight' = [inFlight EXCEPT ![wk.obj.machine] = NoInstall]
        /\ Goto("refuse") /\ UNCHANGED runs
  /\ UNCHANGED <<api, faults, cache, worldVars, crashes>>

\* What EjectMedia and ClearBootOverride may leave behind on machine m.
EjectAndClear(m, ok) ==
  \E media \in {NoRun, bmc[m].media}, boot \in {FALSE, bmc[m].boot} :
    /\ ok => (media = NoRun /\ boot = FALSE)
    /\ bmc' = [bmc EXCEPT ![m] = [media |-> media, boot |-> boot]]

\* failRestarted, the BMC half.  A failed or impossible cleanup only changes
\* the message.
WkRestarted ==
  /\ wk.pc = "restarted" /\ Goto("markfailed")
  /\ \E ok \in BOOLEAN : EjectAndClear(wk.obj.machine, ok)
  /\ UNCHANGED <<api, faults, cache, inFlight, runs, booted, images, kubeconfigs, abandoned, crashes>>

WkMarkFailed ==
  /\ wk.pc = "markfailed" /\ Goto("idle")
  /\ \/ StatusPatch(wk.i, wk.obj, [wk.obj EXCEPT !.phase = "Failed", !.cond = FALSE])
     \/ StatusPatchFails(wk.i)
  /\ WkQuiet

\* Mutant: finalize does not wait for a running goroutine.
WkFinalizeRaces ==
  /\ wk.pc = "finalize" /\ Goto("release")
  /\ UNCHANGED <<api, faults>> /\ WkQuiet

\* finalize: a running goroutine is waited for.
WkFinalize ==
  /\ wk.pc = "finalize"
  /\ Goto(IF inFlight[wk.obj.machine] # NoInstall THEN "idle" ELSE "release")
  /\ UNCHANGED <<api, faults>> /\ WkQuiet

\* Mutant: a failed eject lets the deletion through.
WkReleaseAnyway ==
  /\ wk.pc = "release" /\ Goto("unfin")
  /\ \E ok \in BOOLEAN : EjectAndClear(wk.obj.machine, ok)
  /\ UNCHANGED <<api, faults, cache, inFlight, runs, booted, images, kubeconfigs, abandoned, crashes>>

\* An error keeps the finalizer; a machine or BMC that cannot be addressed at
\* all lets the deletion through.
WkRelease ==
  /\ wk.pc = "release"
  /\ \/ EjectAndClear(wk.obj.machine, TRUE) /\ Goto("unfin") /\ UNCHANGED abandoned
     \/ EjectAndClear(wk.obj.machine, FALSE) /\ Goto("idle") /\ UNCHANGED abandoned
     \/ /\ abandoned' = abandoned \cup {wk.obj.machine}
        /\ Goto("unfin") /\ UNCHANGED bmc
  /\ UNCHANGED <<api, faults, cache, inFlight, runs, booted, images, kubeconfigs, crashes>>

WkRemoveFinalizer ==
  /\ wk.pc = "unfin" /\ Goto("idle")
  /\ api' = IF api[wk.i] = wk.obj
            THEN [api EXCEPT ![wk.i].fin = FALSE, ![wk.i].st = "gone"] ELSE api
  /\ UNCHANGED faults /\ WkQuiet

WkStep ==
  \/ WkAddFinalizer \/ WkCheck \/ WkLiveness \/ WkSetCondition
  \/ WkGuards \/ WkRefuse \/ WkClaim \/ WkStamp \/ (\E r \in RunIds : WkSpawn(r))
  \/ WkRestarted \/ WkMarkFailed
  \/ WkFinalize \/ WkRelease \/ WkRemoveFinalizer

-----------------------------------------------------------------------------
(* provision.Install, one action per call it makes, then finishStatus and  *)
(* finishInstall.                                                          *)

At(r, pc) == runs[r].pc = pc
Advance(r, pc) == runs' = [runs EXCEPT ![r].pc = pc]
RunQuiet == UNCHANGED <<cache, inFlight, wk, crashes>>

\* A goroutine that is gone keeps only which machine it was for.
Ended(r, pc) == [runs[r] EXCEPT !.pc = pc, !.res = "Failed", !.ejected = FALSE,
                                !.clean = TRUE, !.kube = FALSE]

\* reportPhase reads through the cache, patches, and drops any error.
ReportPhase(i, p) ==
  \/ StatusPatch(i, View(i), [View(i) EXCEPT !.phase = p])
  \/ StatusPatchFails(i)

\* report(P) with nothing else between two calls.
Report(r, at, p, next) ==
  /\ At(r, at) /\ Advance(r, next) /\ ReportPhase(runs[r].i, p)
  /\ UNCHANGED worldVars /\ RunQuiet

RunReport(r) ==
  \/ Report(r, "start", "Pending", "serial")
  \/ Report(r, "prep", "Preparing", "build")
  \/ Report(r, "media", "MediaAttached", "insert")
  \/ Report(r, "installing", "Installing", "wait")
  \/ Report(r, "installed", "Installed", "joining")
  \/ Report(r, "joining", "Joining", "join")

\* fail(P, err): the outcome is Failed and is reported before any cleanup.
Fail(r, next) ==
  /\ runs' = [runs EXCEPT ![r].pc = next, ![r].res = "Failed"]
  /\ ReportPhase(runs[r].i, "Failed")

\* Validation, BMC.Serial and checkConfirmedSerial.
RunSerial(r) ==
  /\ At(r, "serial")
  /\ \/ Advance(r, "prep") /\ UNCHANGED <<api, faults>>
     \/ Fail(r, "finish")
  /\ UNCHANGED worldVars /\ RunQuiet

\* Images.Build; provisiond discards what a failed build left.
RunBuild(r) ==
  /\ At(r, "build")
  /\ \/ /\ images' = images \cup {r}
        /\ Advance(r, "media") /\ UNCHANGED <<api, faults>>
     \/ Fail(r, "finish") /\ UNCHANGED images
  /\ UNCHANGED <<bmc, booted, kubeconfigs, abandoned>> /\ RunQuiet

\* InsertMedia and the MediaInserted read-back: only media that was read back
\* is booted; a failed call may have attached it all the same.
RunInsert(r) ==
  /\ At(r, "insert")
  /\ \/ /\ bmc' = [bmc EXCEPT ![runs[r].m].media = r]
        /\ Advance(r, "boot") /\ UNCHANGED <<api, faults>>
     \/ /\ \E got \in {r, bmc[runs[r].m].media} : bmc' = [bmc EXCEPT ![runs[r].m].media = got]
        /\ Fail(r, "eject")
  /\ UNCHANGED <<booted, images, kubeconfigs, abandoned>> /\ RunQuiet

RunBootOnce(r) ==
  /\ At(r, "boot")
  /\ \/ /\ bmc' = [bmc EXCEPT ![runs[r].m].boot = TRUE]
        /\ Advance(r, "reset") /\ UNCHANGED <<api, faults>>
     \/ /\ \E b \in {TRUE, bmc[runs[r].m].boot} : bmc' = [bmc EXCEPT ![runs[r].m].boot = b]
        /\ Fail(r, "eject")
  /\ UNCHANGED <<booted, images, kubeconfigs, abandoned>> /\ RunQuiet

\* A power cycle boots the one-time override, when there is one and media is
\* attached; the override is spent.
PowerCycle(m) ==
  /\ booted' = [booted EXCEPT ![m] = IF bmc[m].boot /\ bmc[m].media # NoRun THEN bmc[m].media ELSE @]
  /\ bmc' = [bmc EXCEPT ![m].boot = FALSE]

RunReset(r) ==
  /\ At(r, "reset")
  /\ \/ PowerCycle(runs[r].m) /\ Advance(r, "installing") /\ UNCHANGED <<api, faults>>
     \/ (PowerCycle(runs[r].m) \/ UNCHANGED <<bmc, booted>>) /\ Fail(r, "eject")
  /\ UNCHANGED <<images, kubeconfigs, abandoned>> /\ RunQuiet

\* WaitForOurSystem ends on the marker of this very run, or on its deadline.
RunWait(r) ==
  /\ At(r, "wait")
  /\ \/ booted[runs[r].m] = r /\ Advance(r, "installed") /\ UNCHANGED <<api, faults>>
     \/ Fail(r, "eject")
  /\ UNCHANGED worldVars /\ RunQuiet

\* Dial and Join; init mode brings a kubeconfig back.
RunJoin(r) ==
  /\ At(r, "join")
  /\ \/ /\ runs' = [runs EXCEPT ![r].pc = "nodeready", ![r].kube = runs[r].i \in InitMode]
        /\ UNCHANGED <<api, faults>>
     \/ Fail(r, "eject")
  /\ UNCHANGED worldVars /\ RunQuiet

\* The NodeReady poll.  Ready is reported here, before the deferred cleanup.
RunNodeReady(r) ==
  /\ At(r, "nodeready")
  /\ \/ /\ runs' = [runs EXCEPT ![r].pc = "eject", ![r].res = "Ready"]
        /\ ReportPhase(runs[r].i, "Ready")
     \/ Fail(r, "eject")
  /\ UNCHANGED worldVars /\ RunQuiet

\* The deferred cleanup: eject, clear, and remove the image only when the
\* eject succeeded.
RunEject(r) ==
  /\ At(r, "eject")
  /\ \/ /\ bmc' = [bmc EXCEPT ![runs[r].m].media = NoRun]
        /\ runs' = [runs EXCEPT ![r].pc = "clear", ![r].ejected = TRUE]
     \/ /\ \E left \in {NoRun, bmc[runs[r].m].media} : bmc' = [bmc EXCEPT ![runs[r].m].media = left]
        /\ runs' = [runs EXCEPT ![r].pc = "clear", ![r].clean = FALSE]
  /\ UNCHANGED <<api, faults, booted, images, kubeconfigs, abandoned>> /\ RunQuiet

\* Mutant: the image is removed whether or not the eject succeeded.
RunClearThenRemove(r) ==
  /\ At(r, "clear") /\ Advance(r, "remove")
  /\ bmc' = [bmc EXCEPT ![runs[r].m].boot = FALSE]
  /\ UNCHANGED <<api, faults, booted, images, kubeconfigs, abandoned>> /\ RunQuiet

RunClear(r) ==
  /\ At(r, "clear")
  /\ \/ /\ bmc' = [bmc EXCEPT ![runs[r].m].boot = FALSE]
        /\ Advance(r, IF runs[r].ejected THEN "remove" ELSE "settle")
     \/ /\ runs' = [runs EXCEPT ![r].pc = IF runs[r].ejected THEN "remove" ELSE "settle",
                                ![r].clean = FALSE]
        /\ UNCHANGED bmc
  /\ UNCHANGED <<api, faults, booted, images, kubeconfigs, abandoned>> /\ RunQuiet

RunRemove(r) ==
  /\ At(r, "remove")
  /\ \/ images' = images \ {r} /\ Advance(r, "settle")
     \/ UNCHANGED images /\ runs' = [runs EXCEPT ![r].pc = "settle", ![r].clean = FALSE]
  /\ UNCHANGED <<api, faults, bmc, booted, kubeconfigs, abandoned>> /\ RunQuiet

\* A cleanup that failed makes the installation fail, whatever was reported.
RunSettle(r) ==
  /\ At(r, "settle")
  /\ \/ runs[r].clean /\ Advance(r, "finish") /\ UNCHANGED <<api, faults>>
     \/ ~runs[r].clean /\ Fail(r, "finish")
  /\ UNCHANGED worldVars /\ RunQuiet

\* Mutant: a kubeconfig that could not be saved does not fail the install.
RunFinishStatusAnyway(r) ==
  LET i == runs[r].i
      Result(phase) == [View(i) EXCEPT !.phase = phase, !.cond = FALSE]
      Record(phase) == StatusPatch(i, View(i), Result(phase)) \/ StatusPatchFails(i)
  IN /\ At(r, "finish") /\ Advance(r, "free")
     /\ kubeconfigs' \in {kubeconfigs, kubeconfigs \cup (IF runs[r].kube THEN {i} ELSE {})}
     /\ Record(runs[r].res)
     /\ UNCHANGED <<bmc, booted, images, abandoned>> /\ RunQuiet

\* finishStatus: the result, the end of InstallerResponding, and the
\* kubeconfig Secret, which can only be created (never updated).
RunFinishStatus(r) ==
  LET i == runs[r].i
      Result(phase) == [View(i) EXCEPT !.phase = phase, !.cond = FALSE]
      Record(phase) == StatusPatch(i, View(i), Result(phase)) \/ StatusPatchFails(i)
  IN /\ At(r, "finish") /\ Advance(r, "free")
     /\ \/ ~runs[r].kube /\ Record(runs[r].res) /\ UNCHANGED kubeconfigs
        \/ /\ runs[r].kube /\ i \notin kubeconfigs
           /\ kubeconfigs' = kubeconfigs \cup {i} /\ Record(runs[r].res)
        \/ runs[r].kube /\ Record("Failed") /\ UNCHANGED kubeconfigs
     /\ UNCHANGED <<bmc, booted, images, abandoned>> /\ RunQuiet

\* The deferred finishInstall frees the machine.
RunFinishInstall(r) ==
  /\ At(r, "free") /\ runs' = [runs EXCEPT ![r] = Ended(r, "done")]
  /\ inFlight' = [inFlight EXCEPT ![runs[r].m] = NoInstall]
  /\ UNCHANGED <<api, faults, cache, wk, worldVars, crashes>>

RunStep(r) ==
  \/ RunReport(r) \/ RunSerial(r) \/ RunBuild(r) \/ RunInsert(r) \/ RunBootOnce(r)
  \/ RunReset(r) \/ RunWait(r) \/ RunJoin(r) \/ RunNodeReady(r)
  \/ RunEject(r) \/ RunClear(r) \/ RunRemove(r) \/ RunSettle(r)
  \/ RunFinishStatus(r) \/ RunFinishInstall(r)

-----------------------------------------------------------------------------
\* The manager dies and comes back: its memory and its goroutines are gone,
\* its cache is listed afresh.
Crash ==
  /\ crashes < MaxCrashes /\ crashes' = crashes + 1
  /\ inFlight' = [m \in Machines |-> NoInstall]
  /\ runs' = [r \in RunIds |-> IF LiveRun(r) THEN Ended(r, "killed") ELSE runs[r]]
  /\ Goto("idle")
  /\ cache' = IF Lag THEN api ELSE cache
  /\ UNCHANGED <<api, faults, worldVars>>

Next ==
  \/ \E i \in Installs, m \in Machines : Create(i, m) \/ Edit(i, m)
  \/ \E i \in Installs : Delete(i) \/ WkGet(i)
  \/ CacheSync
  \/ WkStep
  \/ \E r \in RunIds : RunStep(r)
  \/ Crash

Init ==
  /\ api = [i \in Installs |-> NewObject] /\ cache = api
  /\ inFlight = [m \in Machines |-> NoInstall]
  /\ wk = Idle
  /\ runs = [r \in RunIds |-> [pc |-> "none", i |-> SomeInstall, m |-> SomeMachine, res |-> "Failed",
                               ejected |-> FALSE, clean |-> TRUE, kube |-> FALSE]]
  /\ bmc = [m \in Machines |-> [media |-> NoRun, boot |-> FALSE]]
  /\ booted = [m \in Machines |-> NoRun]
  /\ images = {} /\ kubeconfigs = {} /\ abandoned = {}
  /\ crashes = 0 /\ faults = 0

Spec == Init /\ [][Next]_vars

\* The workqueue is FIFO, so an object that keeps asking is reconciled again
\* however often others are; watch events arrive; every started call returns,
\* because each BMC, SSH and poll has a deadline.
FairSpec ==
  /\ Spec
  /\ \A i \in Installs : SF_vars(WkGet(i))
  /\ WF_vars(WkStep) /\ WF_vars(CacheSync)
  /\ \A r \in RunIds : WF_vars(RunStep(r))

-----------------------------------------------------------------------------
(* Properties.                                                             *)

\* Objects, goroutines, BMCs and the manager's memory have their types.
TypeOK ==
  /\ api \in [Installs -> Objects] /\ cache \in [Installs -> Objects]
  /\ inFlight \in [Machines -> Installs \cup {NoInstall}]
  /\ wk \in [pc: WkPcs, i: Installs, obj: Objects]
  /\ runs \in [RunIds -> Run]
  /\ bmc \in [Machines -> [media: RunIds \cup {NoRun}, boot: BOOLEAN]]
  /\ booted \in [Machines -> RunIds \cup {NoRun}]
  /\ images \subseteq RunIds
  /\ kubeconfigs \subseteq Installs /\ abandoned \subseteq Machines
  /\ crashes \in 0 .. MaxCrashes /\ faults \in 0 .. MaxFaults

\* At most one actor drives a machine's BMC: two goroutines never share a
\* machine, and the worker's own BMC writes (failRestarted, finalize) never
\* race a goroutine ("simpler than two callers issuing BMC writes at once").
OneDriverPerMachine ==
  /\ \A r, q \in RunIds : LiveRun(r) /\ LiveRun(q) /\ r # q => runs[r].m # runs[q].m
  /\ wk.pc \in {"restarted", "release"} =>
       \A r \in RunIds : LiveRun(r) => runs[r].m # wk.obj.machine

\* Media a BMC may still have attached names an image provisiond still
\* serves: the cleanup removes the image only after its eject succeeded, and
\* no other path removes one.
ImageOutlivesMedia ==
  \A m \in Machines : bmc[m].media # NoRun => bmc[m].media \in images

\* Installer media or a boot override is never left behind with nobody
\* responsible: a goroutine is driving the machine, or an object naming it
\* still exists and carries the finalizer that will clean it, or a finalizer
\* found the BMC unreachable and gave up on it; as long as nobody edits
\* machineRef.
MediaHasOwner ==
  (\A i \in Installs : api[i].gen = 1) => \A m \in Machines : bmc[m].media # NoRun \/ bmc[m].boot =>
    \/ \E r \in RunIds : LiveRun(r) /\ runs[r].m = m
    \/ \E i \in Installs : Exists(i) /\ api[i].machine = m /\ api[i].fin
    \/ m \in abandoned

\* "An installation runs once": no object is handed to provision.Install
\* twice, whatever crashes and refused writes happen in between.
RunOnce ==
  \A r, q \in RunIds : runs[r].pc # "none" /\ runs[q].pc # "none" /\ r # q => runs[r].i # runs[q].i

\* Two installations under way never claim one hostname, in any namespace
\* and on any machines (checkHostnameNotTaken).
Underway == Live \ {"eject", "clear", "remove", "settle", "finish", "free"}
HostnameExclusive ==
  \A r, q \in RunIds : runs[r].pc \in Underway /\ runs[q].pc \in Underway /\ r # q
                         => Host[runs[r].i] # Host[runs[q].i]

\* A recorded outcome is never taken back: Ready and Failed return early in
\* Reconcile, so no later write may make the object look unfinished again.
TerminalIsFinal ==
  [][\A i \in Installs : api[i].phase \in Terminal => api'[i].phase \in Terminal]_vars

\* Every installation somebody asked for reaches an outcome (or is deleted),
\* through crashes and refused status writes.
Settles ==
  \A i \in Installs : api[i].st = "live" ~> (api[i].phase \in Terminal \/ api[i].st # "live")

\* finishStatus: a cluster whose kubeconfig is lost "must not be left looking
\* like Ready".  An init install that shows Ready with no goroutine left to
\* save its kubeconfig has it saved, as long as the manager lives and its
\* status writes land.
ReadyHasKubeconfig ==
  crashes = 0 /\ faults = 0 =>
    \A i \in InitMode : api[i].phase = "Ready" /\ (\A r \in RunIds : runs[r].i = i => ~LiveRun(r))
                         => i \in kubeconfigs

-----------------------------------------------------------------------------
(* Statements of the source's comments that the code does not keep.        *)

\* Reconcile's comment on its restart branch: "If committed and running() is
\* false, the goroutine that was driving it is simply gone: either this
\* manager restarted mid-install [...] or [...] the process was killed".
RestartMeansCrash == wk.pc = "restarted" => crashes > 0

\* setCondition: "this reconciler must never be the last writer of a
\* condition describing a phase that has already ended".
ConditionEnds ==
  \A i \in Installs : api[i].cond /\ wk.pc = "idle" /\ api[i].phase \in Terminal
                       => \E r \in RunIds : runs[r].i = i /\ LiveRun(r)
=============================================================================
