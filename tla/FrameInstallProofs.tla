------------------------- MODULE FrameInstallProofs -------------------------
(***************************************************************************)
(* Proofs about FrameInstall, for any sets of installs and machines, any   *)
(* bounds, with spec edits and with or without cache lag: type             *)
(* correctness, OneDriverPerMachine and ImageOutlivesMedia.                *)
(***************************************************************************)
EXTENDS FrameInstall, TLAPS

-----------------------------------------------------------------------------
(* The claim discipline behind OneDriverPerMachine.                        *)

\* A live goroutine's machine is claimed.
RunsHoldClaims == \A r \in RunIds : LiveRun(r) => inFlight[runs[r].m] # NoInstall

RunsApart == \A r, q \in RunIds : LiveRun(r) /\ LiveRun(q) /\ r # q => runs[r].m # runs[q].m

NoRunOn(m) == \A r \in RunIds : LiveRun(r) => runs[r].m # m

\* Between startInstall and "go runInstall" the worker itself holds the claim.
WorkerClaim == wk.pc \in {"stamp", "spawn"} =>
                 inFlight[wk.obj.machine] # NoInstall /\ NoRunOn(wk.obj.machine)

\* running() was false when the worker set out to write to the BMC, and only
\* the worker makes claims.
WorkerAlone == wk.pc \in {"restarted", "release"} => inFlight[wk.obj.machine] = NoInstall

ClaimInv == RunsHoldClaims /\ RunsApart /\ WorkerClaim /\ WorkerAlone

-----------------------------------------------------------------------------
(* The life of an image behind ImageOutlivesMedia.                         *)

BeforeInsert == {"none", "start", "serial", "prep", "build", "media"}
HoldsImage == {"media", "insert", "boot", "reset", "installing", "wait", "installed",
               "joining", "join", "nodeready", "eject", "clear", "remove"}
AfterEject == {"clear", "remove", "settle", "finish", "free"}

\* From the build to the removal, provisiond holds the goroutine's image.
ImageHeld == \A r \in RunIds : runs[r].pc \in HoldsImage => r \in images

\* Attached media was attached by the goroutine it names, to its own machine.
MediaIsOwn == \A m \in Machines : bmc[m].media # NoRun =>
                /\ runs[bmc[m].media].m = m
                /\ runs[bmc[m].media].pc \notin BeforeInsert

\* An eject that succeeded stays true: nobody re-attaches this image.
EjectedStays == \A r \in RunIds :
                  /\ runs[r].ejected => runs[r].pc \in AfterEject /\ bmc[runs[r].m].media # r
                  /\ runs[r].pc = "remove" => runs[r].ejected

MediaInv == ImageHeld /\ MediaIsOwn /\ EjectedStays /\ ImageOutlivesMedia

-----------------------------------------------------------------------------
(* Type correctness.                                                       *)

USE DEF RunIds, NoRun

\* A placeholder object is an object.
LEMMA PlaceholderType == NewObject \in Objects /\ SomeInstall \in Installs /\ SomeMachine \in Machines
<1>1. SomeInstall \in Installs /\ SomeMachine \in Machines
  BY SetsAssumption DEF SomeInstall, SomeMachine
<1> QED BY <1>1, GenAssumption DEF NewObject, Objects, Phases

\* Resetting or moving the worker keeps its type (Goto).
LEMMA GotoType ==
  ASSUME wk \in [pc: WkPcs, i: Installs, obj: Objects], NEW pc \in WkPcs, Goto(pc)
  PROVE  wk' \in [pc: WkPcs, i: Installs, obj: Objects]
BY PlaceholderType DEF Goto, Idle, WkPcs

\* A read through the manager's client returns an object.
LEMMA ViewType ==
  ASSUME TypeOK, NEW i \in Installs
  PROVE  View(i) \in Objects
BY DEF TypeOK, View

\* A merge patch of one object by two others is an object.
LEMMA MergePatchType ==
  ASSUME NEW cur \in Objects, NEW base \in Objects, NEW new \in Objects
  PROVE  MergePatch(cur, base, new) \in Objects
BY DEF MergePatch, Objects

\* A status patch, landed or refused, keeps api and faults well typed.
LEMMA StatusPatchType ==
  ASSUME TypeOK, NEW i \in Installs, NEW base \in Objects, NEW new \in Objects,
         StatusPatch(i, base, new) \/ StatusPatchFails(i)
  PROVE  api' \in [Installs -> Objects] /\ faults' \in 0 .. MaxFaults
<1>1. CASE StatusPatch(i, base, new)
  <2>1. MergePatch(api[i], base, new) \in Objects
    BY MergePatchType DEF TypeOK
  <2>2. api' = [api EXCEPT ![i] = MergePatch(api[i], base, new)] /\ faults' = faults
    BY <1>1 DEF StatusPatch
  <2> QED BY <2>1, <2>2 DEF TypeOK
<1>2. CASE StatusPatchFails(i)
  BY <1>2, BoundsAssumption DEF StatusPatchFails, TypeOK
<1> QED BY <1>1, <1>2

\* reportPhase does too.
LEMMA ReportPhaseType ==
  ASSUME TypeOK, NEW i \in Installs, NEW p \in Phases, ReportPhase(i, p)
  PROVE  api' \in [Installs -> Objects] /\ faults' \in 0 .. MaxFaults
<1>1. View(i) \in Objects /\ [View(i) EXCEPT !.phase = p] \in Objects
  BY ViewType DEF Objects
<1> QED BY <1>1, StatusPatchType DEF ReportPhase

\* The changes the worker makes to one object.
LEMMA ObjectType ==
  ASSUME NEW o \in Objects
  PROVE  /\ [o EXCEPT !.cond = TRUE] \in Objects
         /\ [o EXCEPT !.fin = FALSE, !.st = "gone"] \in Objects
         /\ [o EXCEPT !.obs = o.gen] \in Objects
         /\ o.machine \in Machines
<1>1. o.machine \in Machines /\ o.gen \in 1 .. MaxGen BY DEF Objects
<1>2. o.gen \in 0 .. MaxGen BY <1>1, GenAssumption
<1>3. [o EXCEPT !.cond = TRUE] \in Objects BY DEF Objects
<1>4. [o EXCEPT !.fin = FALSE, !.st = "gone"] \in Objects BY DEF Objects
<1>5. [o EXCEPT !.obs = o.gen] \in Objects BY <1>2 DEF Objects
<1> QED BY <1>1, <1>3, <1>4, <1>5

\* A goroutine slot that "go r.runInstall(...)" fills.
LEMMA SpawnType ==
  ASSUME NEW run \in Run, NEW i \in Installs, NEW m \in Machines
  PROVE  [run EXCEPT !.pc = "start", !.i = i, !.m = m] \in Run
BY DEF Run, RunPcs

\* The worker's steps keep every variable in its type.
LEMMA WkTypeOK ==
  ASSUME TypeOK, WkStep \/ \E i \in Installs : WkGet(i)
  PROVE  TypeOK'
<1> USE DEF TypeOK, WkQuiet, worldVars
<1>o. wk.i \in Installs /\ wk.obj \in Objects /\ View(wk.i) \in Objects
  BY ViewType
<1>p. \A pc \in WkPcs : Goto(pc) => wk' \in [pc: WkPcs, i: Installs, obj: Objects]
  BY GotoType
<1>1. CASE \E i \in Installs : WkGet(i)
  <2>1. PICK i \in Installs : WkGet(i) BY <1>1
  <2>2. View(i) \in Objects BY ViewType
  <2>3. wk' \in [pc: WkPcs, i: Installs, obj: Objects]
    BY <2>1, <2>2 DEF WkGet, WkPcs
  <2> QED BY <2>1, <2>3 DEF WkGet
<1>2. CASE WkAddFinalizer
  <2>1. api' \in [Installs -> Objects] BY <1>2, <1>o DEF WkAddFinalizer, Objects
  <2> QED BY <1>2, <1>p, <2>1 DEF WkAddFinalizer, WkPcs
<1>3. CASE WkCheck
  BY <1>3, <1>p DEF WkCheck, WkPcs
<1>4. CASE WkLiveness
  <2>1. wk' \in [pc: WkPcs, i: Installs, obj: Objects]
    BY <1>4, <1>o, PlaceholderType DEF WkLiveness, Idle, WkPcs
  <2> QED BY <1>4, <2>1 DEF WkLiveness
<1>5. CASE WkSetCondition
  <2>1. api' \in [Installs -> Objects]
    <3>1. [api[wk.i] EXCEPT !.cond = TRUE] \in Objects BY <1>o, ObjectType
    <3>2. api' = [api EXCEPT ![wk.i] = [api[wk.i] EXCEPT !.cond = TRUE]] \/ api' = api
      BY <1>5 DEF WkSetCondition, StatusPatchFails
    <3> QED BY <1>o, <3>1, <3>2
  <2>2. faults' \in 0 .. MaxFaults
    BY <1>5, BoundsAssumption DEF WkSetCondition, StatusPatchFails
  <2> QED BY <1>5, <1>p, <2>1, <2>2 DEF WkSetCondition, WkPcs
<1>6. CASE WkGuards
  BY <1>6, <1>p DEF WkGuards, WkPcs
<1>7. CASE WkRefuse
  <2>1. [wk.obj EXCEPT !.phase = "Failed"] \in Objects BY <1>o DEF Objects, Phases
  <2>2. api' \in [Installs -> Objects] /\ faults' \in 0 .. MaxFaults
    BY <1>7, <1>o, <2>1, StatusPatchType DEF WkRefuse
  <2> QED BY <1>7, <1>p, <2>2 DEF WkRefuse, WkPcs
<1>8. CASE WkClaim
  <2>1. wk.obj.machine \in Machines BY <1>o, ObjectType
  <2> QED BY <1>8, <1>o, <1>p, <2>1 DEF WkClaim, WkPcs
<1>9. CASE WkStamp
  <2>1. wk.obj.machine \in Machines /\ [wk.obj EXCEPT !.obs = wk.obj.gen] \in Objects
    BY <1>o, ObjectType
  <2>2. api' \in [Installs -> Objects] /\ faults' \in 0 .. MaxFaults
    BY <1>9, <1>o, <2>1, StatusPatchType DEF WkStamp
  <2> QED BY <1>9, <1>p, <2>1, <2>2 DEF WkStamp, WkPcs
<1>10. CASE \E r \in RunIds : WkSpawn(r)
  <2>1. PICK r \in RunIds : WkSpawn(r) BY <1>10
  <2>2. wk.obj.machine \in Machines BY <1>o, ObjectType
  <2>3. runs' \in [RunIds -> Run]
    <3>1. [runs[r] EXCEPT !.pc = "start", !.i = wk.i, !.m = wk.obj.machine] \in Run
      BY <2>2, <1>o, SpawnType
    <3>2. \/ runs' = [runs EXCEPT ![r] = [runs[r] EXCEPT !.pc = "start", !.i = wk.i, !.m = wk.obj.machine]]
          \/ runs' = runs
      BY <2>1 DEF WkSpawn
    <3> QED BY <3>1, <3>2
  <2> QED BY <2>1, <2>2, <2>3, <1>p DEF WkSpawn, WkPcs
<1>e. ASSUME NEW ok, EjectAndClear(wk.obj.machine, ok)
      PROVE  bmc' \in [Machines -> [media: RunIds \cup {NoRun}, boot: BOOLEAN]]
  <2>1. wk.obj.machine \in Machines BY <1>o, ObjectType
  <2>2. PICK media \in {NoRun, bmc[wk.obj.machine].media}, boot \in {FALSE, bmc[wk.obj.machine].boot} :
          bmc' = [bmc EXCEPT ![wk.obj.machine] = [media |-> media, boot |-> boot]]
    BY <1>e DEF EjectAndClear
  <2>3. [media |-> media, boot |-> boot] \in [media: RunIds \cup {NoRun}, boot: BOOLEAN]
    BY <2>1, <2>2
  <2> QED BY <2>1, <2>2, <2>3
<1>11. CASE WkRestarted
  BY <1>11, <1>e, <1>p DEF WkRestarted, WkPcs
<1>12. CASE WkMarkFailed
  <2>1. [wk.obj EXCEPT !.phase = "Failed", !.cond = FALSE] \in Objects
    BY <1>o DEF Objects, Phases
  <2>2. api' \in [Installs -> Objects] /\ faults' \in 0 .. MaxFaults
    BY <1>12, <1>o, <2>1, StatusPatchType DEF WkMarkFailed
  <2> QED BY <1>12, <1>p, <2>2 DEF WkMarkFailed, WkPcs
<1>13. CASE WkFinalize
  BY <1>13, <1>p DEF WkFinalize, WkPcs
<1>14. CASE WkRelease
  <2>1. wk.obj.machine \in Machines BY <1>o, ObjectType
  <2>2. bmc' \in [Machines -> [media: RunIds \cup {NoRun}, boot: BOOLEAN]]
    BY <1>14, <1>e DEF WkRelease
  <2> QED BY <1>14, <1>p, <2>1, <2>2 DEF WkRelease, WkPcs
<1>15. CASE WkRemoveFinalizer
  <2>1. [api[wk.i] EXCEPT !.fin = FALSE, !.st = "gone"] \in Objects BY <1>o, ObjectType
  <2>2. api' = [api EXCEPT ![wk.i] = [api[wk.i] EXCEPT !.fin = FALSE, !.st = "gone"]] \/ api' = api
    BY <1>15 DEF WkRemoveFinalizer
  <2>3. api' \in [Installs -> Objects] BY <1>o, <2>1, <2>2
  <2> QED BY <1>15, <1>p, <2>3 DEF WkRemoveFinalizer, WkPcs
<1> QED BY <1>1, <1>2, <1>3, <1>4, <1>5, <1>6, <1>7, <1>8, <1>9, <1>10,
           <1>11, <1>12, <1>13, <1>14, <1>15 DEF WkStep

\* The changes provision.Install makes to its own goroutine's record.
LEMMA RunType ==
  ASSUME NEW run \in Run, NEW pc \in RunPcs, NEW b \in BOOLEAN, NEW res \in {"Ready", "Failed"}
  PROVE  /\ [run EXCEPT !.pc = pc] \in Run
         /\ [run EXCEPT !.pc = pc, !.res = res] \in Run
         /\ [run EXCEPT !.pc = pc, !.kube = b] \in Run
         /\ [run EXCEPT !.pc = pc, !.ejected = b] \in Run
         /\ [run EXCEPT !.pc = pc, !.clean = b] \in Run
         /\ [run EXCEPT !.pc = pc, !.res = res, !.ejected = FALSE, !.clean = TRUE, !.kube = FALSE] \in Run
         /\ run.i \in Installs /\ run.m \in Machines /\ run.res \in Phases
BY DEF Run, Phases

\* Advance and Fail keep the goroutines well typed.
LEMMA AdvanceType ==
  ASSUME TypeOK, NEW r \in RunIds, NEW pc \in RunPcs
  PROVE  /\ Advance(r, pc) => runs' \in [RunIds -> Run]
         /\ Fail(r, pc) => /\ runs' \in [RunIds -> Run]
                           /\ api' \in [Installs -> Objects] /\ faults' \in 0 .. MaxFaults
<1>1. runs \in [RunIds -> Run] /\ runs[r] \in Run BY DEF TypeOK
<1>2. [runs[r] EXCEPT !.pc = pc] \in Run /\ [runs[r] EXCEPT !.pc = pc, !.res = "Failed"] \in Run
  BY <1>1, RunType
<1>3. ASSUME Advance(r, pc) PROVE runs' \in [RunIds -> Run]
  <2>1. runs' = [runs EXCEPT ![r] = [runs[r] EXCEPT !.pc = pc]] BY <1>3 DEF Advance
  <2> QED BY <2>1, <1>1, <1>2
<1>4. ASSUME Fail(r, pc)
      PROVE  runs' \in [RunIds -> Run] /\ api' \in [Installs -> Objects] /\ faults' \in 0 .. MaxFaults
  <2>1. runs' = [runs EXCEPT ![r] = [runs[r] EXCEPT !.pc = pc, !.res = "Failed"]] BY <1>4 DEF Fail
  <2>2. runs[r].i \in Installs BY <1>1, RunType
  <2>3. ReportPhase(runs[r].i, "Failed") BY <1>4 DEF Fail
  <2>4. api' \in [Installs -> Objects] /\ faults' \in 0 .. MaxFaults
    BY <2>2, <2>3, ReportPhaseType DEF Phases
  <2> QED BY <2>1, <2>4, <1>1, <1>2
<1> QED BY <1>3, <1>4

\* The goroutines' steps keep every variable in its type.
LEMMA RunTypeOK ==
  ASSUME TypeOK, NEW r \in RunIds, RunStep(r)
  PROVE  TypeOK'
<1> DEFINE BMC == [media: RunIds \cup {NoRun}, boot: BOOLEAN]
           i == runs[r].i
           m == runs[r].m
           API == api' \in [Installs -> Objects] /\ faults' \in 0 .. MaxFaults
<1>t. /\ runs[r] \in Run /\ i \in Installs /\ m \in Machines /\ runs[r].res \in Phases
      /\ runs \in [RunIds -> Run] /\ bmc \in [Machines -> BMC] /\ bmc[m] \in BMC
      /\ UNCHANGED <<api, faults>> => API
  <2>1. runs \in [RunIds -> Run] /\ bmc \in [Machines -> BMC] /\ api \in [Installs -> Objects]
        /\ faults \in 0 .. MaxFaults
    BY DEF TypeOK
  <2>2. runs[r] \in Run BY <2>1
  <2>3. i \in Installs /\ m \in Machines /\ runs[r].res \in Phases BY <2>2 DEF Run, Phases
  <2> QED BY <2>1, <2>2, <2>3
<1>a. \A pc \in RunPcs : /\ Advance(r, pc) => runs' \in [RunIds -> Run]
                         /\ Fail(r, pc) => runs' \in [RunIds -> Run] /\ API
  BY AdvanceType
<1>m. ASSUME NEW x \in RunIds \cup {NoRun}, bmc' = [bmc EXCEPT ![m].media = x]
      PROVE  bmc' \in [Machines -> BMC]
  BY <1>m, <1>t
<1>b. ASSUME NEW x \in BOOLEAN, bmc' = [bmc EXCEPT ![m].boot = x]
      PROVE  bmc' \in [Machines -> BMC]
  BY <1>b, <1>t
<1>1. CASE RunReport(r)
  <2>1. ASSUME NEW at, NEW p \in Phases, NEW next \in RunPcs, Report(r, at, p, next)
        PROVE  TypeOK'
    <3>1. API BY <2>1, <1>t, ReportPhaseType DEF Report
    <3>2. runs' \in [RunIds -> Run] BY <2>1, <1>a DEF Report
    <3> QED BY <2>1, <3>1, <3>2 DEF Report, RunQuiet, worldVars, TypeOK
  <2> QED BY <1>1, <2>1 DEF RunReport, RunPcs, Phases
<1>2. CASE RunSerial(r)
  <2>1. runs' \in [RunIds -> Run] /\ API BY <1>2, <1>a, <1>t DEF RunSerial, RunPcs
  <2> QED BY <1>2, <2>1 DEF RunSerial, RunQuiet, worldVars, TypeOK
<1>3. CASE RunBuild(r)
  <2>1. runs' \in [RunIds -> Run] /\ API BY <1>3, <1>a, <1>t DEF RunBuild, RunPcs
  <2>2. images' \subseteq RunIds BY <1>3 DEF RunBuild, TypeOK
  <2> QED BY <1>3, <2>1, <2>2 DEF RunBuild, RunQuiet, TypeOK
<1>4. CASE RunInsert(r)
  <2>1. runs' \in [RunIds -> Run] /\ API BY <1>4, <1>a, <1>t DEF RunInsert, RunPcs
  <2>2. PICK x \in {r, bmc[m].media} : bmc' = [bmc EXCEPT ![m].media = x]
    BY <1>4 DEF RunInsert
  <2>3. bmc' \in [Machines -> BMC] BY <2>2, <1>m, <1>t
  <2> QED BY <1>4, <2>1, <2>3 DEF RunInsert, RunQuiet, TypeOK
<1>5. CASE RunBootOnce(r)
  <2>1. runs' \in [RunIds -> Run] /\ API BY <1>5, <1>a, <1>t DEF RunBootOnce, RunPcs
  <2>2. PICK x \in {TRUE, bmc[m].boot} : bmc' = [bmc EXCEPT ![m].boot = x]
    BY <1>5 DEF RunBootOnce
  <2>3. bmc' \in [Machines -> BMC] BY <2>2, <1>b, <1>t
  <2> QED BY <1>5, <2>1, <2>3 DEF RunBootOnce, RunQuiet, TypeOK
<1>6. CASE RunReset(r)
  <2>1. runs' \in [RunIds -> Run] /\ API BY <1>6, <1>a, <1>t DEF RunReset, RunPcs
  <2>2. CASE PowerCycle(m)
    <3>1. bmc' \in [Machines -> BMC] BY <2>2, <1>b DEF PowerCycle
    <3>2. booted' \in [Machines -> RunIds \cup {NoRun}] BY <2>2, <1>t DEF PowerCycle, TypeOK
    <3> QED BY <1>6, <2>1, <3>1, <3>2 DEF RunReset, RunQuiet, TypeOK
  <2>3. CASE UNCHANGED <<bmc, booted>>
    BY <1>6, <2>1, <2>3 DEF RunReset, RunQuiet, TypeOK
  <2> QED BY <1>6, <2>2, <2>3 DEF RunReset
<1>7. CASE RunWait(r)
  <2>1. runs' \in [RunIds -> Run] /\ API BY <1>7, <1>a, <1>t DEF RunWait, RunPcs
  <2> QED BY <1>7, <2>1 DEF RunWait, RunQuiet, worldVars, TypeOK
<1>8. CASE RunJoin(r)
  <2>1. [runs[r] EXCEPT !.pc = "nodeready", !.kube = i \in InitMode] \in Run
    <3>1. (i \in InitMode) \in BOOLEAN OBVIOUS
    <3> QED BY <3>1, <1>t, RunType DEF RunPcs
  <2>2. runs' = [runs EXCEPT ![r] = [runs[r] EXCEPT !.pc = "nodeready", !.kube = i \in InitMode]]
        \/ Fail(r, "eject")
    BY <1>8 DEF RunJoin
  <2>3. runs' \in [RunIds -> Run] BY <2>1, <2>2, <1>a, <1>t DEF RunPcs
  <2>4. API BY <1>8, <1>a, <1>t DEF RunJoin, RunPcs
  <2> QED BY <1>8, <2>3, <2>4 DEF RunJoin, RunQuiet, worldVars, TypeOK
<1>9. CASE RunNodeReady(r)
  <2>1. [runs[r] EXCEPT !.pc = "eject", !.res = "Ready"] \in Run BY <1>t DEF Run, RunPcs
  <2>2. runs' = [runs EXCEPT ![r] = [runs[r] EXCEPT !.pc = "eject", !.res = "Ready"]]
        \/ Fail(r, "eject")
    BY <1>9 DEF RunNodeReady
  <2>3. runs' \in [RunIds -> Run] BY <2>1, <2>2, <1>a, <1>t DEF RunPcs
  <2>4. API BY <1>9, <1>a, <1>t, ReportPhaseType DEF RunNodeReady, RunPcs, Phases
  <2> QED BY <1>9, <2>3, <2>4 DEF RunNodeReady, RunQuiet, worldVars, TypeOK
<1>10. CASE RunEject(r)
  <2>1. PICK x \in {NoRun, bmc[m].media} : bmc' = [bmc EXCEPT ![m].media = x]
    BY <1>10 DEF RunEject
  <2>2. bmc' \in [Machines -> BMC] BY <2>1, <1>m, <1>t
  <2>3. /\ [runs[r] EXCEPT !.pc = "clear", !.ejected = TRUE] \in Run
        /\ [runs[r] EXCEPT !.pc = "clear", !.clean = FALSE] \in Run
    BY <1>t DEF Run, RunPcs
  <2>4. \/ runs' = [runs EXCEPT ![r] = [runs[r] EXCEPT !.pc = "clear", !.ejected = TRUE]]
        \/ runs' = [runs EXCEPT ![r] = [runs[r] EXCEPT !.pc = "clear", !.clean = FALSE]]
    BY <1>10 DEF RunEject
  <2>5. runs' \in [RunIds -> Run] BY <2>3, <2>4, <1>t
  <2> QED BY <1>10, <2>2, <2>5 DEF RunEject, RunQuiet, TypeOK
<1>11. CASE RunClear(r)
  <2> DEFINE next == IF runs[r].ejected THEN "remove" ELSE "settle"
  <2>1. bmc' \in [Machines -> BMC] BY <1>11, <1>b, <1>t DEF RunClear
  <2>2. next \in RunPcs /\ [runs[r] EXCEPT !.pc = next, !.clean = FALSE] \in Run
    BY <1>t DEF Run, RunPcs
  <2>3. Advance(r, next) \/ runs' = [runs EXCEPT ![r] = [runs[r] EXCEPT !.pc = next, !.clean = FALSE]]
    BY <1>11 DEF RunClear
  <2>4. runs' \in [RunIds -> Run] BY <2>2, <2>3, <1>a, <1>t
  <2> QED BY <1>11, <2>1, <2>4 DEF RunClear, RunQuiet, TypeOK
<1>12. CASE RunRemove(r)
  <2>1. [runs[r] EXCEPT !.pc = "settle", !.clean = FALSE] \in Run BY <1>t DEF Run, RunPcs
  <2>2. Advance(r, "settle") \/ runs' = [runs EXCEPT ![r] = [runs[r] EXCEPT !.pc = "settle", !.clean = FALSE]]
    BY <1>12 DEF RunRemove
  <2>3. runs' \in [RunIds -> Run] BY <2>1, <2>2, <1>a, <1>t DEF RunPcs
  <2>4. images' \subseteq RunIds BY <1>12 DEF RunRemove, TypeOK
  <2> QED BY <1>12, <2>3, <2>4 DEF RunRemove, RunQuiet, TypeOK
<1>13. CASE RunSettle(r)
  <2>1. runs' \in [RunIds -> Run] /\ API BY <1>13, <1>a, <1>t DEF RunSettle, RunPcs
  <2> QED BY <1>13, <2>1 DEF RunSettle, RunQuiet, worldVars, TypeOK
<1>14. CASE RunFinishStatus(r)
  <2>1. runs' \in [RunIds -> Run] BY <1>14, <1>a DEF RunFinishStatus, RunPcs
  <2>2. kubeconfigs' \subseteq Installs BY <1>14, <1>t DEF RunFinishStatus, TypeOK
  <2>3. PICK phase \in {runs[r].res, "Failed"} :
          StatusPatch(i, View(i), [View(i) EXCEPT !.phase = phase, !.cond = FALSE]) \/ StatusPatchFails(i)
    BY <1>14 DEF RunFinishStatus
  <2>4. View(i) \in Objects /\ phase \in Phases BY <1>t, ViewType DEF Phases
  <2>5. [View(i) EXCEPT !.phase = phase, !.cond = FALSE] \in Objects BY <2>4 DEF Objects
  <2>6. API BY <2>3, <2>4, <2>5, <1>t, StatusPatchType
  <2> QED BY <1>14, <2>1, <2>2, <2>6 DEF RunFinishStatus, RunQuiet, TypeOK
<1>15. CASE RunFinishInstall(r)
  <2>1. Ended(r, "done") \in Run BY <1>t DEF Ended, Run, RunPcs
  <2>2. inFlight' \in [Machines -> Installs \cup {NoInstall}]
    BY <1>15, <1>t DEF RunFinishInstall, TypeOK
  <2>3. runs' \in [RunIds -> Run] BY <1>15, <2>1, <1>t DEF RunFinishInstall
  <2> QED BY <1>15, <2>2, <2>3 DEF RunFinishInstall, worldVars, TypeOK
<1> QED BY <1>1, <1>2, <1>3, <1>4, <1>5, <1>6, <1>7, <1>8, <1>9, <1>10,
           <1>11, <1>12, <1>13, <1>14, <1>15 DEF RunStep

\* People, the informer and a manager crash keep every variable in its type.
LEMMA OthersTypeOK ==
  ASSUME TypeOK,
         \/ \E i \in Installs, m \in Machines : Create(i, m) \/ Edit(i, m)
         \/ \E i \in Installs : Delete(i)
         \/ CacheSync \/ Crash
  PROVE  TypeOK'
<1>1. ASSUME NEW i \in Installs, NEW m \in Machines, Create(i, m) PROVE TypeOK'
  <2>1. [api[i] EXCEPT !.st = "live", !.machine = m] \in Objects BY DEF TypeOK, Objects
  <2>2. api' = [api EXCEPT ![i] = [api[i] EXCEPT !.st = "live", !.machine = m]] BY <1>1 DEF Create
  <2>3. api' \in [Installs -> Objects] BY <2>1, <2>2 DEF TypeOK
  <2> QED BY <1>1, <2>3 DEF Create, mgrVars, worldVars, TypeOK
<1>2. ASSUME NEW i \in Installs, NEW m \in Machines, Edit(i, m) PROVE TypeOK'
  <2>0. api[i] \in Objects /\ api[i].gen < MaxGen BY <1>2 DEF Edit, TypeOK
  <2>1. api[i].gen + 1 \in 1 .. MaxGen BY <2>0, GenAssumption DEF Objects
  <2>2. [api[i] EXCEPT !.gen = api[i].gen + 1, !.machine = m] \in Objects BY <2>0, <2>1 DEF Objects
  <2>3. api' = [api EXCEPT ![i] = [api[i] EXCEPT !.gen = api[i].gen + 1, !.machine = m]] BY <1>2 DEF Edit
  <2>4. api' \in [Installs -> Objects] BY <2>2, <2>3 DEF TypeOK
  <2> QED BY <1>2, <2>4 DEF Edit, mgrVars, worldVars, TypeOK
<1>3. ASSUME NEW i \in Installs, Delete(i) PROVE TypeOK'
  <2>1. PICK st \in {"deleting", "gone"} : api' = [api EXCEPT ![i] = [api[i] EXCEPT !.st = st]]
    BY <1>3 DEF Delete
  <2>2. [api[i] EXCEPT !.st = st] \in Objects BY <2>1 DEF TypeOK, Objects
  <2>3. api' \in [Installs -> Objects] BY <2>1, <2>2 DEF TypeOK
  <2> QED BY <1>3, <2>3 DEF Delete, mgrVars, worldVars, TypeOK
<1>4. CASE CacheSync
  BY <1>4 DEF CacheSync, worldVars, TypeOK
<1>5. CASE Crash
  <2>1. wk' \in [pc: WkPcs, i: Installs, obj: Objects]
    BY <1>5, GotoType DEF Crash, TypeOK, WkPcs
  <2>2. \A r \in RunIds : runs[r] \in Run /\ Ended(r, "killed") \in Run
    <3>1. ASSUME NEW r \in RunIds PROVE runs[r] \in Run BY DEF TypeOK
    <3> QED BY <3>1, RunType DEF Ended, RunPcs
  <2>3. runs' \in [RunIds -> Run] BY <1>5, <2>2 DEF Crash
  <2>4. crashes' \in 0 .. MaxCrashes BY <1>5, BoundsAssumption DEF Crash, TypeOK
  <2>5. cache' \in [Installs -> Objects] BY <1>5 DEF Crash, TypeOK
  <2> QED BY <1>5, <2>1, <2>3, <2>4, <2>5 DEF Crash, worldVars, TypeOK
<1> QED BY <1>1, <1>2, <1>3, <1>4, <1>5

\* A step that changes nothing keeps every variable in its type.
LEMMA StutterTypeOK ==
  ASSUME TypeOK, UNCHANGED vars
  PROVE  TypeOK'
BY DEF TypeOK, vars

\* A freshly started system is well typed.
LEMMA InitTypeOK == Init => TypeOK
<1> SUFFICES ASSUME Init PROVE TypeOK OBVIOUS
<1>1. NewObject \in Objects /\ SomeInstall \in Installs /\ SomeMachine \in Machines
  BY PlaceholderType
<1>2. api \in [Installs -> Objects] /\ cache \in [Installs -> Objects] BY <1>1 DEF Init
<1>3. wk \in [pc: WkPcs, i: Installs, obj: Objects] BY <1>1 DEF Init, Idle, WkPcs
<1>4. runs \in [RunIds -> Run] BY <1>1 DEF Init, Run, RunPcs
<1>5. crashes \in 0 .. MaxCrashes /\ faults \in 0 .. MaxFaults BY BoundsAssumption DEF Init
<1> QED BY <1>2, <1>3, <1>4, <1>5 DEF Init, TypeOK

\* Type correctness of the whole model: whatever people edit and delete,
\* however often the manager crashes, every object, goroutine and BMC stays in
\* the set of values the controller's types allow.
THEOREM TypeCorrect == Spec => []TypeOK
<1>1. TypeOK /\ [Next]_vars => TypeOK'
  BY WkTypeOK, RunTypeOK, OthersTypeOK, StutterTypeOK DEF Next
<1> QED BY <1>1, InitTypeOK, PTL DEF Spec

-----------------------------------------------------------------------------
(* One driver per machine.                                                 *)

\* What ClaimInv reads: the claims, each goroutine's life and machine, and
\* where the worker is.
LEMMA ClaimInvFrame ==
  ASSUME TypeOK, ClaimInv, UNCHANGED inFlight,
         \A r \in RunIds : /\ runs'[r].m = runs[r].m
                           /\ runs'[r].pc \in Live => runs[r].pc \in Live,
         \/ UNCHANGED wk
         \/ wk'.pc \notin {"stamp", "spawn", "restarted", "release"}
         \/ wk'.obj = wk.obj /\ wk'.pc \in {"stamp", "spawn"} /\ wk.pc \in {"stamp", "spawn"}
         \/ /\ wk'.obj = wk.obj /\ wk'.pc \in {"restarted", "release"}
            /\ inFlight[wk.obj.machine] = NoInstall
  PROVE  ClaimInv'
<1> USE DEF LiveRun
<1>1. RunsHoldClaims' /\ RunsApart' BY DEF ClaimInv, RunsHoldClaims, RunsApart
<1>2. WorkerClaim' BY DEF ClaimInv, WorkerClaim, NoRunOn
<1>3. WorkerAlone' BY DEF ClaimInv, WorkerAlone
<1> QED BY <1>1, <1>2, <1>3 DEF ClaimInv

\* A step of goroutine r that leaves every goroutine's machine alone.
OnlyMoves(r) == \A q \in RunIds : runs'[q].m = runs[q].m /\ (q # r => runs'[q] = runs[q])

\* Moving on, with or without noting a result, is such a step.
LEMMA MoveFrame ==
  ASSUME TypeOK, NEW r \in RunIds, NEW pc, NEW res, NEW b
  PROVE  /\ Advance(r, pc) => OnlyMoves(r)
         /\ runs' = [runs EXCEPT ![r].pc = pc, ![r].res = res] => OnlyMoves(r)
         /\ runs' = [runs EXCEPT ![r].pc = pc, ![r].kube = b] => OnlyMoves(r)
         /\ runs' = [runs EXCEPT ![r].pc = pc, ![r].ejected = b] => OnlyMoves(r)
         /\ runs' = [runs EXCEPT ![r].pc = pc, ![r].clean = b] => OnlyMoves(r)
<1>t. runs \in [RunIds -> Run] /\ runs[r] \in Run BY DEF TypeOK
<1>1. ASSUME NEW x, x.m = runs[r].m, runs' = [runs EXCEPT ![r] = x] PROVE OnlyMoves(r)
  BY <1>1, <1>t DEF OnlyMoves
<1>2. /\ [runs[r] EXCEPT !.pc = pc].m = runs[r].m
      /\ [runs[r] EXCEPT !.pc = pc, !.res = res].m = runs[r].m
      /\ [runs[r] EXCEPT !.pc = pc, !.kube = b].m = runs[r].m
      /\ [runs[r] EXCEPT !.pc = pc, !.ejected = b].m = runs[r].m
      /\ [runs[r] EXCEPT !.pc = pc, !.clean = b].m = runs[r].m
  BY <1>t DEF Run
<1>3. Advance(r, pc) => OnlyMoves(r) BY <1>1, <1>2 DEF Advance
<1>4. runs' = [runs EXCEPT ![r].pc = pc, ![r].res = res] => OnlyMoves(r) BY <1>1, <1>2
<1>5. runs' = [runs EXCEPT ![r].pc = pc, ![r].kube = b] => OnlyMoves(r) BY <1>1, <1>2
<1>6. runs' = [runs EXCEPT ![r].pc = pc, ![r].ejected = b] => OnlyMoves(r) BY <1>1, <1>2
<1>7. runs' = [runs EXCEPT ![r].pc = pc, ![r].clean = b] => OnlyMoves(r) BY <1>1, <1>2
<1> QED BY <1>3, <1>4, <1>5, <1>6, <1>7

\* A goroutine's own step, other than its last, only moves its own pc.
LEMMA RunStepFrame ==
  ASSUME TypeOK, NEW r \in RunIds, RunStep(r), ~RunFinishInstall(r)
  PROVE  /\ UNCHANGED <<inFlight, wk, cache, crashes>>
         /\ runs[r].pc \in Live
         /\ OnlyMoves(r)
<1>l. \A pc \in {"start", "serial", "prep", "build", "media", "insert", "boot", "reset",
                 "installing", "wait", "installed", "joining", "join", "nodeready",
                 "eject", "clear", "remove", "settle", "finish"} : pc \in Live
  BY DEF Live, RunPcs
<1>1. CASE RunReport(r)
  BY <1>1, <1>l, MoveFrame DEF RunReport, Report, RunQuiet, At
<1>2. CASE RunSerial(r)
  BY <1>2, <1>l, MoveFrame DEF RunSerial, RunQuiet, At, Fail
<1>3. CASE RunBuild(r)
  BY <1>3, <1>l, MoveFrame DEF RunBuild, RunQuiet, At, Fail
<1>4. CASE RunInsert(r)
  BY <1>4, <1>l, MoveFrame DEF RunInsert, RunQuiet, At, Fail
<1>5. CASE RunBootOnce(r)
  BY <1>5, <1>l, MoveFrame DEF RunBootOnce, RunQuiet, At, Fail
<1>6. CASE RunReset(r)
  BY <1>6, <1>l, MoveFrame DEF RunReset, RunQuiet, At, Fail
<1>7. CASE RunWait(r)
  BY <1>7, <1>l, MoveFrame DEF RunWait, RunQuiet, At, Fail
<1>8. CASE RunJoin(r)
  BY <1>8, <1>l, MoveFrame DEF RunJoin, RunQuiet, At, Fail
<1>9. CASE RunNodeReady(r)
  BY <1>9, <1>l, MoveFrame DEF RunNodeReady, RunQuiet, At, Fail
<1>10. CASE RunEject(r)
  BY <1>10, <1>l, MoveFrame DEF RunEject, RunQuiet, At
<1>11. CASE RunClear(r)
  BY <1>11, <1>l, MoveFrame DEF RunClear, RunQuiet, At
<1>12. CASE RunRemove(r)
  BY <1>12, <1>l, MoveFrame DEF RunRemove, RunQuiet, At
<1>13. CASE RunSettle(r)
  BY <1>13, <1>l, MoveFrame DEF RunSettle, RunQuiet, At, Fail
<1>14. CASE RunFinishStatus(r)
  BY <1>14, <1>l, MoveFrame DEF RunFinishStatus, RunQuiet, At
<1> QED BY <1>1, <1>2, <1>3, <1>4, <1>5, <1>6, <1>7, <1>8, <1>9, <1>10,
           <1>11, <1>12, <1>13, <1>14 DEF RunStep

\* The worker's steps keep the claim discipline.
LEMMA WkClaimInv ==
  ASSUME TypeOK, ClaimInv, WkStep \/ \E i \in Installs : WkGet(i)
  PROVE  ClaimInv'
<1>t. /\ wk \in [pc: WkPcs, i: Installs, obj: Objects] /\ wk.i \in Installs
      /\ wk.obj.machine \in Machines
      /\ inFlight \in [Machines -> Installs \cup {NoInstall}]
      /\ \A r \in RunIds : runs[r].m \in Machines
  <2>1. wk.obj \in Objects /\ \A r \in RunIds : runs[r] \in Run BY DEF TypeOK
  <2> QED BY <2>1, ObjectType DEF TypeOK, Run
<1>g. ASSUME NEW pc, Goto(pc)
      PROVE  /\ wk'.pc = pc
             /\ pc # "idle" => wk'.obj = wk.obj
  BY <1>g, <1>t DEF Goto, Idle
<1> DEFINE quiet == UNCHANGED inFlight /\ UNCHANGED runs
           dull == wk'.pc \notin {"stamp", "spawn", "restarted", "release"}
<1>q. quiet /\ dull => ClaimInv' BY ClaimInvFrame
<1>1. CASE \E i \in Installs : WkGet(i)
  BY <1>1, <1>q DEF WkGet, WkQuiet
<1>2. CASE WkAddFinalizer
  BY <1>2, <1>g, <1>q DEF WkAddFinalizer, WkQuiet
<1>3. CASE WkCheck
  <2>1. quiet BY <1>3 DEF WkCheck, WkQuiet
  <2>2. CASE inFlight[wk.obj.machine] = NoInstall
    <3>1. dull \/ (wk'.obj = wk.obj /\ wk'.pc = "restarted") BY <1>3, <1>g DEF WkCheck
    <3> QED BY <2>1, <2>2, <3>1, ClaimInvFrame
  <2>3. CASE inFlight[wk.obj.machine] # NoInstall
    BY <1>3, <2>1, <2>3, <1>g, <1>q DEF WkCheck
  <2> QED BY <2>2, <2>3
<1>4. CASE WkLiveness
  <2>1. quiet /\ dull BY <1>4, <1>t DEF WkLiveness, WkQuiet, Idle
  <2> QED BY <2>1, <1>q
<1>5. CASE WkSetCondition
  BY <1>5, <1>g, <1>q DEF WkSetCondition, WkQuiet
<1>6. CASE WkGuards
  BY <1>6, <1>g, <1>q DEF WkGuards, WkQuiet
<1>7. CASE WkRefuse
  BY <1>7, <1>g, <1>q DEF WkRefuse, WkQuiet
<1>8. CASE WkClaim
  <2>1. CASE inFlight[wk.obj.machine] # NoInstall
    BY <1>8, <2>1, <1>g, <1>q DEF WkClaim
  <2>2. CASE inFlight[wk.obj.machine] = NoInstall
    <3>1. /\ inFlight' = [inFlight EXCEPT ![wk.obj.machine] = wk.i] /\ runs' = runs
          /\ wk'.pc = "stamp" /\ wk'.obj = wk.obj
      BY <1>8, <2>2, <1>g DEF WkClaim
    <3>2. NoRunOn(wk.obj.machine) BY <2>2 DEF ClaimInv, RunsHoldClaims, NoRunOn
    <3>3. WorkerClaim'
      BY <3>1, <3>2, <1>t, NoInstallAssumption DEF WorkerClaim, NoRunOn, LiveRun
    <3>4. RunsHoldClaims'
      BY <3>1, <1>t, NoInstallAssumption DEF ClaimInv, RunsHoldClaims, LiveRun
    <3> QED BY <3>1, <3>3, <3>4 DEF ClaimInv, RunsApart, WorkerAlone, LiveRun
  <2> QED BY <2>1, <2>2
<1>r. ASSUME wk.pc \in {"stamp", "spawn"}, dull, UNCHANGED runs,
             inFlight' = [inFlight EXCEPT ![wk.obj.machine] = NoInstall]
      PROVE  ClaimInv'
  BY <1>r, <1>t DEF ClaimInv, RunsHoldClaims, RunsApart, WorkerClaim, WorkerAlone, NoRunOn, LiveRun
<1>9. CASE WkStamp
  <2>1. CASE Goto("spawn") /\ UNCHANGED inFlight
    <3>1. quiet /\ wk'.pc = "spawn" /\ wk'.obj = wk.obj /\ wk.pc = "stamp"
      BY <1>9, <2>1, <1>g DEF WkStamp
    <3> QED BY <3>1, ClaimInvFrame
  <2>2. CASE Goto("idle") /\ inFlight' = [inFlight EXCEPT ![wk.obj.machine] = NoInstall]
    BY <1>9, <2>2, <1>g, <1>r DEF WkStamp
  <2> QED BY <1>9, <2>1, <2>2 DEF WkStamp
<1>10. CASE \E r \in RunIds : WkSpawn(r)
  <2>0. PICK r \in RunIds : WkSpawn(r) BY <1>10
  <2>1. CASE Goto("refuse")
    BY <2>0, <2>1, <1>g, <1>r DEF WkSpawn
  <2>2. CASE UNCHANGED inFlight /\ Goto("idle")
             /\ runs' = [runs EXCEPT ![r].pc = "start", ![r].i = wk.i, ![r].m = wk.obj.machine]
    <3>1. /\ runs'[r].m = wk.obj.machine
          /\ \A q \in RunIds : q # r => runs'[q] = runs[q]
      <4>1. runs \in [RunIds -> Run] /\ runs[r] \in Run BY DEF TypeOK
      <4>2. [runs[r] EXCEPT !.pc = "start", !.i = wk.i, !.m = wk.obj.machine].m = wk.obj.machine
        BY <4>1 DEF Run
      <4>3. runs' = [runs EXCEPT ![r] = [runs[r] EXCEPT !.pc = "start", !.i = wk.i, !.m = wk.obj.machine]]
        BY <2>2
      <4> QED BY <4>1, <4>2, <4>3
    <3>2. wk'.pc = "idle" /\ wk.pc = "spawn" BY <2>0, <2>2, <1>g DEF WkSpawn
    <3>3. inFlight[wk.obj.machine] # NoInstall /\ NoRunOn(wk.obj.machine)
      BY <3>2 DEF ClaimInv, WorkerClaim
    <3>4. RunsHoldClaims'
      BY <2>2, <3>1, <3>3 DEF ClaimInv, RunsHoldClaims, LiveRun
    <3>5. RunsApart'
      BY <3>1, <3>3 DEF ClaimInv, RunsApart, NoRunOn, LiveRun
    <3> QED BY <3>2, <3>4, <3>5 DEF ClaimInv, WorkerClaim, WorkerAlone
  <2> QED BY <2>0, <2>1, <2>2 DEF WkSpawn
<1>11. CASE WkRestarted
  <2>1. quiet /\ Goto("markfailed") BY <1>11 DEF WkRestarted
  <2> QED BY <2>1, <1>g, <1>q
<1>12. CASE WkMarkFailed
  BY <1>12, <1>g, <1>q DEF WkMarkFailed, WkQuiet
<1>13. CASE WkFinalize
  <2>1. quiet BY <1>13 DEF WkFinalize, WkQuiet
  <2>2. CASE inFlight[wk.obj.machine] = NoInstall
    <3>1. wk'.obj = wk.obj /\ wk'.pc = "release" BY <1>13, <2>2, <1>g DEF WkFinalize
    <3> QED BY <2>1, <2>2, <3>1, ClaimInvFrame
  <2>3. CASE inFlight[wk.obj.machine] # NoInstall
    BY <1>13, <2>1, <2>3, <1>g, <1>q DEF WkFinalize
  <2> QED BY <2>2, <2>3
<1>14. CASE WkRelease
  <2>1. quiet /\ (Goto("unfin") \/ Goto("idle")) BY <1>14 DEF WkRelease
  <2> QED BY <2>1, <1>g, <1>q
<1>15. CASE WkRemoveFinalizer
  BY <1>15, <1>g, <1>q DEF WkRemoveFinalizer, WkQuiet
<1> QED BY <1>1, <1>2, <1>3, <1>4, <1>5, <1>6, <1>7, <1>8, <1>9, <1>10,
           <1>11, <1>12, <1>13, <1>14, <1>15 DEF WkStep

\* So does every other step.
LEMMA RestClaimInv ==
  ASSUME TypeOK, ClaimInv,
         \/ \E i \in Installs, m \in Machines : Create(i, m) \/ Edit(i, m)
         \/ \E i \in Installs : Delete(i)
         \/ CacheSync \/ Crash \/ UNCHANGED vars
         \/ \E r \in RunIds : RunStep(r)
  PROVE  ClaimInv'
<1> DEFINE quiet == UNCHANGED <<inFlight, runs, wk>>
<1>q. quiet => ClaimInv' BY ClaimInvFrame
<1>1. CASE \/ \E i \in Installs, m \in Machines : Create(i, m) \/ Edit(i, m)
           \/ \E i \in Installs : Delete(i)
  BY <1>1, <1>q DEF Create, Edit, Delete, mgrVars
<1>2. CASE CacheSync BY <1>2, <1>q DEF CacheSync
<1>3. CASE UNCHANGED vars BY <1>3, <1>q DEF vars
<1>4. CASE Crash
  <2>1. \A r \in RunIds : runs[r] \in Run BY DEF TypeOK
  <2>2. \A r \in RunIds : ~LiveRun(r)'
    BY <1>4, <2>1 DEF Crash, LiveRun, Ended, Live, Run
  <2>3. wk'.pc = "idle" BY <1>4 DEF Crash, Goto, Idle
  <2> QED BY <2>2, <2>3 DEF ClaimInv, RunsHoldClaims, RunsApart, WorkerClaim, WorkerAlone
<1>5. CASE \E r \in RunIds : RunStep(r)
  <2>1. PICK r \in RunIds : RunStep(r) BY <1>5
  <2>2. CASE ~RunFinishInstall(r)
    <3>1. UNCHANGED <<inFlight, wk>> /\ runs[r].pc \in Live /\ OnlyMoves(r)
      BY <2>1, <2>2, RunStepFrame
    <3> QED BY <3>1, ClaimInvFrame DEF OnlyMoves
  <2>3. CASE RunFinishInstall(r)
    <3>1. runs[r] \in Run /\ runs \in [RunIds -> Run] /\ runs[r].m \in Machines
          /\ inFlight \in [Machines -> Installs \cup {NoInstall}]
      BY DEF TypeOK, Run
    <3>2. /\ ~LiveRun(r)' /\ runs'[r].m = runs[r].m
          /\ \A q \in RunIds : q # r => runs'[q] = runs[q]
      BY <2>3, <3>1 DEF RunFinishInstall, Ended, LiveRun, Live, Run
    <3>3. /\ LiveRun(r) /\ wk' = wk
          /\ inFlight' = [inFlight EXCEPT ![runs[r].m] = NoInstall]
      BY <2>3 DEF RunFinishInstall, At, LiveRun, Live, RunPcs
    <3>4. RunsApart' BY <3>2 DEF ClaimInv, RunsApart, LiveRun
    <3>5. RunsHoldClaims'
      BY <3>1, <3>2, <3>3 DEF ClaimInv, RunsHoldClaims, RunsApart, LiveRun
    <3>6. wk.obj.machine \in Machines BY ObjectType DEF TypeOK
    <3>7. WorkerClaim'
      BY <3>1, <3>2, <3>3, <3>6 DEF ClaimInv, WorkerClaim, NoRunOn, LiveRun
    <3>8. WorkerAlone'
      BY <3>1, <3>3, <3>6 DEF ClaimInv, WorkerAlone
    <3> QED BY <3>4, <3>5, <3>7, <3>8 DEF ClaimInv
  <2> QED BY <2>2, <2>3
<1> QED BY <1>1, <1>2, <1>3, <1>4, <1>5

\* No two actors ever drive one machine's BMC, for any number of installs,
\* machines and crashes, with objects edited and deleted at any moment and
\* however far the informer cache trails: inFlight alone keeps the goroutines
\* and the worker's failRestarted and finalize apart.
THEOREM OneDriver == Spec => []OneDriverPerMachine
<1>1. Init => ClaimInv
  BY DEF Init, Idle, ClaimInv, RunsHoldClaims, RunsApart, WorkerClaim, WorkerAlone, LiveRun, Live
<1>2. TypeOK /\ ClaimInv /\ [Next]_vars => ClaimInv'
  BY WkClaimInv, RestClaimInv DEF Next
<1>3. ClaimInv => OneDriverPerMachine
  BY DEF ClaimInv, OneDriverPerMachine, RunsHoldClaims, RunsApart, WorkerAlone
<1> QED BY <1>1, <1>2, <1>3, TypeCorrect, PTL DEF Spec

-----------------------------------------------------------------------------
(* Attached media names a served image.                                    *)

\* What a step may do to goroutine q without touching the media invariant.
KeepsMedia(q) ==
  /\ runs'[q].m = runs[q].m
  /\ runs'[q].pc \in HoldsImage => q \in images
  /\ runs[q].pc \notin BeforeInsert => runs'[q].pc \notin BeforeInsert
  /\ runs'[q].ejected => runs'[q].pc \in AfterEject /\ bmc'[runs[q].m].media # q
  /\ runs'[q].pc = "remove" => runs'[q].ejected

\* Media that is only ever taken away, by steps that keep every goroutine in
\* order, stays accounted for.
LEMMA MediaInvFrame ==
  ASSUME TypeOK, MediaInv, UNCHANGED images,
         \A q \in RunIds : KeepsMedia(q),
         \A m \in Machines : bmc'[m].media \in {NoRun, bmc[m].media}
  PROVE  MediaInv'
<1>t. \A m \in Machines : bmc[m].media \in RunIds \cup {NoRun} BY DEF TypeOK
<1>1. ImageHeld' BY DEF ImageHeld, KeepsMedia
<1>2. MediaIsOwn' BY <1>t DEF MediaInv, MediaIsOwn, KeepsMedia
<1>3. EjectedStays' BY DEF EjectedStays, KeepsMedia
<1>4. ImageOutlivesMedia' BY <1>t DEF MediaInv, ImageOutlivesMedia
<1> QED BY <1>1, <1>2, <1>3, <1>4 DEF MediaInv

\* A goroutine that does not move keeps its media, if media is only taken away.
LEMMA StillKeepsMedia ==
  ASSUME TypeOK, MediaInv, NEW q \in RunIds, runs'[q] = runs[q],
         \A m \in Machines : bmc'[m].media \in {NoRun, bmc[m].media}
  PROVE  KeepsMedia(q)
<1>t. runs[q].m \in Machines BY DEF TypeOK, Run
<1> QED BY <1>t DEF MediaInv, ImageHeld, EjectedStays, KeepsMedia

\* A goroutine other than the one whose image is attached keeps its media.
LEMMA InsertKeepsOthers ==
  ASSUME TypeOK, MediaInv, NEW r \in RunIds, NEW q \in RunIds \ {r}, runs'[q] = runs[q],
         \A m \in Machines : bmc'[m].media \in {r, bmc[m].media}
  PROVE  KeepsMedia(q)
<1>t. runs[q].m \in Machines BY DEF TypeOK, Run
<1> QED BY <1>t DEF MediaInv, ImageHeld, EjectedStays, KeepsMedia

\* The worker's steps keep the media invariant.
LEMMA WkMediaInv ==
  ASSUME TypeOK, MediaInv, WkStep \/ \E i \in Installs : WkGet(i)
  PROVE  MediaInv'
<1>q. ASSUME UNCHANGED <<images, runs>>, \A m \in Machines : bmc'[m].media \in {NoRun, bmc[m].media}
      PROVE  MediaInv'
  BY <1>q, StillKeepsMedia, MediaInvFrame
<1>n. UNCHANGED <<images, runs, bmc>> => MediaInv' BY <1>q
<1>e. ASSUME NEW ok, EjectAndClear(wk.obj.machine, ok)
      PROVE  \A m \in Machines : bmc'[m].media \in {NoRun, bmc[m].media}
  <2>1. PICK media \in {NoRun, bmc[wk.obj.machine].media}, boot \in {FALSE, bmc[wk.obj.machine].boot} :
          bmc' = [bmc EXCEPT ![wk.obj.machine] = [media |-> media, boot |-> boot]]
    BY <1>e DEF EjectAndClear
  <2> QED BY <2>1 DEF TypeOK
<1>1. CASE (\E i \in Installs : WkGet(i)) \/ WkAddFinalizer \/ WkCheck \/ WkLiveness \/ WkSetCondition
  BY <1>1, <1>n DEF WkGet, WkAddFinalizer, WkCheck, WkLiveness, WkSetCondition, WkQuiet, worldVars
<1>2. CASE WkGuards \/ WkRefuse \/ WkMarkFailed \/ WkFinalize \/ WkRemoveFinalizer
  BY <1>2, <1>n DEF WkGuards, WkRefuse, WkMarkFailed, WkFinalize, WkRemoveFinalizer, WkQuiet, worldVars
<1>3. CASE WkClaim \/ WkStamp
  BY <1>3, <1>n DEF WkClaim, WkStamp, worldVars
<1>4. CASE WkRestarted
  BY <1>4, <1>e, <1>q DEF WkRestarted
<1>5. CASE WkRelease
  <2>1. UNCHANGED <<images, runs>> BY <1>5 DEF WkRelease
  <2>2. \A m \in Machines : bmc'[m].media \in {NoRun, bmc[m].media} BY <1>5, <1>e DEF WkRelease
  <2> QED BY <2>1, <2>2, <1>q
<1>6. CASE \E r \in RunIds : WkSpawn(r)
  <2>0. PICK r \in RunIds : WkSpawn(r) BY <1>6
  <2>1. CASE UNCHANGED runs BY <2>0, <2>1, <1>n DEF WkSpawn, worldVars
  <2>2. CASE runs' = [runs EXCEPT ![r].pc = "start", ![r].i = wk.i, ![r].m = wk.obj.machine]
    <3>1. runs \in [RunIds -> Run] /\ runs[r] \in Run BY DEF TypeOK
    <3>2. runs' = [runs EXCEPT ![r] = [runs[r] EXCEPT !.pc = "start", !.i = wk.i, !.m = wk.obj.machine]]
      BY <2>2
    <3>3. /\ runs'[r].pc = "start" /\ runs'[r].ejected = runs[r].ejected
          /\ \A q \in RunIds : q # r => runs'[q] = runs[q]
      BY <3>1, <3>2 DEF Run
    <3>4. UNCHANGED <<images, bmc>> /\ runs[r].pc = "none" BY <2>0 DEF WkSpawn, worldVars
    <3>t. \A m \in Machines : bmc[m].media \in RunIds \cup {NoRun} BY DEF TypeOK
    <3>5. ImageHeld' BY <3>3, <3>4 DEF MediaInv, ImageHeld, HoldsImage
    <3>6. \A m \in Machines : bmc[m].media # r
      BY <3>4 DEF MediaInv, MediaIsOwn, BeforeInsert
    <3>7. MediaIsOwn' BY <3>3, <3>4, <3>6, <3>t DEF MediaInv, MediaIsOwn
    <3>8. ~runs[r].ejected BY <3>4 DEF MediaInv, EjectedStays, AfterEject
    <3>9. EjectedStays' BY <3>3, <3>4, <3>8 DEF MediaInv, EjectedStays
    <3>10. ImageOutlivesMedia' BY <3>4 DEF MediaInv, ImageOutlivesMedia
    <3> QED BY <3>5, <3>7, <3>9, <3>10 DEF MediaInv
  <2> QED BY <2>0, <2>1, <2>2 DEF WkSpawn
<1> QED BY <1>1, <1>2, <1>3, <1>4, <1>5, <1>6 DEF WkStep

\* Goroutine r moves to pc and nothing else about its media changes.
MovesTo(r, pc) == OnlyMoves(r) /\ runs'[r].pc = pc /\ runs'[r].ejected = runs[r].ejected

\* Every move of provision.Install but a successful eject is of that form.
LEMMA MovesToFrame ==
  ASSUME TypeOK, NEW r \in RunIds, NEW pc, NEW res, NEW b
  PROVE  /\ Advance(r, pc) => MovesTo(r, pc)
         /\ Fail(r, pc) => MovesTo(r, pc)
         /\ runs' = [runs EXCEPT ![r].pc = pc, ![r].res = res] => MovesTo(r, pc)
         /\ runs' = [runs EXCEPT ![r].pc = pc, ![r].kube = b] => MovesTo(r, pc)
         /\ runs' = [runs EXCEPT ![r].pc = pc, ![r].clean = b] => MovesTo(r, pc)
<1>t. runs \in [RunIds -> Run] /\ runs[r] \in Run BY DEF TypeOK
<1> DEFINE Same(x) == x.pc = pc /\ x.ejected = runs[r].ejected
<1>1. ASSUME NEW x, Same(x), runs' = [runs EXCEPT ![r] = x], OnlyMoves(r) PROVE MovesTo(r, pc)
  BY <1>1, <1>t DEF MovesTo
<1>2. /\ Same([runs[r] EXCEPT !.pc = pc])
      /\ Same([runs[r] EXCEPT !.pc = pc, !.res = res])
      /\ Same([runs[r] EXCEPT !.pc = pc, !.res = "Failed"])
      /\ Same([runs[r] EXCEPT !.pc = pc, !.kube = b])
      /\ Same([runs[r] EXCEPT !.pc = pc, !.clean = b])
  BY <1>t DEF Run
<1> HIDE DEF Same
<1>3. Advance(r, pc) => MovesTo(r, pc) BY <1>1, <1>2, MoveFrame DEF Advance
<1>4. Fail(r, pc) => MovesTo(r, pc) BY <1>1, <1>2, MoveFrame DEF Fail
<1>5. runs' = [runs EXCEPT ![r].pc = pc, ![r].res = res] => MovesTo(r, pc) BY <1>1, <1>2, MoveFrame
<1>6. runs' = [runs EXCEPT ![r].pc = pc, ![r].kube = b] => MovesTo(r, pc) BY <1>1, <1>2, MoveFrame
<1>7. runs' = [runs EXCEPT ![r].pc = pc, ![r].clean = b] => MovesTo(r, pc) BY <1>1, <1>2, MoveFrame
<1> QED BY <1>3, <1>4, <1>5, <1>6, <1>7

\* The goroutines' steps keep the media invariant.
LEMMA RunMediaInv ==
  ASSUME TypeOK, MediaInv, NEW r \in RunIds, RunStep(r)
  PROVE  MediaInv'
<1> DEFINE taken == \A m \in Machines : bmc'[m].media \in {NoRun, bmc[m].media}
<1>t. /\ runs \in [RunIds -> Run] /\ runs[r] \in Run /\ runs[r].m \in Machines
      /\ bmc \in [Machines -> [media: RunIds \cup {NoRun}, boot: BOOLEAN]]
      /\ bmc[runs[r].m] \in [media: RunIds \cup {NoRun}, boot: BOOLEAN]
  <2>1. runs[r] \in Run /\ runs \in [RunIds -> Run] BY DEF TypeOK
  <2>2. runs[r].m \in Machines BY <2>1 DEF Run
  <2> QED BY <2>1, <2>2 DEF TypeOK
<1>f. \A pc : Advance(r, pc) \/ Fail(r, pc) => MovesTo(r, pc) BY MovesToFrame
<1>o. UNCHANGED bmc => taken OBVIOUS
<1>k. ASSUME UNCHANGED images, taken, KeepsMedia(r), OnlyMoves(r) PROVE MediaInv'
  <2>1. \A q \in RunIds : KeepsMedia(q) BY <1>k, StillKeepsMedia DEF OnlyMoves
  <2> QED BY <1>k, <2>1, MediaInvFrame
\* Moves before the image exists, and the build that failed.
<1>1. ASSUME NEW pc \in {"serial", "prep", "build", "finish"}, MovesTo(r, pc), UNCHANGED <<bmc, images>>,
             runs[r].pc \in {"start", "serial", "prep", "build"}
      PROVE  MediaInv'
  <2>1. KeepsMedia(r)
    BY <1>1 DEF MovesTo, OnlyMoves, KeepsMedia, MediaInv, EjectedStays, HoldsImage, BeforeInsert, AfterEject
  <2> QED BY <1>1, <1>k, <1>o, <2>1 DEF MovesTo
\* Moves of a goroutine that holds its image and has not ejected.
<1>2. ASSUME NEW pc \in HoldsImage \ (BeforeInsert \cup {"remove"}), MovesTo(r, pc), taken, UNCHANGED images,
             runs[r].pc \in HoldsImage \ AfterEject
      PROVE  MediaInv'
  <2>1. KeepsMedia(r)
    BY <1>2 DEF MovesTo, OnlyMoves, KeepsMedia, MediaInv, EjectedStays, ImageHeld
  <2> QED BY <1>2, <1>k, <2>1 DEF MovesTo
\* Moves after the eject was tried.
<1>3. ASSUME NEW pc \in AfterEject \ {"clear"}, MovesTo(r, pc), UNCHANGED images, taken,
             runs[r].pc \in AfterEject, pc = "remove" => runs[r].ejected /\ runs[r].pc = "clear"
      PROVE  MediaInv'
  <2>1. KeepsMedia(r)
    BY <1>3, <1>t DEF MovesTo, OnlyMoves, KeepsMedia, MediaInv, EjectedStays, ImageHeld,
                      HoldsImage, BeforeInsert, AfterEject
  <2> QED BY <1>3, <1>k, <2>1 DEF MovesTo
<1> USE DEF At
<1>4. CASE RunReport(r)
  <2>1. UNCHANGED <<bmc, images>> BY <1>4 DEF RunReport, Report, worldVars
  <2>2. CASE Report(r, "start", "Pending", "serial") \/ Report(r, "prep", "Preparing", "build")
    BY <2>1, <2>2, <1>f, <1>1 DEF Report
  <2>3. CASE ~(Report(r, "start", "Pending", "serial") \/ Report(r, "prep", "Preparing", "build"))
    <3>1. PICK pc \in {"insert", "wait", "joining", "join"} : Advance(r, pc)
      BY <1>4, <2>3 DEF RunReport, Report
    <3>2. runs[r].pc \in {"media", "installing", "installed", "joining"}
      BY <1>4, <2>3 DEF RunReport, Report
    <3> QED BY <2>1, <3>1, <3>2, <1>f, <1>2, <1>o DEF HoldsImage, BeforeInsert, AfterEject
  <2> QED BY <2>2, <2>3
<1>5. CASE RunSerial(r)
  BY <1>5, <1>f, <1>1 DEF RunSerial, worldVars
<1>6. CASE RunBuild(r)
  <2>1. CASE Fail(r, "finish") /\ UNCHANGED images
    BY <1>6, <2>1, <1>f, <1>1 DEF RunBuild
  <2>2. CASE images' = images \cup {r} /\ Advance(r, "media")
    <3>1. MovesTo(r, "media") /\ UNCHANGED bmc /\ runs[r].pc = "build" BY <1>6, <2>2, <1>f DEF RunBuild
    <3>2. ~runs[r].ejected /\ \A m \in Machines : bmc[m].media # r
      BY <3>1, <1>t DEF MediaInv, EjectedStays, MediaIsOwn, AfterEject, BeforeInsert
    <3>3. ImageHeld' BY <2>2, <3>1 DEF MediaInv, ImageHeld, MovesTo, OnlyMoves
    <3>4. MediaIsOwn' BY <3>1, <3>2, <1>t DEF MediaInv, MediaIsOwn, MovesTo, OnlyMoves
    <3>5. EjectedStays' BY <3>1, <3>2 DEF MediaInv, EjectedStays, MovesTo, OnlyMoves
    <3>6. ImageOutlivesMedia' BY <2>2, <3>1 DEF MediaInv, ImageOutlivesMedia
    <3> QED BY <3>3, <3>4, <3>5, <3>6 DEF MediaInv
  <2> QED BY <1>6, <2>1, <2>2 DEF RunBuild
<1>7. CASE RunInsert(r)
  <2>1. PICK x \in {r, bmc[runs[r].m].media} : bmc' = [bmc EXCEPT ![runs[r].m].media = x]
    BY <1>7 DEF RunInsert
  <2>2. PICK pc \in {"boot", "eject"} : MovesTo(r, pc) BY <1>7, <1>f DEF RunInsert
  <2>3. UNCHANGED images /\ runs[r].pc = "insert" BY <1>7 DEF RunInsert
  <2>4. r \in images /\ ~runs[r].ejected
    BY <2>3 DEF MediaInv, ImageHeld, EjectedStays, HoldsImage, AfterEject
  <2>5. \A m \in Machines : /\ m # runs[r].m => bmc'[m].media = bmc[m].media
                            /\ bmc'[runs[r].m].media = x
    BY <2>1, <1>t
  <2>6. ImageHeld' BY <2>2, <2>3, <2>4 DEF MediaInv, ImageHeld, MovesTo, OnlyMoves
  <2>7. MediaIsOwn'
    <3>1. runs'[r].pc \notin BeforeInsert BY <2>2 DEF MovesTo, BeforeInsert
    <3>2. \A q \in RunIds : runs'[q].m = runs[q].m /\ (q # r => runs'[q].pc = runs[q].pc)
      BY <2>2 DEF MovesTo, OnlyMoves
    <3>3. \A m \in Machines : bmc'[m].media = bmc[m].media \/ (m = runs[r].m /\ bmc'[m].media = r)
      BY <2>1, <2>5
    <3> QED BY <3>1, <3>2, <3>3, <1>t DEF MediaInv, MediaIsOwn
  <2>8. EjectedStays'
    <3>1. \A m \in Machines : bmc'[m].media \in {r, bmc[m].media} BY <2>1, <2>5
    <3>2. \A q \in RunIds \ {r} : KeepsMedia(q) BY <3>1, <2>2, InsertKeepsOthers DEF MovesTo, OnlyMoves
    <3>3. ~runs'[r].ejected /\ runs'[r].pc # "remove" BY <2>2, <2>4 DEF MovesTo
    <3> QED BY <3>2, <3>3 DEF EjectedStays, KeepsMedia
  <2>9. ImageOutlivesMedia' BY <2>1, <2>3, <2>4, <2>5 DEF MediaInv, ImageOutlivesMedia
  <2> QED BY <2>6, <2>7, <2>8, <2>9 DEF MediaInv
<1>8. CASE RunBootOnce(r)
  <2>1. PICK pc \in {"reset", "eject"} : MovesTo(r, pc) BY <1>8, <1>f DEF RunBootOnce
  <2>2. PICK x \in BOOLEAN : bmc' = [bmc EXCEPT ![runs[r].m].boot = x] BY <1>8, <1>t DEF RunBootOnce
  <2>3. taken BY <2>2, <1>t
  <2> QED BY <1>8, <2>1, <2>3, <1>2 DEF RunBootOnce, HoldsImage, BeforeInsert, AfterEject
<1>9. CASE RunReset(r)
  <2>1. PICK pc \in {"installing", "eject"} : MovesTo(r, pc) BY <1>9, <1>f DEF RunReset
  <2>2. UNCHANGED bmc \/ bmc' = [bmc EXCEPT ![runs[r].m].boot = FALSE] BY <1>9 DEF RunReset, PowerCycle
  <2>3. taken BY <2>2, <1>t
  <2> QED BY <1>9, <2>1, <2>3, <1>2 DEF RunReset, HoldsImage, BeforeInsert, AfterEject
<1>10. CASE RunWait(r) \/ RunJoin(r) \/ RunNodeReady(r)
  <2>1. PICK pc \in {"installed", "nodeready", "eject"} : MovesTo(r, pc)
    BY <1>10, <1>f, MovesToFrame DEF RunWait, RunJoin, RunNodeReady
  <2>2. UNCHANGED <<bmc, images>> /\ runs[r].pc \in {"wait", "join", "nodeready"}
    BY <1>10 DEF RunWait, RunJoin, RunNodeReady, worldVars
  <2> QED BY <2>1, <2>2, <1>2, <1>o DEF HoldsImage, BeforeInsert, AfterEject
<1>11. CASE RunEject(r)
  <2>1. PICK x \in {NoRun, bmc[runs[r].m].media} : bmc' = [bmc EXCEPT ![runs[r].m].media = x]
    BY <1>11 DEF RunEject
  <2>2. taken BY <2>1, <1>t
  <2>3. CASE runs' = [runs EXCEPT ![r].pc = "clear", ![r].clean = FALSE]
    <3>1. MovesTo(r, "clear") BY <2>3, MovesToFrame
    <3> QED BY <1>11, <2>2, <3>1, <1>2 DEF RunEject, HoldsImage, BeforeInsert, AfterEject
  <2>4. CASE /\ runs' = [runs EXCEPT ![r].pc = "clear", ![r].ejected = TRUE]
             /\ bmc' = [bmc EXCEPT ![runs[r].m].media = NoRun]
    <3>1. OnlyMoves(r) BY <2>4, MoveFrame
    <3>2. runs' = [runs EXCEPT ![r] = [runs[r] EXCEPT !.pc = "clear", !.ejected = TRUE]] BY <2>4
    <3>3. runs'[r].pc = "clear" BY <3>2, <1>t DEF Run
    <3>4. bmc'[runs[r].m].media # r BY <2>4, <1>t
    <3>5. UNCHANGED images /\ r \in images
      BY <1>11 DEF RunEject, MediaInv, ImageHeld, HoldsImage
    <3>6. KeepsMedia(r)
      BY <3>1, <3>3, <3>4, <3>5 DEF OnlyMoves, KeepsMedia, BeforeInsert, AfterEject
    <3> QED BY <2>2, <3>1, <3>5, <3>6, <1>k
  <2> QED BY <1>11, <2>3, <2>4 DEF RunEject
<1>12. CASE RunClear(r)
  <2> DEFINE next == IF runs[r].ejected THEN "remove" ELSE "settle"
  <2>1. MovesTo(r, next) BY <1>12, MovesToFrame DEF RunClear
  <2>2. taken BY <1>12, <1>t DEF RunClear
  <2>3. UNCHANGED images /\ runs[r].pc = "clear" BY <1>12 DEF RunClear
  <2>4. next \in AfterEject \ {"clear"} /\ (next = "remove" => runs[r].ejected) /\ "clear" \in AfterEject
    BY DEF AfterEject
  <2> QED BY <2>1, <2>2, <2>3, <2>4, <1>3
<1>13. CASE RunRemove(r)
  <2>1. MovesTo(r, "settle") BY <1>13, MovesToFrame DEF RunRemove
  <2>2. UNCHANGED bmc /\ runs[r].pc = "remove" BY <1>13 DEF RunRemove
  <2>3. CASE UNCHANGED images
    BY <2>1, <2>2, <2>3, <1>3, <1>o DEF AfterEject
  <2>4. CASE images' = images \ {r}
    <3>1. runs[r].ejected /\ bmc[runs[r].m].media # r BY <2>2 DEF MediaInv, EjectedStays
    <3>2. \A m \in Machines : bmc[m].media # r BY <3>1, <1>t DEF MediaInv, MediaIsOwn
    <3>3. ImageOutlivesMedia' BY <2>2, <2>4, <3>2 DEF MediaInv, ImageOutlivesMedia
    <3>4. ImageHeld' BY <2>1, <2>4 DEF MediaInv, ImageHeld, MovesTo, OnlyMoves, HoldsImage
    <3>5. MediaIsOwn' BY <2>1, <2>2, <3>2, <1>t DEF MediaInv, MediaIsOwn, MovesTo, OnlyMoves
    <3>6. EjectedStays' BY <2>1, <2>2, <3>1 DEF MediaInv, EjectedStays, MovesTo, OnlyMoves, AfterEject
    <3> QED BY <3>3, <3>4, <3>5, <3>6 DEF MediaInv
  <2> QED BY <1>13, <2>3, <2>4 DEF RunRemove
<1>14. CASE RunSettle(r)
  BY <1>14, <1>f, <1>3, <1>o DEF RunSettle, worldVars, AfterEject
<1>15. CASE RunFinishStatus(r)
  BY <1>15, <1>f, <1>3, <1>o DEF RunFinishStatus, AfterEject
<1>16. CASE RunFinishInstall(r)
  <2>1. /\ runs'[r].pc = "done" /\ runs'[r].m = runs[r].m /\ ~runs'[r].ejected
        /\ \A q \in RunIds : q # r => runs'[q] = runs[q]
    BY <1>16, <1>t DEF RunFinishInstall, Ended, Run
  <2>2. UNCHANGED <<bmc, images>> BY <1>16 DEF RunFinishInstall, worldVars
  <2>3. KeepsMedia(r) /\ OnlyMoves(r) BY <2>1 DEF KeepsMedia, OnlyMoves, HoldsImage, BeforeInsert
  <2> QED BY <2>2, <2>3, <1>k, <1>o
<1> QED BY <1>4, <1>5, <1>6, <1>7, <1>8, <1>9, <1>10, <1>11, <1>12, <1>13, <1>14, <1>15, <1>16 DEF RunStep

\* Wherever a BMC may still have installer media attached, provisiond still
\* serves that image: for any installs, machines, crashes, edits and cache
\* lag, an image is removed only after its own goroutine saw the eject succeed.
THEOREM ImageServed == Spec => []ImageOutlivesMedia
<1>1. Init => MediaInv
  BY DEF Init, MediaInv, ImageHeld, MediaIsOwn, EjectedStays, ImageOutlivesMedia, HoldsImage
<1>2. TypeOK /\ MediaInv /\ [Next]_vars => MediaInv'
  <2> SUFFICES ASSUME TypeOK, MediaInv, [Next]_vars PROVE MediaInv' OBVIOUS
  <2>q. UNCHANGED <<images, runs, bmc>> => MediaInv' BY StillKeepsMedia, MediaInvFrame
  <2>1. CASE \/ \E i \in Installs, m \in Machines : Create(i, m) \/ Edit(i, m)
             \/ \E i \in Installs : Delete(i)
             \/ CacheSync \/ UNCHANGED vars
    BY <2>1, <2>q DEF Create, Edit, Delete, CacheSync, mgrVars, worldVars, vars
  <2>2. CASE Crash
    <3>1. \A r \in RunIds : runs[r] \in Run BY DEF TypeOK
    <3>2. \A r \in RunIds : \/ runs'[r] = runs[r]
                            \/ runs'[r].pc = "killed" /\ runs'[r].m = runs[r].m /\ ~runs'[r].ejected
      BY <2>2, <3>1 DEF Crash, Ended, Run
    <3>3. UNCHANGED <<bmc, images>> BY <2>2 DEF Crash, worldVars
    <3>4. \A r \in RunIds : KeepsMedia(r)
      BY <3>2, <3>3, StillKeepsMedia DEF KeepsMedia, HoldsImage, BeforeInsert
    <3> QED BY <3>3, <3>4, MediaInvFrame
  <2> QED BY <2>1, <2>2, WkMediaInv, RunMediaInv DEF Next
<1>3. MediaInv => ImageOutlivesMedia BY DEF MediaInv
<1> QED BY <1>1, <1>2, <1>3, TypeCorrect, PTL DEF Spec
=============================================================================
