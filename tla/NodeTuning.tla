------------------------------ MODULE NodeTuning ------------------------------
(***************************************************************************)
(* The NodeTuning rollout: the controller that approves, cordons, drains   *)
(* and asks (internal/controller/frame/nodetuning_*.go), and the agent on  *)
(* each node that publishes, restarts and reports (cmd/agent,              *)
(* internal/agent).  They talk through Node annotations and through        *)
(* status.nodes, which both write.                                         *)
(*                                                                         *)
(* One reconcile worker serves every NodeTuning.  It reads NodeTunings     *)
(* from the informer cache and Nodes from the API server, works through a  *)
(* snapshot of the nodes, and writes status at the end.  Timestamps are    *)
(* counters: the unit's start count stands for its ActiveEnterTimestamp,   *)
(* a request number for the time it was made.  late[n] says whether the    *)
(* deadline the controller would look at (drain, or restart once asked)    *)
(* has passed.                                                             *)
(***************************************************************************)
EXTENDS Integers, FiniteSets

CONSTANTS Tunings,      \* NodeTuning objects
          Nodes,
          NoTuning, NoNode,
          MaxGen,       \* bound: metadata.generation
          MaxCordons,   \* bound: rollouts started per object, node and generation
          MaxStarts,    \* bound: starts of a node's k3s unit
          MaxReleases,  \* bound: halts released by hand
          Limits        \* the scenarios: what may happen in one behaviour

\* So many NodeTunings and width nodes take part; edits, rollouts per approval,
\* unasked unit starts, manager restarts, failed API writes, failures to record
\* a serviced request, hand releases and deletions are bounded; nodes may lose
\* readiness when flap, the informer cache may trail the API server when lag.
Scenario == [tunings: Nat, width: Nat, edits: Nat, cordons: Nat, stray: Nat, crash: Nat, fault: Nat,
             lost: Nat, release: Nat, deletes: Nat, flap: BOOLEAN, lag: BOOLEAN]

ASSUME TuningBounds ==
  /\ {MaxGen, MaxStarts, MaxCordons} \subseteq Nat \ {0} /\ MaxReleases \in Nat
  /\ \A l \in Limits :
       /\ l \in Scenario
       /\ l.edits < MaxGen /\ l.cordons <= MaxCordons /\ l.release <= MaxReleases
       /\ 1 + l.cordons + l.stray <= MaxStarts
ASSUME TuningNames == Tunings # {} /\ Nodes # {} /\ NoTuning \notin Tunings /\ NoNode \notin Nodes

VARIABLES api,      \* NodeTunings at the API server
          cache,    \* the manager's informer cache of them
          node,     \* Nodes at the API server: annotations, cordon, readiness
          pods,     \* whether a node still runs pods a drain has to move
          late,     \* whether the rollout's current deadline has passed
          host,     \* each node's systemd and agent files
          wk,       \* the reconcile worker
          ag,       \* the agent on each node
          cordons,  \* rollouts started since the last edit or release
          used      \* the scenario of this behaviour, and how much of it is spent

vars == <<api, cache, node, pods, late, host, wk, ag, cordons, used>>

lim == used.lim      \* fixed by Init
scope == used.scope  \* the nodes that take part, fixed by Init

-----------------------------------------------------------------------------
Reqs == 0 .. Cardinality(Tunings) * Cardinality(Nodes) * MaxGen * MaxCordons * (MaxReleases + 1)

\* spec (sel, want = ksm.enabled) and status (rg = restartedGeneration, 0 when
\* restartedAt is nil; obs = observed.ksm.memoryKSM) of one NodeTuning.
Objects == [st: {"live", "deleting", "gone"}, gen: 1 .. MaxGen, fin: BOOLEAN,
            sel: SUBSET Nodes, want: BOOLEAN,
            rg: [Nodes -> 0 .. MaxGen], obs: [Nodes -> {"absent", "no", "yes"}]]

\* approved is the approval annotation; active the published
\* ActiveEnterTimestamp; 0 stands for an annotation that is not there.
NodeState == [ready: BOOLEAN, cordoned: BOOLEAN, started: BOOLEAN, owner: Tunings \cup {NoTuning},
              failed: BOOLEAN, requested: Reqs, baseline: 0 .. MaxStarts,
              active: 0 .. MaxStarts, approved: 0 .. MaxGen]

\* starts counts the unit's starts; ksm is what the running unit was started
\* with, dropin what its next start would use; armed is the transient timer
\* unit; acted the request file under /run.
HostState == [starts: 1 .. MaxStarts, ksm: BOOLEAN, dropin: BOOLEAN, armed: BOOLEAN, acted: Reqs]

AgentState == [pc: {"idle", "publish", "service", "report"}, req: Reqs, active: 0 .. MaxStarts,
               match: SUBSET Tunings, ksm: BOOLEAN]

NewObject(st, sel) == [st |-> st, gen |-> 1, fin |-> FALSE, sel |-> sel, want |-> TRUE,
                       rg |-> [n \in Nodes |-> 0], obs |-> [n \in Nodes |-> "absent"]]
NewNode == [ready |-> TRUE, cordoned |-> FALSE, started |-> FALSE, owner |-> NoTuning, failed |-> FALSE,
            requested |-> 0, baseline |-> 0, active |-> 0, approved |-> 0]

\* The worker between two Reconcile calls.
Idle == [pc |-> "idle", t |-> NoTuning, obj |-> NewObject("gone", {}), snap |-> [n \in Nodes |-> NewNode],
         lock |-> NoNode, todo |-> {}, work |-> {}, owns |-> FALSE, n |-> NoNode]
AgIdle == [pc |-> "idle", req |-> 0, active |-> 0, match |-> {}, ksm |-> FALSE]

View(t) == IF lim.lag THEN cache[t] ELSE api[t]
Exists(t) == api[t].st # "gone"
Spend(what) == used' = [used EXCEPT ![what] = @ + 1]
CanFail == used.fault < lim.fault

\* rolloutOwnedBy.
OwnedBy(nd, t) == nd.started /\ nd.owner = t
Drifts(o, n) == (o.obs[n] = "yes") # o.want

-----------------------------------------------------------------------------
(* People and the cluster.                                                 *)

world == <<pods, late, host, wk, ag>>

Approve(n, t) ==
  /\ n \in scope /\ Exists(t) /\ node[n].approved # api[t].gen
  /\ node' = [node EXCEPT ![n].approved = api[t].gen]
  /\ UNCHANGED <<api, cache, world, cordons, used>>

\* An edit of the spec: selector and ksm.enabled.
Edit(t, sel, want) ==
  /\ api[t].st = "live" /\ api[t].gen <= lim.edits /\ sel \subseteq scope
  /\ api' = [api EXCEPT ![t].gen = @ + 1, ![t].sel = sel, ![t].want = want]
  /\ cordons' = [cordons EXCEPT ![t] = [n \in Nodes |-> 0]]
  /\ UNCHANGED <<cache, node, world, used>>

Delete(t) ==
  /\ api[t].st = "live"
  /\ Cardinality({u \in Tunings : api[u].st = "live"}) > lim.tunings - lim.deletes
  /\ api' = [api EXCEPT ![t].st = IF api[t].fin THEN "deleting" ELSE "gone"]
  /\ UNCHANGED <<cache, node, world, cordons, used>>

\* "release with `kubectl annotate node <n> <started>-` to retry".
Release(n) ==
  /\ node[n].started /\ node[n].failed /\ used.release < lim.release
  /\ node' = [node EXCEPT ![n].started = FALSE]
  /\ cordons' = [t \in Tunings |-> [cordons[t] EXCEPT ![n] = 0]]
  /\ Spend("release")
  /\ UNCHANGED <<api, cache, world>>

\* A node's lease comes and goes.
Readiness(n) ==
  /\ lim.flap /\ n \in scope
  /\ node' = [node EXCEPT ![n].ready = ~@]
  /\ UNCHANGED <<api, cache, world, cordons, used>>

\* The drain deadline, or the restart deadline once the restart was asked for.
Expire(n) ==
  /\ node[n].started /\ ~late[n]
  /\ late' = [late EXCEPT ![n] = TRUE]
  /\ UNCHANGED <<api, cache, node, pods, host, wk, ag, cordons, used>>

\* The informer delivers events in order.
CacheSync ==
  /\ lim.lag /\ cache # api /\ cache' = api
  /\ UNCHANGED <<api, node, world, cordons, used>>

-----------------------------------------------------------------------------
(* The controller.  wk.obj is the NodeTuning as this pass read it, with the *)
(* status this pass computes; wk.snap the node list it read.                *)

WkQuiet == UNCHANGED <<cache, host, ag>>
Goto(pc) == wk' = IF pc = "idle" THEN Idle ELSE [wk EXCEPT !.pc = pc]

\* The node holding the campaign lock, as a list of nodes shows it.
LockHolder == IF \E n \in Nodes : node[n].started THEN CHOOSE n \in Nodes : node[n].started ELSE NoNode

\* The nodes Reconcile goes through: selected, or adopted because this object
\* cordoned them.
Work(t, o) == o.sel \cup {n \in Nodes : OwnedBy(node[n], t)}

\* Get (cache), node list (API server), campaign lock.
WkGet(t) ==
  /\ wk.pc = "idle" /\ View(t).st # "gone"
  /\ LET o == View(t)
         work == IF o.st = "live" THEN Work(t, o) ELSE {n \in Nodes : OwnedBy(node[n], t)}
     IN wk' = [pc |-> IF o.st = "live" THEN "node" ELSE "release", t |-> t, obj |-> o, snap |-> node,
               lock |-> LockHolder, todo |-> work, work |-> work, owns |-> FALSE, n |-> NoNode]
  /\ UNCHANGED <<api, node, pods, late, cordons, used>> /\ WkQuiet

\* The node is done for this pass.
Done(n) == wk' = [wk EXCEPT !.todo = @ \ {n}]
DoneOwning(n) == wk' = [wk EXCEPT !.todo = @ \ {n}, !.owns = TRUE]

\* A node write that the API server refused: retried on a later pass.
Refused == CanFail /\ Spend("fault") /\ UNCHANGED node

Wait(n) == DoneOwning(n) /\ UNCHANGED <<node, pods, late, used>>

\* Mutant: a deadline that passed is not acted upon.
FailRolloutWaits(n) == Wait(n)

\* failRollout: the marker, or nothing when the patch fails.
FailRollout(n) ==
  /\ DoneOwning(n)
  /\ \/ node' = [node EXCEPT ![n].failed = TRUE] /\ UNCHANGED used
     \/ Refused
  /\ UNCHANGED <<pods, late>>

\* drainAndRequest.  The baseline is the timestamp in this pass's snapshot.
DrainAndRequest(n) ==
  \/ pods[n] /\ late[n] /\ FailRollout(n)
  \/ /\ pods[n] /\ ~late[n] /\ DoneOwning(n)
     /\ \E moved \in BOOLEAN : pods' = [pods EXCEPT ![n] = ~moved]
     /\ UNCHANGED <<node, late, used>>
  \/ /\ ~pods[n] /\ DoneOwning(n)
     /\ \/ /\ used' = [used EXCEPT !.req = @ + 1]
           /\ node' = [node EXCEPT ![n].baseline = wk.snap[n].active, ![n].requested = used.req + 1]
           /\ late' = [late EXCEPT ![n] = FALSE]
        \/ Refused /\ UNCHANGED late
     /\ UNCHANGED pods

\* releaseNode, and continueRollout's uncordon: every annotation of the
\* controller goes; the scheduler gives the node pods again.
Uncordon(n) ==
  /\ node' = [node EXCEPT ![n] = [@ EXCEPT !.cordoned = FALSE, !.started = FALSE, !.owner = NoTuning,
                                          !.failed = FALSE, !.requested = 0, !.baseline = 0]]
  /\ pods' = [pods EXCEPT ![n] = TRUE]
  /\ late' = [late EXCEPT ![n] = FALSE]


\* The restart is verified by the unit's timestamp moving past the baseline.
Back(nd) == nd.active > nd.baseline

\* Mutant: the restart is recorded for the generation after this one.
VerifiedNextGen(n) ==
  wk' = [wk EXCEPT !.todo = @ \ {n}, !.owns = TRUE, !.obj.rg[n] = wk.obj.gen + 1,
                   !.lock = IF @ = n THEN NoNode ELSE @]
\* Mutant: the restart is not recorded.
VerifiedUnrecorded(n) ==
  wk' = [wk EXCEPT !.todo = @ \ {n}, !.owns = TRUE, !.lock = IF @ = n THEN NoNode ELSE @]

\* The node is back: lock released, restartedGeneration recorded.
Verified(n) ==
  wk' = [wk EXCEPT !.todo = @ \ {n}, !.owns = TRUE, !.obj.rg[n] = wk.obj.gen,
                   !.lock = IF @ = n THEN NoNode ELSE @]

\* continueRollout.
ContinueRollout(n) ==
  LET nd == wk.snap[n]
      back == Back(nd)
  IN \/ nd.requested = 0 /\ DrainAndRequest(n)
     \/ /\ nd.requested # 0 /\ back /\ nd.ready
        /\ \/ /\ Uncordon(n) /\ Verified(n) /\ UNCHANGED used
           \/ Refused /\ DoneOwning(n) /\ UNCHANGED <<pods, late>>
     \/ nd.requested # 0 /\ ~(back /\ nd.ready) /\ late[n] /\ FailRollout(n)
     \/ nd.requested # 0 /\ ~(back /\ nd.ready) /\ ~late[n] /\ Wait(n)

\* overlappingNodeTunings.
Overlaps(n) == \E u \in Tunings \ {wk.t} : View(u).st # "gone" /\ n \in View(u).sel

\* Mutant: the campaign lock is not consulted.
MayStartUnlocked(n) == (\A m \in Nodes : wk.snap[m].ready) /\ wk.snap[n].active # 0

\* The refusals at the top of startRollout.
MayStart(n) ==
  /\ wk.lock \in {NoNode, n}
  /\ \A m \in Nodes : wk.snap[m].ready
  /\ wk.snap[n].active # 0

\* The switch of Reconcile for one node.
WkNode(n) ==
  LET nd == wk.snap[n]
      due == /\ ~nd.started /\ ~Overlaps(n) /\ Drifts(wk.obj, n)
             /\ nd.approved = wk.obj.gen /\ wk.obj.rg[n] # wk.obj.gen
  IN /\ wk.pc = "node" /\ n \in wk.todo
     /\ \/ OwnedBy(nd, wk.t) /\ nd.failed /\ Wait(n)
        \/ OwnedBy(nd, wk.t) /\ ~nd.failed /\ ContinueRollout(n)
        \/ ~OwnedBy(nd, wk.t) /\ ~(due /\ MayStart(n)) /\ Done(n) /\ UNCHANGED <<node, pods, late, used>>
        \/ due /\ MayStart(n) /\ wk' = [wk EXCEPT !.pc = "finalizer", !.n = n]
           /\ UNCHANGED <<node, pods, late, used>>
     /\ UNCHANGED <<api, cordons>> /\ WkQuiet


\* ensureFinalizer: an Update with the resourceVersion that was read.
WkFinalizer ==
  /\ wk.pc = "finalizer"
  /\ IF wk.obj.fin THEN Goto("cordon") /\ UNCHANGED api
     ELSE \/ /\ api[wk.t] = wk.obj /\ api' = [api EXCEPT ![wk.t].fin = TRUE]
             /\ wk' = [wk EXCEPT !.pc = "cordon", !.obj.fin = TRUE]
          \/ /\ api[wk.t] # wk.obj /\ UNCHANGED api
             /\ wk' = [wk EXCEPT !.pc = "node", !.todo = @ \ {wk.n}]
  /\ UNCHANGED <<node, pods, late, cordons, used>> /\ WkQuiet

\* startRollout's one patch: cordon, started, owner, and a clean slate.
WkCordon ==
  LET n == wk.n
  IN /\ wk.pc = "cordon" /\ cordons[wk.t][n] < lim.cordons
     /\ \/ /\ node' = [node EXCEPT ![n] = [@ EXCEPT !.cordoned = TRUE, !.started = TRUE, !.owner = wk.t,
                                                    !.failed = FALSE, !.requested = 0, !.baseline = 0]]
           /\ wk' = [wk EXCEPT !.pc = "node", !.todo = @ \ {n}, !.owns = TRUE, !.lock = n]
           /\ late' = [late EXCEPT ![n] = FALSE]
           /\ cordons' = [cordons EXCEPT ![wk.t][n] = @ + 1]
           /\ UNCHANGED used
        \/ Refused /\ wk' = [wk EXCEPT !.pc = "node", !.todo = @ \ {n}] /\ UNCHANGED <<late, cordons>>
     /\ UNCHANGED <<api, pods>> /\ WkQuiet

\* patchStatus reads the object afresh and retries on conflict: it carries
\* this pass's entries, with Observed from the fresh read (preserveObserved).
\* wk.obj becomes the patched object.
WkStatus ==
  LET fresh == api[wk.t]
      merged == [fresh EXCEPT
        !.rg = [n \in Nodes |-> IF n \in wk.work THEN wk.obj.rg[n] ELSE 0],
        !.obs = [n \in Nodes |-> IF n \notin wk.work THEN "absent"
                                 ELSE IF fresh.obs[n] # "absent" THEN fresh.obs[n] ELSE wk.obj.obs[n]]]
  IN /\ wk.pc = "node" /\ wk.todo = {}
     /\ \/ /\ Exists(wk.t) /\ api' = [api EXCEPT ![wk.t] = merged] /\ UNCHANGED used
           /\ wk' = IF wk.owns \/ ~merged.fin THEN Idle ELSE [wk EXCEPT !.pc = "unfin", !.obj = merged]
        \/ /\ ~Exists(wk.t) /\ Goto("idle") /\ UNCHANGED <<api, used>>
        \/ /\ Exists(wk.t) /\ CanFail /\ Spend("fault") /\ Goto("idle") /\ UNCHANGED api
     /\ UNCHANGED <<node, pods, late, cordons>> /\ WkQuiet

\* finishDeletion: release every owned node, then the finalizer.
WkRelease(n) ==
  /\ wk.pc = "release" /\ n \in wk.todo
  /\ \/ Uncordon(n) /\ Done(n) /\ UNCHANGED used
     \/ Refused /\ Goto("idle") /\ UNCHANGED <<pods, late>>
  /\ UNCHANGED <<api, cordons>> /\ WkQuiet

\* removeFinalizer: an Update with the resourceVersion that was read.
WkRemoveFinalizer ==
  /\ wk.pc = "unfin" \/ (wk.pc = "release" /\ wk.todo = {})
  /\ Goto("idle")
  /\ api' = IF wk.obj.fin /\ api[wk.t] = wk.obj
            THEN [api EXCEPT ![wk.t].fin = FALSE, ![wk.t].st = IF @ = "deleting" THEN "gone" ELSE @]
            ELSE api
  /\ UNCHANGED <<node, pods, late, cordons, used>> /\ WkQuiet

WkStep == (\E n \in Nodes : WkNode(n) \/ WkRelease(n)) \/ WkFinalizer \/ WkCordon \/ WkStatus
          \/ WkRemoveFinalizer

\* The manager dies: only what it was doing is lost.
Crash ==
  /\ used.crash < lim.crash /\ Spend("crash") /\ Goto("idle")
  /\ cache' = IF lim.lag THEN api ELSE cache
  /\ UNCHANGED <<api, node, pods, late, host, ag, cordons>>

-----------------------------------------------------------------------------
(* The agent's tick, and the node under it.                                *)

AgQuiet == UNCHANGED <<cache, pods, late, wk, cordons>>

\* Get, List, selecting, applyMatched.
AgTick(n) ==
  /\ n \in scope /\ ag[n].pc = "idle"
  /\ LET match == {t \in Tunings : Exists(t) /\ n \in api[t].sel}
     IN /\ ag' = [ag EXCEPT ![n] = [pc |-> "publish", req |-> node[n].requested, active |-> node[n].active,
                                    match |-> match, ksm |-> FALSE]]
        /\ host' = IF Cardinality(match) = 1
                   THEN [host EXCEPT ![n].dropin = api[CHOOSE t \in match : TRUE].want] ELSE host
  /\ UNCHANGED <<api, node, used>> /\ AgQuiet

\* RefreshSystemdCache and publishNodeState.  A patch that lands also
\* refreshes the agent's copy of the node; an unchanged one is not sent.
AgPublish(n) ==
  /\ ag[n].pc = "publish"
  /\ \/ /\ node' = IF host[n].starts # ag[n].active THEN [node EXCEPT ![n].active = host[n].starts] ELSE node
        /\ ag' = [ag EXCEPT ![n].pc = "service", ![n].ksm = host[n].ksm,
                            ![n].req = IF host[n].starts # ag[n].active THEN node[n].requested ELSE @]
        /\ UNCHANGED used
     \/ /\ host[n].starts # ag[n].active /\ Refused
        /\ ag' = [ag EXCEPT ![n].pc = "service", ![n].ksm = host[n].ksm]
  /\ UNCHANGED <<api, host>> /\ AgQuiet

\* serviceRestartRequest.  The transient unit has one fixed name, so arming a
\* second one while the first waits fails; a request is recorded after it is
\* armed, and recording can fail.
AgService(n) ==
  /\ ag[n].pc = "service"
  /\ ag' = [ag EXCEPT ![n].pc = "report"]
  /\ LET new == ag[n].req # 0 /\ ag[n].req # host[n].acted /\ ~host[n].armed
     IN \/ ~new /\ UNCHANGED <<host, used>>
        \/ new /\ host' = [host EXCEPT ![n].armed = TRUE, ![n].acted = ag[n].req] /\ UNCHANGED used
        \/ new /\ used.lost < lim.lost /\ Spend("lost") /\ host' = [host EXCEPT ![n].armed = TRUE]
  /\ UNCHANGED <<api, node>> /\ AgQuiet

\* Observe and PatchObserved: re-read, set this node's Observed, retry.
AgReport(n) ==
  /\ ag[n].pc = "report"
  /\ ag' = [ag EXCEPT ![n] = AgIdle]
  /\ api' = [t \in Tunings |-> IF t \in ag[n].match /\ Exists(t)
                               THEN [api[t] EXCEPT !.obs[n] = IF ag[n].ksm THEN "yes" ELSE "no"] ELSE api[t]]
  /\ UNCHANGED <<node, host, used>> /\ AgQuiet

AgStep(n) == AgTick(n) \/ AgPublish(n) \/ AgService(n) \/ AgReport(n)

\* The k3s unit starts again: it loads the drop-in (or systemd kept the old
\* one), and takes the agent pod with it or not.
UnitStarts(n, h) ==
  /\ n \in scope /\ host[n].starts <= lim.cordons + lim.stray
  /\ \E ksm \in {host[n].ksm, host[n].dropin} :
       host' = [host EXCEPT ![n] = [h EXCEPT !.starts = @ + 1, !.ksm = ksm]]
  /\ ag' \in {ag, [ag EXCEPT ![n] = AgIdle]}
  /\ UNCHANGED <<api, node>> /\ AgQuiet

\* The armed timer fires.
Fire(n) == host[n].armed /\ UnitStarts(n, [host[n] EXCEPT !.armed = FALSE]) /\ UNCHANGED used

\* A restart of the unit by an administrator, or by a crash of it.
Stray(n) == used.stray < lim.stray /\ Spend("stray") /\ UnitStarts(n, host[n])

\* A reboot of the node, which also empties /run.
Reboot(n) ==
  /\ used.stray < lim.stray /\ Spend("stray")
  /\ UnitStarts(n, [host[n] EXCEPT !.armed = FALSE, !.acted = 0])

-----------------------------------------------------------------------------
Next ==
  \/ \E t \in Tunings : Delete(t) \/ WkGet(t)
  \/ \E t \in Tunings, sel \in SUBSET Nodes, want \in BOOLEAN : Edit(t, sel, want)
  \/ \E n \in Nodes, t \in Tunings : Approve(n, t)
  \/ \E n \in Nodes : \/ Release(n) \/ Readiness(n) \/ Expire(n)
                      \/ AgStep(n) \/ Fire(n) \/ Stray(n) \/ Reboot(n)
  \/ WkStep \/ CacheSync \/ Crash

Init ==
  /\ \E l \in Limits : \E s \in {s \in SUBSET Nodes : Cardinality(s) = l.width} :
       used = [stray |-> 0, crash |-> 0, fault |-> 0, lost |-> 0, release |-> 0, req |-> 0,
               lim |-> l, scope |-> s]
  /\ \E ts \in {ts \in SUBSET Tunings : Cardinality(ts) = lim.tunings} :
       \E sel \in [ts -> SUBSET scope \ {{}}] :
         api = [t \in Tunings |-> IF t \in ts THEN NewObject("live", sel[t]) ELSE NewObject("gone", {})]
  /\ cache = api
  /\ node = [n \in Nodes |-> NewNode]
  /\ pods = [n \in Nodes |-> TRUE] /\ late = [n \in Nodes |-> FALSE]
  /\ host = [n \in Nodes |-> [starts |-> 1, ksm |-> FALSE, dropin |-> FALSE, armed |-> FALSE, acted |-> 0]]
  /\ wk = Idle /\ ag = [n \in Nodes |-> AgIdle]
  /\ cordons = [t \in Tunings |-> [n \in Nodes |-> 0]]

Spec == Init /\ [][Next]_vars

\* A rollout that is active is requeued every rolloutRequeueInterval, ticks
\* come every observeInterval, an armed timer fires, deadlines pass.
FairSpec ==
  /\ Spec
  /\ \A t \in Tunings : SF_vars(WkGet(t))
  /\ WF_vars(WkStep)
  /\ \A n \in Nodes : WF_vars(AgStep(n)) /\ WF_vars(Fire(n)) /\ WF_vars(Expire(n))

-----------------------------------------------------------------------------
(* Properties.                                                             *)

\* Objects, nodes, hosts, the worker and the agents have their types.
TypeOK ==
  /\ api \in [Tunings -> Objects] /\ cache \in [Tunings -> Objects]
  /\ node \in [Nodes -> NodeState]
  /\ pods \in [Nodes -> BOOLEAN] /\ late \in [Nodes -> BOOLEAN]
  /\ host \in [Nodes -> HostState] /\ ag \in [Nodes -> AgentState]
  /\ wk \in [pc: {"idle", "node", "finalizer", "cordon", "unfin", "release"}, t: Tunings \cup {NoTuning}, obj: Objects,
             snap: [Nodes -> NodeState], lock: Nodes \cup {NoNode}, todo: SUBSET Nodes,
             work: SUBSET Nodes, owns: BOOLEAN, n: Nodes \cup {NoNode}]
  /\ cordons \in [Tunings -> [Nodes -> 0 .. MaxCordons]]
  /\ lim \in Limits /\ scope \subseteq Nodes
  /\ used.req \in Reqs /\ used.stray \in 0 .. lim.stray /\ used.crash \in 0 .. lim.crash
  /\ used.fault \in 0 .. lim.fault /\ used.lost \in 0 .. lim.lost /\ used.release \in 0 .. lim.release

\* Rule 3 of the rollout, "one node at a time": over all NodeTunings and
\* however passes interleave, at most one node is mid-rollout.
OneNodeAtATime == \A m, n \in Nodes : node[m].started /\ node[n].started => m = n



\* restartedForGeneration, "One restart per approval": between two edits or
\* hand releases, no object cordons a node a second time, as long as the
\* record of the first restart is written and seen.
OneRestartPerApproval ==
  ~lim.lag /\ used.crash = 0 /\ used.fault = 0 =>
    \A t \in Tunings, n \in Nodes : cordons[t][n] <= 1

\* The same with nothing taken for granted.
OneRestart == \A t \in Tunings, n \in Nodes : cordons[t][n] <= 1

\* Every rollout comes to an end: the node is given back, or it is halted
\* and says so.
RolloutEnds == \A n \in Nodes : node[n].started ~> (~node[n].started \/ node[n].failed)

\* ApprovalAnnotation, "approving one change never silently authorizes the
\* next": a generation whose restart is on record for a node was approved there.
RecordWasApproved ==
  \A t \in Tunings, n \in Nodes : api[t].rg[n] # 0 => api[t].rg[n] <= node[n].approved
=============================================================================
