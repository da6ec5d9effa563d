--------------------------- MODULE InstallerBeacons ---------------------------
(***************************************************************************)
(* How the platform knows that an installer is alive: the machine sends    *)
(* beacons to provisiond's media listener (internal/provision/server.go,   *)
(* beacon.go), provisiond keeps them in memory (beaconstore.go), and the   *)
(* manager polls and words a condition (frameinstall_controller.go).       *)
(*                                                                         *)
(* A token names an installation whose image has been built.  The beacon   *)
(* handler checks the image file and then records, with other requests in  *)
(* between.  entries[t].fresh is now - LastSeen <= beaconLostAfter.        *)
(***************************************************************************)
EXTENDS Integers, Sequences, FiniteSets, SequencesExt

CONSTANTS Tokens,
          Capacity,      \* BeaconStore.capacity
          MaxRestarts,   \* bound: restarts of provisiond
          MaxDeletes     \* bound: installations that end and delete their image

ASSUME BeaconBounds == Capacity \in Nat \ {0} /\ MaxRestarts \in Nat /\ MaxDeletes \in Nat

VARIABLES iso,       \* tokens whose image file exists
          del,       \* DELETE /iso/{name}, per token
          entries,   \* BeaconStore.entries
          order,     \* BeaconStore.order
          recs,      \* beacons whose handler has passed os.Stat
          inst,      \* what runs on the machine
          ctl,       \* the manager: seenBeacon, the condition, and what it ever said
          spoke,     \* tokens with a beacon ever recorded
          dropped,   \* tokens whose entry was evicted, forgotten or lost in a restart
          restarts

vars == <<iso, del, entries, order, recs, inst, ctl, spoke, dropped, restarts>>

Checkpoints == {"early", "late", "failed"}
Rank == [early |-> 0, late |-> 1, failed |-> 2]
Reasons == {"none", "Unavailable", "NeverSeen", "InstallerFailed", "Rebooting", "HeartbeatLost", "Heartbeat"}

NoEntry == [cp |-> "none", fresh |-> FALSE]
Entries == [cp: Checkpoints \cup {"none"}, fresh: BOOLEAN]

store == <<entries, order>>

-----------------------------------------------------------------------------
(* The machine.  Its heartbeat loop resends "early" until the installer    *)
(* environment dies; any send may be lost.                                 *)

MachineRest == UNCHANGED <<iso, del, store, ctl, spoke, dropped, restarts>>

\* GET /beacon/{token}/{checkpoint} up to and including os.Stat.
Arrives(t, cp) == recs' = IF t \in iso THEN recs \cup {<<t, cp>>} ELSE recs
Lost == UNCHANGED recs

InstallerStep(t, from, to) ==
  /\ inst[t] \in from
  /\ inst' = [inst EXCEPT ![t] = to]
  /\ Arrives(t, to) \/ Lost
  /\ MachineRest

Early(t) == InstallerStep(t, {"off"}, "early")
Late(t) == InstallerStep(t, {"early"}, "late")
Failed(t) == InstallerStep(t, {"early"}, "failed")

Heartbeat(t) ==
  /\ inst[t] \in Checkpoints /\ Arrives(t, "early")
  /\ UNCHANGED inst /\ MachineRest

\* The installed system boots, or the environment dies: no more beacons.
Reboot(t) ==
  /\ inst[t] \in Checkpoints
  /\ inst' = [inst EXCEPT ![t] = "gone"]
  /\ UNCHANGED recs /\ MachineRest

-----------------------------------------------------------------------------
(* BeaconStore.                                                            *)

StoreRest == UNCHANGED <<iso, del, inst, ctl, restarts>>

\* Mutant: the latest checkpoint wins, not the furthest.
FurthestLatest(old, cp) == cp

\* The checkpoint Record keeps.
Furthest(old, cp) == IF old # "none" /\ Rank[old] > Rank[cp] THEN old ELSE cp

\* Mutant: eviction drops the key from order only.
EvictOrderOnly(es, victims) == es

Evict(es, victims) == [t \in Tokens |-> IF t \in victims THEN NoEntry ELSE es[t]]

\* Record: one critical section.  At capacity, the oldest insertion goes.
Record(t, cp) ==
  /\ <<t, cp>> \in recs /\ recs' = recs \ {<<t, cp>>}
  /\ LET new == entries[t].cp = "none"
         full == new /\ Len(order) >= Capacity
         victims == IF full THEN {order[1]} ELSE {}
         kept == Evict(entries, victims)
     IN /\ dropped' = dropped \cup victims
        /\ entries' = [kept EXCEPT ![t] = [cp |-> Furthest(entries[t].cp, cp), fresh |-> TRUE]]
        /\ order' = IF new THEN Append(IF full THEN Tail(order) ELSE order, t) ELSE order
  /\ spoke' = spoke \cup {t}
  /\ StoreRest

\* beaconLostAfter passes without a beacon.
Age(t) ==
  /\ entries[t].fresh
  /\ entries' = [entries EXCEPT ![t].fresh = FALSE]
  /\ UNCHANGED <<order, recs, spoke, dropped>> /\ StoreRest

-----------------------------------------------------------------------------
(* The manager: reportInstallerLiveness, and Remove at the end.            *)

\* installerRespondingCondition for a poll that was answered.
Condition(e, seen) ==
  CASE e.cp = "none" /\ seen -> "Unavailable"
    [] e.cp = "none" /\ ~seen -> "NeverSeen"
    [] e.cp = "failed" -> "InstallerFailed"
    [] e.cp = "late" /\ ~e.fresh -> "Rebooting"
    [] e.cp = "early" /\ ~e.fresh -> "HeartbeatLost"
    [] e.cp \in {"early", "late"} /\ e.fresh -> "Heartbeat"

\* The condition that is written, and what it makes public knowledge.
Says(t, reason) ==
  [ctl[t] EXCEPT !.cond = reason, !.heard = @ \/ reason \notin {"NeverSeen", "Unavailable"},
                 !.failed = @ \/ reason = "InstallerFailed"]

PollRest == UNCHANGED <<iso, del, store, recs, inst, spoke, dropped, restarts>>

\* Mutant: the poll does not remember that the installation was known.
PollForgets(t) ==
  /\ del[t] # "ended"
  /\ ctl' = [ctl EXCEPT ![t] = Says(t, Condition(entries[t], FALSE))]
  /\ PollRest

\* One poll during Installing, answered.
Poll(t) ==
  /\ del[t] # "ended"
  /\ LET seen == ctl[t].seen \/ entries[t].cp # "none"
     IN ctl' = [ctl EXCEPT ![t] = [Says(t, Condition(entries[t], seen)) EXCEPT !.seen = seen]]
  /\ PollRest

\* One poll that could not be asked.
PollFails(t) ==
  /\ del[t] # "ended"
  /\ ctl' = [ctl EXCEPT ![t] = Says(t, "Unavailable")]
  /\ PollRest

DelRest == UNCHANGED <<recs, inst, ctl, spoke, restarts>>

\* DELETE /iso/{name}: the image, then (after the seed) the beacons.
DeleteImage(t) ==
  /\ del[t] = "no" /\ Cardinality({u \in Tokens : del[u] # "no"}) < MaxDeletes
  /\ del' = [del EXCEPT ![t] = "forget"] /\ iso' = iso \ {t}
  /\ UNCHANGED <<store, dropped>> /\ DelRest

Forget(t) ==
  /\ del[t] = "forget" /\ del' = [del EXCEPT ![t] = "done"]
  /\ entries' = [entries EXCEPT ![t] = NoEntry]
  /\ order' = SelectSeq(order, LAMBDA u : u # t)
  /\ dropped' = dropped \cup {t}
  /\ UNCHANGED iso /\ DelRest

\* The result is recorded; nobody polls any more.
Ended(t) ==
  /\ del[t] = "done" /\ del' = [del EXCEPT ![t] = "ended"]
  /\ UNCHANGED <<iso, store, dropped>> /\ DelRest

\* provisiond restarts: requests and the store are gone, files stay.
Restart ==
  /\ restarts < MaxRestarts /\ restarts' = restarts + 1
  /\ del' = [t \in Tokens |-> IF del[t] = "forget" THEN "done" ELSE del[t]]
  /\ entries' = [t \in Tokens |-> NoEntry] /\ order' = <<>> /\ recs' = {}
  /\ dropped' = Tokens
  /\ UNCHANGED <<iso, inst, ctl, spoke>>

-----------------------------------------------------------------------------
Init ==
  /\ iso = Tokens /\ del = [t \in Tokens |-> "no"]
  /\ entries = [t \in Tokens |-> NoEntry] /\ order = <<>> /\ recs = {}
  /\ inst = [t \in Tokens |-> "off"]
  /\ ctl = [t \in Tokens |-> [seen |-> FALSE, cond |-> "none", heard |-> FALSE, failed |-> FALSE]]
  /\ spoke = {} /\ dropped = {} /\ restarts = 0

Next ==
  \/ \E t \in Tokens :
       \/ Early(t) \/ Late(t) \/ Failed(t) \/ Heartbeat(t) \/ Reboot(t) \/ Age(t)
       \/ Poll(t) \/ PollFails(t) \/ DeleteImage(t) \/ Forget(t) \/ Ended(t)
  \/ \E t \in Tokens, cp \in Checkpoints : Record(t, cp)
  \/ Restart

Spec == Init /\ [][Next]_vars

-----------------------------------------------------------------------------
(* Properties.                                                             *)

\* Types, and BeaconStore's own representation: order lists exactly the keys
\* of entries, once each, and never more of them than the capacity.
TypeOK ==
  /\ iso \subseteq Tokens /\ del \in [Tokens -> {"no", "forget", "done", "ended"}]
  /\ entries \in [Tokens -> Entries]
  /\ ToSet(order) = {t \in Tokens : entries[t].cp # "none"}
  /\ IsInjective(order) /\ Len(order) <= Capacity
  /\ recs \subseteq Tokens \X Checkpoints
  /\ inst \in [Tokens -> Checkpoints \cup {"off", "gone"}]
  /\ ctl \in [Tokens -> [seen: BOOLEAN, cond: Reasons, heard: BOOLEAN, failed: BOOLEAN]]
  /\ spoke \subseteq Tokens /\ dropped \subseteq Tokens /\ restarts \in 0 .. MaxRestarts

\* Once the installer was reported failed, the heartbeat it keeps sending
\* never makes it read as a running one again, as long as provisiond keeps
\* its entry.
FailureSticks ==
  \A t \in Tokens \ dropped : ctl[t].failed => ctl[t].cond \in {"InstallerFailed", "Unavailable"}

\* An installation that was ever reported as heard from is never reported
\* NeverSeen afterwards, whatever happens to provisiond's memory.
HeardIsRemembered == \A t \in Tokens : ctl[t].heard => ctl[t].cond # "NeverSeen"

\* "Beacon state is dropped with the image it belongs to": no entry outlives
\* the DELETE of its image.
BeaconsEndWithImage == \A t \in Tokens : del[t] \in {"done", "ended"} => entries[t].cp = "none"

\* NeverSeen is said only of an installation provisiond has heard nothing
\* from: what cannot be told apart is Unknown.
SilentIsSilent ==
  [][\A t \in Tokens : ctl'[t] # ctl[t] /\ ctl'[t].cond = "NeverSeen" => t \notin spoke]_vars
=============================================================================
