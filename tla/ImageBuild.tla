------------------------------ MODULE ImageBuild ------------------------------
(***************************************************************************)
(* The build listener of frame-provisiond (internal/provision/server.go,   *)
(* base.go, iso.go): POST /build fetches the base image into a cache that  *)
(* all builds share, writes the seed, remasters the image; DELETE removes  *)
(* both.  Every request runs in its own goroutine, so the steps of one     *)
(* build interleave with those of every other.  A token names one build.   *)
(* Files survive a restart of the process; requests do not.                *)
(***************************************************************************)
EXTENDS Integers

CONSTANTS Tokens, NoToken,
          MaxRestarts    \* bound: restarts of provisiond

ASSUME BuildBounds == NoToken \notin Tokens /\ MaxRestarts \in Nat

VARIABLES base,      \* the cached base image file, and who truncated it last
          iso, seed, \* tokens with an image, with a seed directory
          build,     \* POST /build, per token
          del,       \* DELETE /iso/{name}, per token
          restarts,
          torn       \* history: builds whose base image another download truncated

vars == <<base, iso, seed, build, del, restarts, torn>>

NoFile == [st |-> "none", by |-> NoToken]

-----------------------------------------------------------------------------
(* POST /build: FetchBase, writeSeed, Remaster.                            *)

Building == {t \in Tokens : build[t] \in {"fetch", "get", "copy", "seed", "remaster"}}

UsingBase == {t \in Tokens : build[t] \in {"copy", "seed", "remaster"}}

BuildRest == UNCHANGED <<del, restarts>>
Moves(t, pc) == build' = [build EXCEPT ![t] = pc]

BuildStart(t) ==
  /\ build[t] = "idle"
  /\ Moves(t, "fetch")
  /\ UNCHANGED <<base, iso, seed, torn>> /\ BuildRest

\* Mutant: any file already there is taken for the base image.
FetchCheckAnyFile(t) ==
  /\ build[t] = "fetch"
  /\ Moves(t, IF base.st # "none" THEN "seed" ELSE "get")
  /\ UNCHANGED <<base, iso, seed, torn>> /\ BuildRest

\* The cache is hit only by a file with the right checksum.
FetchCheck(t) ==
  /\ build[t] = "fetch"
  /\ Moves(t, IF base.st = "good" THEN "seed" ELSE "get")
  /\ UNCHANGED <<base, iso, seed, torn>> /\ BuildRest

\* The GET answers and os.Create truncates, or the GET fails.
FetchCreate(t) ==
  /\ build[t] = "get"
  /\ \/ /\ Moves(t, "copy") /\ base' = [st |-> "part", by |-> t]
        /\ torn' = torn \cup UsingBase
     \/ Moves(t, "error") /\ UNCHANGED <<base, torn>>
  /\ UNCHANGED <<iso, seed>> /\ BuildRest

\* Mutant: a bad copy is left in place.
FetchCopyLeavesBad(t) ==
  /\ build[t] = "copy"
  /\ \/ Moves(t, "seed") /\ base' = IF base.by = t THEN [base EXCEPT !.st = "good"] ELSE base
     \/ Moves(t, "error") /\ UNCHANGED base
  /\ UNCHANGED <<iso, seed, torn>> /\ BuildRest

\* Mutant: a bad copy is emptied instead of unlinked.
FetchCopyTruncates(t) ==
  /\ build[t] = "copy"
  /\ \/ Moves(t, "seed") /\ base' = IF base.by = t THEN [base EXCEPT !.st = "good"] ELSE base
     \/ Moves(t, "error") /\ base' = [NoFile EXCEPT !.st = "part"]
  /\ UNCHANGED <<iso, seed, torn>> /\ BuildRest

\* The copy ends.  The checksum is of the bytes this build received; the
\* file holds them all only if nobody truncated or unlinked it meanwhile.  A
\* bad copy unlinks the path, whoever's file it is by then.
FetchCopy(t) ==
  /\ build[t] = "copy"
  /\ \/ Moves(t, "seed") /\ base' = IF base.by = t THEN [base EXCEPT !.st = "good"] ELSE base
     \/ Moves(t, "error") /\ base' = NoFile
  /\ UNCHANGED <<iso, seed, torn>> /\ BuildRest

\* writeSeed, or discardBuild when it fails.
WriteSeed(t) ==
  /\ build[t] = "seed"
  /\ \/ Moves(t, "remaster") /\ seed' = seed \cup {t}
     \/ Moves(t, "error") /\ seed' = seed \ {t}
  /\ UNCHANGED <<base, iso, torn>> /\ BuildRest

\* Mutant: a failed Remaster returns without discardBuild.
RemasterKeepsSeed(t) ==
  /\ build[t] = "remaster"
  /\ \/ Moves(t, "ok") /\ iso' = iso \cup {t}
     \/ Moves(t, "error") /\ UNCHANGED iso
  /\ UNCHANGED <<base, seed, torn>> /\ BuildRest

\* Remaster, or discardBuild when it fails.
Remaster(t) ==
  /\ build[t] = "remaster"
  /\ \/ Moves(t, "ok") /\ iso' = iso \cup {t} /\ UNCHANGED seed
     \/ Moves(t, "error") /\ iso' = iso \ {t} /\ seed' = seed \ {t}
  /\ UNCHANGED <<base, torn>> /\ BuildRest

-----------------------------------------------------------------------------
(* DELETE /iso/{name}: the image, then the seed; either may fail and the   *)
(* caller may try again.                                                   *)

DeleteImage(t) ==
  /\ build[t] = "ok" /\ del[t] = "no"
  /\ del' = [del EXCEPT ![t] = "seed"] /\ iso' = iso \ {t}
  /\ UNCHANGED <<base, seed, build, restarts, torn>>

DeleteSeed(t) ==
  /\ del[t] = "seed"
  /\ \/ del' = [del EXCEPT ![t] = "done"] /\ seed' = seed \ {t}
     \/ del' = [del EXCEPT ![t] = "no"] /\ UNCHANGED seed
  /\ UNCHANGED <<base, iso, build, restarts, torn>>

\* provisiond restarts: requests are gone, files stay.
Restart ==
  /\ restarts < MaxRestarts /\ restarts' = restarts + 1
  /\ build' = [t \in Tokens |-> IF t \in Building THEN "lost" ELSE build[t]]
  /\ del' = [t \in Tokens |-> IF del[t] = "seed" THEN "no" ELSE del[t]]
  /\ UNCHANGED <<base, iso, seed, torn>>

-----------------------------------------------------------------------------
Init ==
  /\ base = NoFile /\ iso = {} /\ seed = {}
  /\ build = [t \in Tokens |-> "idle"] /\ del = [t \in Tokens |-> "no"]
  /\ restarts = 0 /\ torn = {}

Next ==
  \/ \E t \in Tokens :
       \/ BuildStart(t) \/ FetchCheck(t) \/ FetchCreate(t) \/ FetchCopy(t) \/ WriteSeed(t) \/ Remaster(t)
       \/ DeleteImage(t) \/ DeleteSeed(t)
  \/ Restart

Spec == Init /\ [][Next]_vars

-----------------------------------------------------------------------------
(* Properties.                                                             *)

\* A file that is there was created by a build.
TypeOK ==
  /\ base \in [st: {"part", "good"}, by: Tokens] \cup {NoFile}
  /\ iso \subseteq Tokens /\ seed \subseteq Tokens
  /\ build \in [Tokens -> {"idle", "fetch", "get", "copy", "seed", "remaster", "ok", "error", "lost"}]
  /\ del \in [Tokens -> {"no", "seed", "done"}]
  /\ restarts \in 0 .. MaxRestarts /\ torn \subseteq Tokens

\* FetchBase "returns the path to a verified copy": from its return to the
\* end of the Remaster that reads it, the file has the checksum it had.  All
\* builds share one path written in place, so this is so only until a build
\* starts its download while another one is copying or reading the file.
BaseIsVerified == torn = {} => \A t \in Tokens : build[t] \in {"seed", "remaster"} => base.st = "good"

\* "A file that fails its checksum is removed rather than left in place": an
\* incomplete base image is one being copied right now, or one that a
\* restart cut off, however many downloads share the path.
NoPoisonedCache == base.st = "part" => build[base.by] \in {"copy", "lost"}

\* What is on disk has a caller that can delete it, or a build still at
\* work, or was cut off by a restart: a build that answered with an error
\* (and so no token) and a DELETE that answered 204 leave nothing behind,
\* and an image handed out keeps the seed it boots with until its DELETE.
FilesHaveOwner ==
  \A t \in Tokens :
    /\ build[t] = "error" \/ del[t] = "done" => t \notin iso \cup seed
    /\ build[t] = "ok" /\ t \in iso => t \in seed
=============================================================================
