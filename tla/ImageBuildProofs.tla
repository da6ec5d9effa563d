--------------------------- MODULE ImageBuildProofs ---------------------------
(***************************************************************************)
(* What ImageBuild promises for any number of builds at once, any tokens   *)
(* and any number of restarts.                                             *)
(***************************************************************************)
EXTENDS ImageBuild, TLAPS

\* The inductive strengthening of FilesHaveOwner: what one token has on disk
\* at each point of its build and of its DELETE.
FilesInv ==
  \A t \in Tokens :
    /\ build[t] \in {"idle", "fetch", "get", "copy", "seed", "error"} => t \notin iso /\ t \notin seed
    /\ build[t] = "remaster" => t \notin iso /\ t \in seed
    /\ build[t] = "ok" /\ t \in iso => t \in seed
    /\ del[t] # "no" => build[t] = "ok" /\ t \notin iso
    /\ del[t] = "done" => t \notin seed

-----------------------------------------------------------------------------
\* Types are kept by every step of a build, a DELETE or a restart.
LEMMA TypeStep == TypeOK /\ [Next]_vars => TypeOK'
<1> SUFFICES ASSUME TypeOK, [Next]_vars PROVE TypeOK'
  OBVIOUS
<1> USE BuildBounds DEF TypeOK, NoFile, Moves, BuildRest
<1>1. ASSUME NEW t \in Tokens, BuildStart(t) \/ FetchCheck(t) PROVE TypeOK'
  BY <1>1 DEF BuildStart, FetchCheck
<1>2. ASSUME NEW t \in Tokens, FetchCreate(t) PROVE TypeOK'
  BY <1>2 DEF FetchCreate, UsingBase
<1>3. ASSUME NEW t \in Tokens, FetchCopy(t) PROVE TypeOK'
  BY <1>3 DEF FetchCopy
<1>4. ASSUME NEW t \in Tokens, WriteSeed(t) \/ Remaster(t) PROVE TypeOK'
  BY <1>4 DEF WriteSeed, Remaster
<1>5. ASSUME NEW t \in Tokens, DeleteImage(t) \/ DeleteSeed(t) PROVE TypeOK'
  BY <1>5 DEF DeleteImage, DeleteSeed
<1>6. CASE Restart
  BY <1>6 DEF Restart
<1>7. CASE UNCHANGED vars
  BY <1>7 DEF vars
<1>8. QED
  BY <1>1, <1>2, <1>3, <1>4, <1>5, <1>6, <1>7 DEF Next

\* THEOREM: ImageBuild is type correct, for all tokens and bounds.
THEOREM BuildTypes == Spec => []TypeOK
<1>1. Init => TypeOK
  BY BuildBounds DEF Init, TypeOK, NoFile
<1>2. QED
  BY <1>1, TypeStep, PTL DEF Spec

-----------------------------------------------------------------------------
\* FilesInv is inductive: each step touches the files of its own token only.
LEMMA FilesStep == TypeOK /\ FilesInv /\ [Next]_vars => FilesInv'
<1> SUFFICES ASSUME TypeOK, FilesInv, [Next]_vars, NEW u \in Tokens
             PROVE (/\ build[u] \in {"idle", "fetch", "get", "copy", "seed", "error"} => u \notin iso /\ u \notin seed
                    /\ build[u] = "remaster" => u \notin iso /\ u \in seed
                    /\ build[u] = "ok" /\ u \in iso => u \in seed
                    /\ del[u] # "no" => build[u] = "ok" /\ u \notin iso
                    /\ del[u] = "done" => u \notin seed)'
  BY DEF FilesInv
<1> USE DEF TypeOK, FilesInv, Moves, BuildRest
<1>1. CASE \E t \in Tokens : BuildStart(t) \/ FetchCheck(t)
  BY <1>1 DEF BuildStart, FetchCheck
<1>2. CASE \E t \in Tokens : FetchCreate(t) \/ FetchCopy(t)
  BY <1>2 DEF FetchCreate, FetchCopy
<1>3. CASE \E t \in Tokens : WriteSeed(t)
  BY <1>3 DEF WriteSeed
<1>4. CASE \E t \in Tokens : Remaster(t)
  BY <1>4 DEF Remaster
<1>5. CASE \E t \in Tokens : DeleteImage(t) \/ DeleteSeed(t)
  BY <1>5 DEF DeleteImage, DeleteSeed
<1>6. CASE Restart
  BY <1>6 DEF Restart, Building
<1>7. CASE UNCHANGED vars
  BY <1>7 DEF vars
<1>8. QED
  BY <1>1, <1>2, <1>3, <1>4, <1>5, <1>6, <1>7 DEF Next

\* THEOREM: a build that answered with an error and a DELETE that answered 204
\* leave no file, and an image handed out keeps its seed, however many builds,
\* deletions and restarts interleave.
THEOREM FilesOwned == Spec => []FilesHaveOwner
<1>1. Init => FilesInv
  BY DEF Init, FilesInv
<1>2. FilesInv => FilesHaveOwner
  BY DEF FilesInv, FilesHaveOwner
<1>3. QED
  BY <1>1, <1>2, BuildTypes, FilesStep, PTL DEF Spec

-----------------------------------------------------------------------------
\* NoPoisonedCache is inductive: only the build that truncated the file last
\* can end its copy and leave it there, and then it is complete.
LEMMA CacheStep == TypeOK /\ NoPoisonedCache /\ [Next]_vars => NoPoisonedCache'
<1> SUFFICES ASSUME TypeOK, NoPoisonedCache, [Next]_vars PROVE NoPoisonedCache'
  OBVIOUS
<1> USE DEF TypeOK, NoPoisonedCache, NoFile, Moves
<1>1. CASE \E t \in Tokens : BuildStart(t) \/ FetchCheck(t)
  BY <1>1 DEF BuildStart, FetchCheck
<1>2. CASE \E t \in Tokens : FetchCreate(t)
  BY <1>2 DEF FetchCreate
<1>3. CASE \E t \in Tokens : FetchCopy(t)
  BY <1>3 DEF FetchCopy
<1>4. CASE \E t \in Tokens : WriteSeed(t) \/ Remaster(t)
  BY <1>4 DEF WriteSeed, Remaster
<1>5. CASE \E t \in Tokens : DeleteImage(t) \/ DeleteSeed(t)
  BY <1>5 DEF DeleteImage, DeleteSeed
<1>6. CASE Restart
  BY <1>6 DEF Restart, Building
<1>7. CASE UNCHANGED vars
  BY <1>7 DEF vars
<1>8. QED
  BY <1>1, <1>2, <1>3, <1>4, <1>5, <1>6, <1>7 DEF Next

\* THEOREM: FetchBase never leaves a bad download where a cache hit would be,
\* however many downloads share the path.
THEOREM CacheClean == Spec => []NoPoisonedCache
<1>1. Init => NoPoisonedCache
  BY DEF Init, NoPoisonedCache, NoFile
<1>2. QED
  BY <1>1, BuildTypes, CacheStep, PTL DEF Spec

-----------------------------------------------------------------------------
\* The inductive strengthening of BaseIsVerified: until a download starts on
\* top of another build, a build that copies is alone with the file.
BaseInv ==
  torn = {} =>
    /\ \A t \in Tokens : build[t] \in {"seed", "remaster"} => base.st = "good"
    /\ \A t \in Tokens : build[t] = "copy" => base.st = "part" /\ base.by = t

\* BaseInv is inductive: FetchCreate is the only step that spoils a complete
\* file, FetchCopy the only one that unlinks it, and both are then alone.
LEMMA BaseStep == TypeOK /\ BaseInv /\ [Next]_vars => BaseInv'
<1> SUFFICES ASSUME TypeOK, BaseInv, [Next]_vars, torn' = {}, NEW u \in Tokens
             PROVE (/\ build[u] \in {"seed", "remaster"} => base.st = "good"
                    /\ build[u] = "copy" => base.st = "part" /\ base.by = u)'
  BY DEF BaseInv
<1>0. torn = {}
  BY DEF Next, BuildStart, FetchCheck, FetchCreate, FetchCopy, WriteSeed, Remaster,
         DeleteImage, DeleteSeed, Restart, vars
<1> USE <1>0 DEF TypeOK, BaseInv, NoFile, Moves
<1>1. CASE \E t \in Tokens : BuildStart(t) \/ FetchCheck(t)
  BY <1>1 DEF BuildStart, FetchCheck
<1>2. CASE \E t \in Tokens : FetchCreate(t)
  BY <1>2 DEF FetchCreate, UsingBase
<1>3. CASE \E t \in Tokens : FetchCopy(t)
  BY <1>3 DEF FetchCopy
<1>4. CASE \E t \in Tokens : WriteSeed(t) \/ Remaster(t)
  BY <1>4 DEF WriteSeed, Remaster
<1>5. CASE \E t \in Tokens : DeleteImage(t) \/ DeleteSeed(t)
  BY <1>5 DEF DeleteImage, DeleteSeed
<1>6. CASE Restart
  BY <1>6 DEF Restart, Building
<1>7. CASE UNCHANGED vars
  BY <1>7 DEF vars
<1>8. QED
  BY <1>1, <1>2, <1>3, <1>4, <1>5, <1>6, <1>7 DEF Next

\* THEOREM: overlapping downloads are the only way a build can read a base
\* image that is not the one FetchBase verified; failures and restarts are not.
THEOREM BaseVerified == Spec => []BaseIsVerified
<1>1. Init => BaseInv
  BY DEF Init, BaseInv
<1>2. BaseInv => BaseIsVerified
  BY DEF BaseInv, BaseIsVerified
<1>3. QED
  BY <1>1, <1>2, BuildTypes, BaseStep, PTL DEF Spec
=============================================================================
