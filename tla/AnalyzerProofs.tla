--------------------------- MODULE AnalyzerProofs ---------------------------
(***************************************************************************)
(* Proofs about Analyzer, for any jobs, repositories and commits, any      *)
(* number of attempts and any life of a cache entry.                       *)
(***************************************************************************)
EXTENDS Analyzer, FiniteSetTheorems, TLAPS

Stages == {"lookup", "mkdir", "clone", "evaluate", "build", "store", "return", "done"}
AnyJob == [url : Repos, repo : Repos \cup {NoRepo}, sha : Commits \cup ShortSHAs,
           source : {"github", "manual"}, pr : BOOLEAN]
PostStates == {"none", "skipped", "posting", "delivered", "lost"}

TypeInv ==
    /\ Job \in [Jobs -> AnyJob]
    /\ pc \in [Jobs -> Stages]
    /\ clone \in [Jobs -> Commits \cup {None}]
    /\ attempt \in [Jobs -> Nat]
    /\ DOMAIN result = Jobs /\ result = [j \in Jobs |-> result[j]]
    /\ now \in Nat
    /\ tip \in [Repos -> Commits]
    /\ post \in [Jobs -> [PostKinds -> PostStates]]
    /\ stored \in [Jobs -> Nat] /\ served \in [Jobs -> Nat]
    /\ phase \in {"up", "cancelled", "exited", "panicked"}

LEMMA TypeInit == Init => TypeInv
  BY JobAssumption DEF Init, TypeInv, Stages, AnyJob, PostStates

LEMMA TypeNext == TypeInv /\ [Next]_vars => TypeInv'
<1> SUFFICES ASSUME TypeInv, [Next]_vars PROVE TypeInv'
  OBVIOUS
<1> USE DEF TypeInv, Stages, PostStates, Goto, Serve, Fail, runVars, PostKinds
<1>1. ASSUME NEW j \in Jobs, LookupHit(j) \/ LookupMiss(j), UNCHANGED Job PROVE TypeInv'
  <2>1. CASE LookupHit(j)
    <3>1. PICK v : result' = [result EXCEPT ![j] = v]
      BY <2>1, Zenon DEF LookupHit
    <3>2. DOMAIN result' = Jobs /\ result' = [i \in Jobs |-> result'[i]]
      BY <3>1
    <3>3. pc' \in [Jobs -> Stages] /\ served' \in [Jobs -> Nat]
      BY <2>1 DEF LookupHit
    <3> QED BY <1>1, <2>1, <3>2, <3>3 DEF LookupHit
  <2>2. CASE LookupMiss(j)
    BY <1>1, <2>2 DEF LookupMiss
  <2> QED BY <1>1, <2>1, <2>2
<1>2. ASSUME NEW j \in Jobs, MkdirTemp(j) \/ CloneFails(j), UNCHANGED Job PROVE TypeInv'
  <2>1. CASE MkdirTemp(j)
    BY <1>2, <2>1 DEF MkdirTemp
  <2>2. CASE CloneFails(j)
    BY <1>2, <2>2 DEF CloneFails
  <2> QED BY <1>2, <2>1, <2>2
<1>3. ASSUME NEW j \in Jobs, CloneRepo(j), UNCHANGED Job PROVE TypeInv'
  BY <1>3 DEF CloneRepo, AnyJob
<1>4. ASSUME NEW j \in Jobs, EvaluateAnswered(j) \/ EvaluateRetry(j) \/ EvaluateGivesUp(j), UNCHANGED Job
      PROVE TypeInv'
  <2>1. CASE EvaluateAnswered(j)
    BY <1>4, <2>1 DEF EvaluateAnswered
  <2>2. CASE EvaluateRetry(j)
    BY <1>4, <2>2 DEF EvaluateRetry
  <2>3. CASE EvaluateGivesUp(j)
    BY <1>4, <2>3 DEF EvaluateGivesUp
  <2> QED BY <1>4, <2>1, <2>2, <2>3
<1>5. ASSUME NEW j \in Jobs, Build(j) \/ Store(j), UNCHANGED Job PROVE TypeInv'
  BY <1>5 DEF Build, Store
<1>6. ASSUME NEW j \in Jobs, Return(j), UNCHANGED Job PROVE TypeInv'
  BY <1>6 DEF Return, Posted, Started
<1>7. ASSUME NEW j \in Jobs, NEW k \in PostKinds, PostDelivered(j, k) \/ PostLost(j, k), UNCHANGED Job
      PROVE TypeInv'
  <2>1. CASE PostDelivered(j, k)
    BY <1>7, <2>1 DEF PostDelivered, Posts
  <2>2. CASE PostLost(j, k)
    BY <1>7, <2>2 DEF PostLost
  <2> QED BY <1>7, <2>1, <2>2
<1>8. ASSUME NEW r \in Repos, Push(r), UNCHANGED Job PROVE TypeInv'
  BY <1>8 DEF Push
<1>9. ASSUME Evict \/ Tick \/ Cancel \/ Exit, UNCHANGED Job PROVE TypeInv'
  BY <1>9 DEF Evict, Tick, Cancel, Exit
<1>10. CASE UNCHANGED vars
  BY <1>10 DEF vars
<1> QED
  BY <1>1, <1>2, <1>3, <1>4, <1>5, <1>6, <1>7, <1>8, <1>9, <1>10 DEF Next, Step, RunStep
-----------------------------------------------------------------------------
(***************************************************************************)
(* The directories: with the type of pc, DirsCleanedUp is inductive.       *)
(***************************************************************************)
LEMMA DirsNext == TypeInv /\ DirsCleanedUp /\ [Next]_vars => DirsCleanedUp'
<1> SUFFICES ASSUME TypeInv, DirsCleanedUp, [Next]_vars PROVE DirsCleanedUp'
  OBVIOUS
<1>0. pc \in [Jobs -> Stages]
  BY DEF TypeInv
<1> USE <1>0 DEF DirsCleanedUp, Stages, Goto, Fail, runVars
<1>1. ASSUME NEW j \in Jobs, LookupHit(j) \/ LookupMiss(j) \/ MkdirTemp(j) PROVE DirsCleanedUp'
  BY <1>1 DEF LookupHit, LookupMiss, MkdirTemp
<1>2. ASSUME NEW j \in Jobs, CloneRepo(j) \/ CloneFails(j) PROVE DirsCleanedUp'
  BY <1>2 DEF CloneRepo, CloneFails
<1>3. ASSUME NEW j \in Jobs, EvaluateAnswered(j) \/ EvaluateRetry(j) \/ EvaluateGivesUp(j) PROVE DirsCleanedUp'
  BY <1>3 DEF EvaluateAnswered, EvaluateRetry, EvaluateGivesUp
<1>4. ASSUME NEW j \in Jobs, Build(j) \/ Store(j) \/ Return(j) PROVE DirsCleanedUp'
  BY <1>4 DEF Build, Store, Return
<1>5. ASSUME NEW j \in Jobs, NEW k \in PostKinds, PostDelivered(j, k) \/ PostLost(j, k) PROVE DirsCleanedUp'
  BY <1>5 DEF PostDelivered, PostLost, Posts
<1>6. ASSUME NEW r \in Repos, Push(r) PROVE DirsCleanedUp'
  BY <1>6 DEF Push
<1>7. ASSUME Evict \/ Tick \/ Cancel \/ Exit PROVE DirsCleanedUp'
  BY <1>7 DEF Evict, Tick, Cancel, Exit
<1>8. CASE UNCHANGED vars
  BY <1>8 DEF vars
<1> QED
  BY <1>1, <1>2, <1>3, <1>4, <1>5, <1>6, <1>7, <1>8 DEF Next, Step, RunStep

(* No path of a run, of its errors or of a cancelled context leaves a       *)
(* directory behind or takes one away that is in use.                       *)
THEOREM DirsAreCleanedUp == Spec => []DirsCleanedUp
<1>1. Init => DirsCleanedUp
  BY DEF Init, DirsCleanedUp
<1> QED BY <1>1, TypeInit, TypeNext, DirsNext, PTL DEF Spec

-----------------------------------------------------------------------------
(***************************************************************************)
(* The comment.  It is begun by a delivered check run, which GitHub gives  *)
(* only to a commit; the SHA of a commit is not short.  The posts begin    *)
(* when their run is done, and then with the check run.                    *)
(***************************************************************************)
PostOrder ==
    \A j \in Jobs :
        /\ post[j]["check"] \in {"none", "posting", "delivered", "lost"}
        /\ post[j]["comment"] \in {"none", "posting", "delivered", "lost"}
        /\ pc[j] # "done" => \A k \in PostKinds : post[j][k] = "none"

CommentInv == TypeInv /\ PostOrder /\ CommentIsSafe

LEMMA CommentNextStep == CommentInv /\ [Next]_vars => CommentInv'
<1> SUFFICES ASSUME CommentInv, [Next]_vars PROVE PostOrder' /\ CommentIsSafe'
  BY TypeNext DEF CommentInv
<1>0. TypeInv /\ PostOrder /\ CommentIsSafe
  BY DEF CommentInv
<1> DEFINE Goal == PostOrder' /\ CommentIsSafe'
<1>1. ASSUME NEW j \in Jobs, pc[j] # "done", UNCHANGED <<post, phase>>,
             \A i \in Jobs : i # j => pc'[i] = pc[i] PROVE Goal
  BY <1>0, <1>1 DEF PostOrder, CommentIsSafe
<1>2. ASSUME NEW j \in Jobs, LookupHit(j) \/ LookupMiss(j) \/ MkdirTemp(j) PROVE Goal
  BY <1>0, <1>1, <1>2 DEF TypeInv, LookupHit, LookupMiss, MkdirTemp, Goto, Fail
<1>3. ASSUME NEW j \in Jobs, CloneRepo(j) \/ CloneFails(j) PROVE Goal
  BY <1>0, <1>1, <1>3 DEF TypeInv, CloneRepo, CloneFails, Goto, Fail
<1>4. ASSUME NEW j \in Jobs, EvaluateAnswered(j) \/ EvaluateRetry(j) \/ EvaluateGivesUp(j) PROVE Goal
  BY <1>0, <1>1, <1>4 DEF TypeInv, EvaluateAnswered, EvaluateRetry, EvaluateGivesUp, Goto
<1>5. ASSUME NEW j \in Jobs, Build(j) \/ Store(j) PROVE Goal
  BY <1>0, <1>1, <1>5 DEF TypeInv, Build, Store, Goto
<1>6. ASSUME NEW j \in Jobs, Return(j) PROVE Goal
  BY <1>0, <1>6 DEF TypeInv, Return, Goto, Posted, Started, PostKinds, PostOrder, CommentIsSafe
<1>7. ASSUME NEW j \in Jobs, NEW k \in PostKinds, PostDelivered(j, k) PROVE Goal
  <2>1. pc[j] = "done"
    BY <1>0, <1>7 DEF PostDelivered, PostOrder, PostKinds
  <2>2. k = "check" => ~CommentPanics(Job[j].sha \in ShortSHAs)
    BY <1>7, ParamAssumption DEF PostDelivered, CommentPanics
  <2> QED
    BY <1>0, <1>7, <2>1, <2>2
    DEF TypeInv, PostDelivered, Posts, CommentNext, PostKinds, PostOrder, CommentIsSafe, runVars
<1>8. ASSUME NEW j \in Jobs, NEW k \in PostKinds, PostLost(j, k) PROVE Goal
  <2>1. pc[j] = "done"
    BY <1>0, <1>8 DEF PostLost, PostOrder, PostKinds
  <2>2. k = "check" => post[j]["comment"] = "none"
    BY <1>0, <1>8 DEF PostLost, CommentIsSafe
  <2> QED
    BY <1>0, <1>8, <2>1, <2>2 DEF TypeInv, PostLost, PostKinds, PostOrder, CommentIsSafe, runVars
<1>9. ASSUME NEW r \in Repos, Push(r) PROVE Goal
  BY <1>0, <1>9 DEF Push, PostOrder, CommentIsSafe, runVars
<1>10. ASSUME Evict \/ Tick \/ Cancel \/ Exit PROVE Goal
  BY <1>0, <1>10 DEF Evict, Tick, Cancel, Exit, PostOrder, CommentIsSafe, runVars
<1>11. CASE UNCHANGED vars
  BY <1>0, <1>11 DEF vars, PostOrder, CommentIsSafe, runVars
<1> QED
  BY <1>2, <1>3, <1>4, <1>5, <1>6, <1>7, <1>8, <1>9, <1>10, <1>11 DEF Next, Step, RunStep

LEMMA CommentInvariant == Spec => []CommentInv
<1>1. Init => CommentInv
  BY TypeInit DEF Init, CommentInv, PostOrder, CommentIsSafe, PostKinds
<1> QED BY <1>1, CommentNextStep, PTL DEF Spec

(* Given that GitHub has no check run for what is not a commit, no job can  *)
(* make the comment's slice panic.                                          *)
THEOREM CommentNeverPanics == Spec => []CommentIsSafe
  BY CommentInvariant, PTL DEF CommentInv
-----------------------------------------------------------------------------
(***************************************************************************)
(* What a run finds in the files of a commit, and how often.               *)
(***************************************************************************)
FlawsIn(c) ==
    Times(Flaws[c].secrets, "entropy", "high") \o Times(Flaws[c].unpinned, "deps", "medium")

LEMMA FlawsShape ==
    ASSUME NEW c \in Commits
    PROVE  /\ Flaws[c].secrets \in Nat /\ Flaws[c].unpinned \in Nat
           /\ FlawsIn(c) \in Seq([by : {"entropy", "deps"}, severity : {"high", "medium"}])
           /\ Len(FlawsIn(c)) = Flaws[c].secrets + Flaws[c].unpinned
           /\ DOMAIN FlawsIn(c) = 1 .. (Flaws[c].secrets + Flaws[c].unpinned)
           /\ \A i \in DOMAIN FlawsIn(c) :
                 FlawsIn(c)[i].severity = IF i <= Flaws[c].secrets THEN "high" ELSE "medium"
<1> DEFINE s == Flaws[c].secrets
           u == Flaws[c].unpinned
           Finding == [by : {"entropy", "deps"}, severity : {"high", "medium"}]
           f == Times(s, "entropy", "high")
           g == Times(u, "deps", "medium")
<1>1. s \in Nat /\ u \in Nat
  BY FlawsAssumption
<1> HIDE DEF s, u
<1>2. /\ f \in Seq(Finding) /\ Len(f) = s /\ \A i \in 1 .. s : f[i] = [by |-> "entropy", severity |-> "high"]
      /\ g \in Seq(Finding) /\ Len(g) = u /\ \A i \in 1 .. u : g[i] = [by |-> "deps", severity |-> "medium"]
  BY <1>1 DEF Times
<1> HIDE DEF f, g, Finding
<1>3. /\ f \o g \in Seq(Finding) /\ Len(f \o g) = s + u /\ DOMAIN (f \o g) = 1 .. s + u
      /\ \A i \in 1 .. s + u : (f \o g)[i] = IF i <= s THEN f[i] ELSE g[i - s]
  BY <1>1, <1>2
<1>4. \A i \in 1 .. s + u : (f \o g)[i].severity = IF i <= s THEN "high" ELSE "medium"
  BY <1>1, <1>2, <1>3
<1>5. FlawsIn(c) = f \o g
  BY DEF FlawsIn, f, g, s, u
<1> QED BY <1>1, <1>3, <1>4, <1>5 DEF s, u, Finding

LEMMA FlawsCounted ==
    ASSUME NEW c \in Commits
    PROVE  /\ Count(FlawsIn(c), "high") = Flaws[c].secrets
           /\ Count(FlawsIn(c), "medium") = Flaws[c].unpinned
           /\ \A s \in Severities \ {"high", "medium"} : Count(FlawsIn(c), s) = 0
<1> DEFINE fs == FlawsIn(c)
           n == Flaws[c].secrets
           m == Flaws[c].unpinned
<1>1. /\ n \in Nat /\ m \in Nat /\ DOMAIN fs = 1 .. (n + m)
      /\ \A i \in DOMAIN fs : fs[i].severity = IF i <= n THEN "high" ELSE "medium"
  BY FlawsShape
<1> HIDE DEF fs, n, m
<1>2. {i \in DOMAIN fs : fs[i].severity = "high"} = 1 .. n
  BY <1>1
<1>3. {i \in DOMAIN fs : fs[i].severity = "medium"} = (n + 1) .. (n + m)
  BY <1>1
<1>4. Cardinality(1 .. n) = n
  BY <1>1, FS_Interval
<1>5. Cardinality((n + 1) .. (n + m)) = m
  <2> DEFINE a == n + 1
             b == n + m
  <2>1. a \in Int /\ b \in Int
    BY <1>1
  <2> HIDE DEF a, b
  <2>2. Cardinality(a .. b) = IF a > b THEN 0 ELSE b - a + 1
    BY <2>1, FS_Interval
  <2> QED BY <1>1, <2>2 DEF a, b
<1>6. ASSUME NEW s \in Severities \ {"high", "medium"} PROVE Count(fs, s) = 0
  <2>1. {i \in DOMAIN fs : fs[i].severity = s} = {}
    BY <1>1, <1>6
  <2> QED BY <2>1, FS_EmptySet DEF Count
<1>7. Count(fs, "high") = n /\ Count(fs, "medium") = m
  BY <1>2, <1>3, <1>4, <1>5 DEF Count
<1> QED BY <1>6, <1>7 DEF fs, n, m
-----------------------------------------------------------------------------
(***************************************************************************)
(* Whose results are in the cache.  An entry is the whole outcome of a run *)
(* for that key, which has put it there and reads its clock no more; such  *)
(* a run (a Maker) stays one, its result and the time it was stored are    *)
(* not touched again, and so what was said of an entry stays true after it *)
(* expired, was evicted or was overwritten, and of a result that was taken *)
(* from it.                                                                *)
(***************************************************************************)
Outcome(j, m, c, t) ==
    [job |-> j, repo |-> m.repo, sha |-> m.sha, tree |-> c, findings |-> FlawsIn(c), completedAt |-> t]

(* Run i has stored a result that it completed at t. *)
Maker(i, t) ==
    /\ clone[i] \in Commits /\ pc[i] \in {"return", "done"}
    /\ result[i] = Outcome(i, Job[i], clone[i], t)
    /\ t <= stored[i] /\ stored[i] <= now

CloneStage(j) ==
    /\ pc[j] \in {"lookup", "mkdir", "clone"} => clone[j] = None
    /\ pc[j] \in {"evaluate", "build", "store", "return"} => clone[j] \in Commits
    /\ \A k \in PostKinds : post[j][k] # "none" => clone[j] \in Commits

EntryOf(k, i, t) ==
    /\ Maker(i, t) /\ k = CacheKey(i)
    /\ cache[k] = [value |-> Outcome(i, Job[i], clone[i], t), expiresAt |-> stored[i] + TTL]

CacheOK == \A k \in DOMAIN cache : \E i \in Jobs, t \in Nat : EntryOf(k, i, t)

FromRun(j, i, t) ==
    /\ i # j /\ Maker(i, t) /\ CacheKey(i) = CacheKey(j)
    /\ result[j] = Outcome(j, Job[j], clone[i], t)
    /\ stored[i] <= served[j] /\ served[j] <= stored[i] + TTL

ResultOK(j) ==
    /\ pc[j] = "store" =>
          \E t \in Nat : result[j] = Outcome(j, Job[j], clone[j], t) /\ t <= now
    /\ pc[j] = "return" => \E t \in Nat : Maker(j, t)
    /\ pc[j] = "done" =>
          \/ clone[j] = None /\ result[j] = EmptyResult(j)
          \/ clone[j] = None /\ \E i \in Jobs, t \in Nat : FromRun(j, i, t)
          \/ \E t \in Nat : Maker(j, t)

ResultInv == CommentInv /\ (\A j \in Jobs : CloneStage(j) /\ ResultOK(j)) /\ CacheOK

(* A run that made an entry stays what it is, and the clock moves on. *)
LEMMA MakerStays ==
    ASSUME CommentInv, [Next]_vars
    PROVE  /\ now <= now'
           /\ \A i \in Jobs, t \in Nat : Maker(i, t) =>
                  Maker(i, t)' /\ clone'[i] = clone[i] /\ stored'[i] = stored[i]
<1>0. TypeInv
  BY DEF CommentInv
<1>a. UNCHANGED Job
  BY DEF Next, vars
<1> DEFINE Kept(i) == /\ clone'[i] = clone[i] /\ result'[i] = result[i] /\ stored'[i] = stored[i]
                      /\ pc'[i] \in {"return", "done"}
           Goal == now <= now' /\ \A i \in Jobs : pc[i] \in {"return", "done"} => Kept(i)
<1>b. SUFFICES Goal
  <2>1. now \in Nat /\ now' \in Nat /\ stored \in [Jobs -> Nat]
    BY <1>0, TypeNext DEF TypeInv
  <2> QED BY <1>a, <2>1 DEF Maker
<1> USE <1>0 DEF TypeInv, Goto, Fail, Serve, runVars
<1>1. ASSUME NEW j \in Jobs, LookupHit(j) \/ LookupMiss(j) \/ MkdirTemp(j) PROVE Goal
  BY <1>1 DEF LookupHit, LookupMiss, MkdirTemp
<1>2. ASSUME NEW j \in Jobs, CloneRepo(j) \/ CloneFails(j) PROVE Goal
  BY <1>2 DEF CloneRepo, CloneFails
<1>3. ASSUME NEW j \in Jobs, EvaluateAnswered(j) \/ EvaluateRetry(j) \/ EvaluateGivesUp(j) PROVE Goal
  BY <1>3 DEF EvaluateAnswered, EvaluateRetry, EvaluateGivesUp
<1>4. ASSUME NEW j \in Jobs, Build(j) \/ Store(j) PROVE Goal
  BY <1>4 DEF Build, Store
<1>5. ASSUME NEW j \in Jobs, Return(j) PROVE Goal
  BY <1>5 DEF Return
<1>6. ASSUME NEW j \in Jobs, NEW k \in PostKinds, PostDelivered(j, k) PROVE Goal
  BY <1>6 DEF PostDelivered, Posts
<1>7. ASSUME NEW j \in Jobs, NEW k \in PostKinds, PostLost(j, k) PROVE Goal
  BY <1>7 DEF PostLost
<1>8. ASSUME NEW r \in Repos, Push(r) PROVE Goal
  BY <1>8 DEF Push
<1>9. ASSUME Evict \/ Tick \/ Cancel \/ Exit PROVE Goal
  BY <1>9 DEF Evict, Tick, Cancel, Exit
<1>10. CASE UNCHANGED vars
  BY <1>10 DEF vars
<1> QED
  BY <1>1, <1>2, <1>3, <1>4, <1>5, <1>6, <1>7, <1>8, <1>9, <1>10 DEF Next, Step, RunStep

(* So does a result that was made or returned, and the cache if it is not   *)
(* touched.                                                                 *)
LEMMA ResultStays ==
    ASSUME CommentInv, [Next]_vars, now <= now', NEW j \in Jobs, ResultOK(j),
           pc'[j] = pc[j], clone'[j] = clone[j], result'[j] = result[j], served'[j] = served[j]
    PROVE  ResultOK(j)'
<1>0. TypeInv /\ TypeInv'
  BY TypeNext DEF CommentInv
<1>1. \A i \in Jobs, t \in Nat : Maker(i, t) =>
          Maker(i, t)' /\ clone'[i] = clone[i] /\ stored'[i] = stored[i]
  BY MakerStays
<1>2. UNCHANGED Job
  BY DEF Next, vars
<1>3. ASSUME NEW i \in Jobs, NEW t \in Nat, FromRun(j, i, t) PROVE FromRun(j, i, t)'
  BY <1>1, <1>2, <1>3 DEF FromRun, CacheKey
<1>4. now \in Nat /\ now' \in Nat
  BY <1>0 DEF TypeInv
<1>5. CASE pc[j] = "store"
  BY <1>2, <1>4, <1>5 DEF ResultOK
<1>6. CASE pc[j] = "return"
  BY <1>1, <1>6 DEF ResultOK
<1>7. CASE pc[j] = "done"
  <2>1. CASE clone[j] = None /\ result[j] = EmptyResult(j)
    BY <1>7, <2>1 DEF ResultOK, EmptyResult
  <2>2. CASE clone[j] = None /\ \E i \in Jobs, t \in Nat : FromRun(j, i, t)
    BY <1>3, <1>7, <2>2 DEF ResultOK
  <2>3. CASE \E t \in Nat : Maker(j, t)
    BY <1>1, <1>7, <2>3 DEF ResultOK
  <2> QED BY <1>7, <2>1, <2>2, <2>3 DEF ResultOK
<1> QED BY <1>5, <1>6, <1>7 DEF ResultOK

LEMMA EntriesStay ==
    ASSUME CommentInv, [Next]_vars, CacheOK,
           DOMAIN cache' \subseteq DOMAIN cache, \A k \in DOMAIN cache' : cache'[k] = cache[k]
    PROVE  CacheOK'
<1>1. \A i \in Jobs, t \in Nat : Maker(i, t) =>
          Maker(i, t)' /\ clone'[i] = clone[i] /\ stored'[i] = stored[i]
  BY MakerStays
<1>2. UNCHANGED Job
  BY DEF Next, vars
<1> SUFFICES ASSUME NEW k \in DOMAIN cache' PROVE \E i \in Jobs, t \in Nat : EntryOf(k, i, t)'
  BY DEF CacheOK
<1>3. PICK i \in Jobs, t \in Nat : EntryOf(k, i, t)
  BY DEF CacheOK
<1> QED BY <1>1, <1>2, <1>3 DEF EntryOf, CacheKey

(* The commit a run has cloned, where it is. *)
LEMMA StageNext ==
    ASSUME CommentInv, \A j \in Jobs : CloneStage(j), [Next]_vars
    PROVE  \A j \in Jobs : CloneStage(j)'
<1>0. TypeInv /\ PostOrder
  BY DEF CommentInv
<1> DEFINE Goal == \A j \in Jobs : CloneStage(j)'
<1> USE <1>0 DEF TypeInv, Stages, CloneStage, Goto, Fail, runVars
<1>1. ASSUME NEW j \in Jobs, LookupHit(j) \/ LookupMiss(j) \/ MkdirTemp(j) PROVE Goal
  BY <1>1 DEF LookupHit, LookupMiss, MkdirTemp
<1>2. ASSUME NEW j \in Jobs, CloneRepo(j) PROVE Goal
  BY <1>2 DEF CloneRepo, AnyJob
<1>3. ASSUME NEW j \in Jobs, CloneFails(j) PROVE Goal
  BY <1>3 DEF CloneFails
<1>4. ASSUME NEW j \in Jobs, EvaluateAnswered(j) \/ EvaluateRetry(j) \/ EvaluateGivesUp(j) PROVE Goal
  BY <1>4 DEF EvaluateAnswered, EvaluateRetry, EvaluateGivesUp
<1>5. ASSUME NEW j \in Jobs, Build(j) \/ Store(j) PROVE Goal
  BY <1>5 DEF Build, Store
<1>6. ASSUME NEW j \in Jobs, Return(j) PROVE Goal
  BY <1>6 DEF Return, Posted, Started, PostKinds
<1>7. ASSUME NEW j \in Jobs, NEW k \in PostKinds, PostDelivered(j, k) PROVE Goal
  BY <1>7 DEF PostDelivered, Posts, PostKinds
<1>8. ASSUME NEW j \in Jobs, NEW k \in PostKinds, PostLost(j, k) PROVE Goal
  BY <1>8 DEF PostLost, PostKinds
<1>9. ASSUME NEW r \in Repos, Push(r) PROVE Goal
  BY <1>9 DEF Push
<1>10. ASSUME Evict \/ Tick \/ Cancel \/ Exit PROVE Goal
  BY <1>10 DEF Evict, Tick, Cancel, Exit
<1>11. CASE UNCHANGED vars
  BY <1>11 DEF vars
<1> QED
  BY <1>1, <1>2, <1>3, <1>4, <1>5, <1>6, <1>7, <1>8, <1>9, <1>10, <1>11 DEF Next, Step, RunStep

LEMMA ResultNext == ResultInv /\ [Next]_vars => ResultInv'
<1> SUFFICES ASSUME ResultInv, [Next]_vars PROVE (\A j \in Jobs : ResultOK(j)') /\ CacheOK'
  BY CommentNextStep, StageNext DEF ResultInv
<1>0. CommentInv /\ TypeInv /\ (\A j \in Jobs : CloneStage(j) /\ ResultOK(j)) /\ CacheOK
  BY DEF ResultInv, CommentInv
<1>a. UNCHANGED Job
  BY DEF Next, vars
<1> DEFINE Goal == (\A j \in Jobs : ResultOK(j)') /\ CacheOK'
           Same(i) == /\ pc'[i] = pc[i] /\ clone'[i] = clone[i]
                      /\ result'[i] = result[i] /\ served'[i] = served[i]
<1>e. now <= now'
  BY <1>0, MakerStays
<1>b. ASSUME NEW j \in Jobs, ResultOK(j)', \A i \in Jobs \ {j} : Same(i) PROVE \A i \in Jobs : ResultOK(i)'
  BY <1>0, <1>e, <1>b, ResultStays
<1>c. ASSUME \A i \in Jobs : Same(i) PROVE \A i \in Jobs : ResultOK(i)'
  BY <1>0, <1>e, <1>c, ResultStays
<1>d. cache' = cache => CacheOK'
  BY <1>0, EntriesStay
<1>1. ASSUME NEW j \in Jobs, LookupHit(j) PROVE Goal
  <2> DEFINE k == CacheKey(j)
  <2>1. /\ pc[j] = "lookup" /\ k \in DOMAIN cache /\ ~(now > cache[k].expiresAt)
        /\ pc' = [pc EXCEPT ![j] = "done"] /\ served' = [served EXCEPT ![j] = now]
        /\ result' = [result EXCEPT ![j] = [cache[k].value EXCEPT !.job = j]]
        /\ UNCHANGED <<clone, post, cache>>
    BY <1>1 DEF LookupHit, Hit, Expired, Serve, Goto
  <2>2. PICK i \in Jobs, t \in Nat : EntryOf(k, i, t)
    BY <1>0, <2>1 DEF CacheOK
  <2>3. Maker(i, t) /\ CacheKey(i) = CacheKey(j)
    BY <2>2 DEF EntryOf
  <2>4. i # j /\ clone[j] = None
    BY <1>0, <2>1, <2>3 DEF Maker, CloneStage
  <2>5. Job[i].repo = Job[j].repo /\ Job[i].sha = Job[j].sha
    BY <2>3 DEF CacheKey
  <2>6. /\ cache[k].value = Outcome(i, Job[i], clone[i], t)
        /\ cache[k].expiresAt = stored[i] + TTL
    BY <2>2 DEF EntryOf
  <2>7. [cache[k].value EXCEPT !.job = j] = Outcome(j, Job[j], clone[i], t)
    BY <2>5, <2>6 DEF Outcome
  <2>8. stored[i] <= now /\ now <= stored[i] + TTL
    BY <1>0, <2>1, <2>3, <2>6, ParamAssumption DEF TypeInv, Maker
  <2>9. Maker(i, t)' /\ clone'[i] = clone[i] /\ stored'[i] = stored[i]
    BY <1>0, <2>3, MakerStays
  <2>10. /\ result'[j] = Outcome(j, Job[j], clone[i], t) /\ served'[j] = now
         /\ pc'[j] = "done" /\ clone'[j] = None
    BY <1>0, <2>1, <2>4, <2>7 DEF TypeInv
  <2>11. FromRun(j, i, t)'
    BY <1>a, <2>3, <2>4, <2>8, <2>9, <2>10 DEF FromRun, CacheKey
  <2>12. ResultOK(j)'
    BY <2>10, <2>11 DEF ResultOK
  <2>13. \A x \in Jobs \ {j} : Same(x)
    BY <1>0, <2>1 DEF TypeInv
  <2> QED BY <1>b, <1>d, <2>1, <2>12, <2>13
<1>2. ASSUME NEW j \in Jobs, LookupMiss(j) PROVE Goal
  <2>1. (\A x \in Jobs \ {j} : Same(x)) /\ UNCHANGED cache /\ ResultOK(j)'
    BY <1>0, <1>2 DEF TypeInv, LookupMiss, Goto, ResultOK
  <2> QED BY <1>b, <1>d, <2>1
<1>3. ASSUME NEW j \in Jobs, MkdirTemp(j) \/ CloneFails(j) PROVE Goal
  <2>1. (\A x \in Jobs \ {j} : Same(x)) /\ UNCHANGED <<cache, clone>>
    BY <1>0, <1>3 DEF TypeInv, MkdirTemp, CloneFails, Goto, Fail, Serve
  <2>2. pc[j] \in {"mkdir", "clone"}
    BY <1>3 DEF MkdirTemp, CloneFails
  <2>3. \/ pc'[j] = "clone"
        \/ pc'[j] = "done" /\ result'[j] = EmptyResult(j)
    BY <1>0, <1>3 DEF TypeInv, MkdirTemp, CloneFails, Goto, Fail, Serve
  <2>4. ResultOK(j)'
    BY <1>0, <2>1, <2>2, <2>3 DEF ResultOK, CloneStage
  <2> QED BY <1>b, <1>d, <2>1, <2>4
<1>4. ASSUME NEW j \in Jobs, CloneRepo(j) PROVE Goal
  <2>1. (\A x \in Jobs \ {j} : Same(x)) /\ UNCHANGED cache /\ ResultOK(j)'
    BY <1>0, <1>4 DEF TypeInv, CloneRepo, Goto, ResultOK
  <2> QED BY <1>b, <1>d, <2>1
<1>5. ASSUME NEW j \in Jobs, EvaluateAnswered(j) \/ EvaluateRetry(j) \/ EvaluateGivesUp(j) PROVE Goal
  <2>1. /\ (\A x \in Jobs \ {j} : Same(x)) /\ UNCHANGED cache
        /\ pc'[j] \in {"evaluate", "build"}
    BY <1>0, <1>5 DEF TypeInv, EvaluateAnswered, EvaluateRetry, EvaluateGivesUp, Goto
  <2>2. ResultOK(j)'
    BY <2>1 DEF ResultOK
  <2> QED BY <1>b, <1>d, <2>1, <2>2
<1>5a. ASSUME NEW j \in Jobs, Build(j) PROVE Goal
  <2>1. /\ (\A x \in Jobs \ {j} : Same(x)) /\ UNCHANGED <<cache, clone, now>>
        /\ pc'[j] = "store" /\ result'[j] = NewResult(j)
    BY <1>0, <1>5a DEF TypeInv, Build, Goto
  <2>2. NewResult(j) = Outcome(j, Job[j], clone[j], now) /\ now \in Nat
    BY <1>0 DEF TypeInv, NewResult, Outcome, FindingsOf, FlawsIn
  <2>3. ResultOK(j)'
    BY <1>a, <2>1, <2>2 DEF ResultOK
  <2> QED BY <1>b, <1>d, <2>1, <2>3
<1>6. ASSUME NEW j \in Jobs, Store(j) PROVE Goal
  <2>k. PICK k : k = CacheKey(j)
    OBVIOUS
  <2>0. PICK t0 \in Nat : result[j] = Outcome(j, Job[j], clone[j], t0) /\ t0 <= now
    BY <1>0, <1>6 DEF Store, ResultOK
  <2> DEFINE v == Outcome(j, Job[j], clone[j], t0)
  <2>1. (\A x \in Jobs \ {j} : Same(x)) /\ pc'[j] = "return" /\ UNCHANGED <<clone, result, now>>
    BY <1>0, <1>6 DEF TypeInv, Store, Goto
  <2>2. stored'[j] = now /\ now \in Nat
    BY <1>0, <1>6 DEF TypeInv, Store
  <2>4. cache' = WithEntry(k, v)
    BY <1>6, <2>k, <2>0 DEF Store
  <2>6. clone[j] \in Commits
    BY <1>0, <1>6 DEF Store, CloneStage
  <2>7. Maker(j, t0)'
    BY <1>a, <2>0, <2>1, <2>2, <2>6 DEF Maker
  <2>5. ResultOK(j)'
    BY <2>1, <2>7 DEF ResultOK
  <2>8. EntryOf(k, j, t0)'
    <3>1. cache'[k] = [value |-> v, expiresAt |-> now + TTL]
      BY <2>4 DEF WithEntry
    <3> QED BY <1>a, <2>k, <2>1, <2>2, <2>7, <3>1 DEF EntryOf, CacheKey
  <2>9. ASSUME NEW x \in DOMAIN cache' PROVE \E i \in Jobs, t \in Nat : EntryOf(x, i, t)'
    <3>1. CASE x = k
      BY <2>8, <3>1
    <3>2. CASE x # k
      <4>1. x \in DOMAIN cache /\ cache'[x] = cache[x]
        BY <2>4, <2>9, <3>2 DEF WithEntry
      <4>2. PICK i \in Jobs, t \in Nat : EntryOf(x, i, t)
        BY <1>0, <4>1 DEF CacheOK
      <4>3. Maker(i, t)' /\ clone'[i] = clone[i] /\ stored'[i] = stored[i]
        BY <1>0, <4>2, MakerStays DEF EntryOf
      <4>4. EntryOf(x, i, t)'
        BY <1>a, <4>1, <4>2, <4>3 DEF EntryOf, CacheKey
      <4> QED BY <4>4
    <3> QED BY <3>1, <3>2
  <2> QED BY <1>b, <2>1, <2>5, <2>9 DEF CacheOK
<1>7. ASSUME NEW j \in Jobs, Return(j) PROVE Goal
  <2>1. /\ (\A x \in Jobs \ {j} : Same(x)) /\ UNCHANGED <<cache, clone, result>>
        /\ pc[j] = "return" /\ pc'[j] = "done"
    BY <1>0, <1>7 DEF TypeInv, Return, Goto
  <2>2. PICK t \in Nat : Maker(j, t)
    BY <1>0, <2>1 DEF ResultOK
  <2>3. Maker(j, t)'
    BY <1>0, <2>2, MakerStays
  <2>4. ResultOK(j)'
    BY <2>1, <2>3 DEF ResultOK
  <2> QED BY <1>b, <1>d, <2>1, <2>4
<1>8. ASSUME NEW j \in Jobs, NEW k \in PostKinds, PostDelivered(j, k) \/ PostLost(j, k) PROVE Goal
  BY <1>8, <1>c, <1>d DEF PostDelivered, PostLost, Posts, runVars
<1>9. ASSUME NEW r \in Repos, Push(r) PROVE Goal
  BY <1>9, <1>c, <1>d DEF Push, runVars
<1>10. ASSUME Tick \/ Cancel \/ Exit PROVE Goal
  BY <1>10, <1>c, <1>d DEF Tick, Cancel, Exit, runVars
<1>11. ASSUME Evict PROVE Goal
  <2>1. \A i \in Jobs : ResultOK(i)'
    BY <1>11, <1>c DEF Evict, runVars
  <2>2. DOMAIN cache' \subseteq DOMAIN cache /\ \A k \in DOMAIN cache' : cache'[k] = cache[k]
    BY <1>11 DEF Evict
  <2> QED BY <1>0, <2>1, <2>2, EntriesStay
<1>12. CASE UNCHANGED vars
  BY <1>12, <1>c, <1>d DEF vars, runVars
<1> QED
  BY <1>1, <1>2, <1>3, <1>4, <1>5, <1>5a, <1>6, <1>7, <1>8, <1>9, <1>10, <1>11, <1>12
  DEF Next, Step, RunStep

LEMMA ResultInvariant == Spec => []ResultInv
<1>1. Init => ResultInv
  BY TypeInit
  DEF Init, ResultInv, CommentInv, PostOrder, CommentIsSafe, PostKinds, CloneStage, ResultOK, CacheOK
<1> QED BY <1>1, ResultNext, PTL DEF Spec

(* A result is the one its job asked for, whichever run computed it. *)
THEOREM ResultsAreOwn == Spec => []ResultIsOwn
<1>1. ASSUME ResultInv, NEW j \in Analysed
      PROVE  \E c \in Commits, t \in Nat : result[j] = Outcome(j, Job[j], c, t)
  <2>1. j \in Jobs /\ pc[j] = "done" /\ result[j].tree # None /\ ResultOK(j)
    BY <1>1 DEF Analysed, ResultInv
  <2>2. result[j] # EmptyResult(j)
    BY <2>1 DEF EmptyResult
  <2> QED BY <2>1, <2>2 DEF ResultOK, FromRun, Maker
<1>2. ResultInv => ResultIsOwn
  <2> SUFFICES ASSUME ResultInv, NEW j \in Analysed
               PROVE  /\ result[j].job = j
                      /\ result[j].repo = Job[j].repo /\ result[j].sha = Job[j].sha
                      /\ Count(result[j].findings, "high") = Flaws[result[j].tree].secrets
                      /\ Count(result[j].findings, "medium") = Flaws[result[j].tree].unpinned
    BY DEF ResultIsOwn
  <2>1. PICK c \in Commits, t \in Nat : result[j] = Outcome(j, Job[j], c, t)
    BY <1>1
  <2>2. /\ result[j].job = j /\ result[j].repo = Job[j].repo /\ result[j].sha = Job[j].sha
        /\ result[j].findings = FlawsIn(c) /\ result[j].tree = c
    BY <2>1 DEF Outcome
  <2> QED BY <2>2, FlawsCounted
<1> QED BY <1>2, ResultInvariant, PTL

(* A job answered from the cache gets the whole result of another run for   *)
(* the same key, at most TTL after it was stored, and nothing is posted.    *)
THEOREM CachedAreFresh == Spec => []CachedIsFresh
<1>1. ResultInv => CachedIsFresh
  <2> SUFFICES ASSUME ResultInv, NEW j \in Analysed, FromCache(j)
               PROVE  /\ \E i \in Jobs \ {j} :
                            /\ ~FromCache(i) /\ CacheKey(i) = CacheKey(j)
                            /\ result[j] = [result[i] EXCEPT !.job = j]
                            /\ result[i].completedAt <= stored[i]
                            /\ stored[i] <= served[j] /\ served[j] <= stored[i] + TTL
                      /\ \A k \in PostKinds : post[j][k] = "none"
    BY DEF CachedIsFresh
  <2>1. /\ j \in Jobs /\ pc[j] = "done" /\ result[j].tree # None /\ clone[j] = None
        /\ ResultOK(j) /\ CloneStage(j)
    BY DEF Analysed, ResultInv, FromCache
  <2>2. result[j] # EmptyResult(j) /\ None \notin Commits
    BY <2>1, ParamAssumption DEF EmptyResult
  <2>3. PICK i \in Jobs, t \in Nat : FromRun(j, i, t)
    BY <2>1, <2>2 DEF ResultOK, Maker
  <2>4. /\ i # j /\ clone[i] \in Commits /\ CacheKey(i) = CacheKey(j) /\ t <= stored[i]
        /\ result[i] = Outcome(i, Job[i], clone[i], t) /\ result[j] = Outcome(j, Job[j], clone[i], t)
        /\ stored[i] <= served[j] /\ served[j] <= stored[i] + TTL
    BY <2>3 DEF FromRun, Maker
  <2>5. Job[i].repo = Job[j].repo /\ Job[i].sha = Job[j].sha
    BY <2>4 DEF CacheKey
  <2>6. result[j] = [result[i] EXCEPT !.job = j] /\ result[i].completedAt = t
    BY <2>4, <2>5 DEF Outcome
  <2>7. \A k \in PostKinds : post[j][k] = "none"
    BY <2>1, <2>2 DEF CloneStage
  <2> QED BY <2>2, <2>4, <2>6, <2>7 DEF FromCache
<1> QED BY <1>1, ResultInvariant, PTL
-----------------------------------------------------------------------------
(***************************************************************************)
(* What GitHub is sent, for any limit of annotations but 0 and any of the  *)
(* findings listed.  Secrets come first in a result, so the limit never    *)
(* cuts off all of them.                                                   *)
(***************************************************************************)
LEMMA FirstOfSeq ==
    ASSUME NEW S, NEW fs \in Seq(S), NEW n \in Nat
    PROVE  /\ FirstOf(fs, n) \in Seq(S)
           /\ Len(FirstOf(fs, n)) = IF Len(fs) < n THEN Len(fs) ELSE n
           /\ \A i \in 1 .. Len(FirstOf(fs, n)) : FirstOf(fs, n)[i] = fs[i]
<1> DEFINE m == IF Len(fs) < n THEN Len(fs) ELSE n
<1>1. m \in 0 .. Len(fs)
  OBVIOUS
<1> HIDE DEF m
<1>2. Len(SubSeq(fs, 1, m)) = m /\ SubSeq(fs, 1, m) \in Seq(S)
  BY <1>1
<1>3. \A i \in 1 .. m : SubSeq(fs, 1, m)[i] = fs[i]
  BY <1>1
<1> QED BY <1>2, <1>3 DEF FirstOf, m

LEMMA FunSeq ==
    ASSUME NEW S, NEW n, n \in Nat, NEW f \in [1 .. n -> S]
    PROVE  f \in Seq(S) /\ Len(f) = n
  OBVIOUS

LEMMA CheckRunRight ==
    ASSUME NEW c \in Commits
    PROVE  LET run == CheckRun(FlawsIn(c))
           IN  /\ run.conclusion = "failure" <=> Flaws[c].secrets > 0
               /\ run.conclusion = "failure" =>
                      \E i \in DOMAIN run.annotations : run.annotations[i] = "failure"
               /\ Len(run.annotations) <= MaxAnnotations
<1> DEFINE fs == FlawsIn(c)
           as == BuildAnnotations(fs)
           cut == FirstOf(as, MaxAnnotations)
           s == Flaws[c].secrets
           u == Flaws[c].unpinned
<1>1. /\ s \in Nat /\ u \in Nat /\ Len(fs) = s + u /\ DOMAIN fs = 1 .. (s + u)
      /\ \A i \in DOMAIN fs : fs[i].severity = IF i <= s THEN "high" ELSE "medium"
  BY FlawsShape
<1>2. Count(fs, "high") = s /\ Count(fs, "critical") = 0
  BY FlawsCounted DEF Severities
<1> HIDE DEF fs, s, u
<1>3. CheckRun(fs).conclusion = IF s = 0 THEN "success" ELSE "failure"
  BY <1>2 DEF CheckRun, NewSummary
<1>4. \A i \in 1 .. (s + u) : as[i] = IF i <= s THEN "failure" ELSE "warning"
  BY <1>1 DEF BuildAnnotations, SeverityToLevel
<1>5. as \in Seq({"failure", "warning"}) /\ Len(as) = s + u
  <2>1. as = [i \in 1 .. (s + u) |-> as[i]]
    BY <1>1 DEF BuildAnnotations
  <2> HIDE DEF as
  <2>2. as \in [1 .. (s + u) -> {"failure", "warning"}]
    BY <1>1, <1>4, <2>1
  <2>3. PICK n \in Nat : n = s + u
    BY <1>1
  <2>4. as \in [1 .. n -> {"failure", "warning"}]
    BY <2>2, <2>3
  <2>5. as \in Seq({"failure", "warning"}) /\ Len(as) = n
    BY <2>4, FunSeq
  <2> QED BY <2>3, <2>5
<1> HIDE DEF as
<1>6. /\ cut \in Seq({"failure", "warning"})
      /\ Len(cut) = IF s + u < MaxAnnotations THEN s + u ELSE MaxAnnotations
      /\ \A i \in 1 .. Len(cut) : cut[i] = as[i]
  BY <1>5, FirstOfSeq, ReportAssumption
<1> HIDE DEF cut
<1>7. ASSUME s > 0 PROVE 1 \in DOMAIN cut /\ cut[1] = "failure"
  <2>1. Len(cut) >= 1
    BY <1>1, <1>6, <1>7, ReportAssumption
  <2>2. Len(cut) \in Nat /\ DOMAIN cut = 1 .. Len(cut) /\ 1 \in 1 .. Len(cut)
    BY <1>6, <2>1
  <2>3. 1 \in DOMAIN cut /\ cut[1] = as[1]
    BY <1>6, <2>2
  <2>4. 1 <= s /\ 1 \in 1 .. (s + u)
    BY <1>1, <1>7
  <2>5. as[1] = "failure"
    BY <1>4, <2>4
  <2> QED BY <2>3, <2>5
<1>8. Len(cut) <= MaxAnnotations
  BY <1>1, <1>6, ReportAssumption
<1>9. CheckRun(fs).annotations = cut
  BY DEF CheckRun, cut, as
<1> QED BY <1>1, <1>3, <1>7, <1>8, <1>9 DEF fs, s

LEMMA CommentRight ==
    ASSUME NEW c \in Commits
    PROVE  LET text == Comment(FlawsIn(c))
           IN  /\ text.listed + text.more = Flaws[c].secrets + Flaws[c].unpinned
               /\ text.rows = {} <=> CheckRun(FlawsIn(c)).score = 100
<1> DEFINE fs == FlawsIn(c)
           s == Flaws[c].secrets
           u == Flaws[c].unpinned
<1>1. /\ s \in Nat /\ u \in Nat /\ Len(fs) = s + u
      /\ fs \in Seq([by : {"entropy", "deps"}, severity : {"high", "medium"}])
  BY FlawsShape
<1>2. /\ Count(fs, "high") = s /\ Count(fs, "medium") = u
      /\ Count(fs, "critical") = 0 /\ Count(fs, "low") = 0 /\ Count(fs, "info") = 0
  BY FlawsCounted DEF Severities
<1> HIDE DEF fs, s, u
<1>4. Len(FirstOf(fs, MaxListed)) = IF s + u < MaxListed THEN s + u ELSE MaxListed
  BY <1>1, FirstOfSeq, ReportAssumption
<1>5. /\ Comment(fs).listed = Len(FirstOf(fs, MaxListed))
      /\ Comment(fs).more = IF Len(fs) > MaxListed THEN Len(fs) - MaxListed ELSE 0
  BY DEF Comment
<1>r. Comment(fs).rows = {x \in Severities \ {"other"} : Count(fs, x) > 0}
  BY DEF Comment
<1>6. Comment(fs).listed + Comment(fs).more = s + u
  BY <1>1, <1>4, <1>5, ReportAssumption
<1>7. Comment(fs).rows = {} <=> s = 0 /\ u = 0
  <2>1. ASSUME s = 0, u = 0 PROVE \A x \in Severities \ {"other"} : Count(fs, x) = 0
    BY <1>2, <2>1 DEF Severities
  <2>2. s > 0 => "high" \in Comment(fs).rows
    BY <1>2, <1>r DEF Severities
  <2>3. u > 0 => "medium" \in Comment(fs).rows
    BY <1>2, <1>r DEF Severities
  <2>4. s = 0 /\ u = 0 => Comment(fs).rows = {}
    BY <1>r, <2>1
  <2> QED BY <1>1, <2>2, <2>3, <2>4
<1>8. CheckRun(fs).score = 100 <=> s = 0 /\ u = 0
  <2>1. CheckRun(fs).score = LET left == 100 - (10 * s + 4 * u) IN IF left > 0 THEN left ELSE 0
    BY <1>1, <1>2 DEF CheckRun, NewSummary, Score
  <2> QED BY <1>1, <2>1
<1> QED BY <1>6, <1>7, <1>8 DEF fs, s, u

(* The check run and the comment say what was found, cut or not. *)
THEOREM ReportsAreRight == Spec => []ReportRight
<1>1. ResultInv => ReportRight
  <2> SUFFICES ASSUME ResultInv, NEW j \in Jobs, post[j]["check"] # "none"
               PROVE  LET fs == result[j].findings
                          run == CheckRun(fs)
                          text == Comment(fs)
                      IN  /\ run.conclusion = "failure" <=> Flaws[result[j].tree].secrets > 0
                          /\ run.conclusion = "failure" =>
                                 \E i \in DOMAIN run.annotations : run.annotations[i] = "failure"
                          /\ Len(run.annotations) <= MaxAnnotations
                          /\ text.listed + text.more =
                                 Flaws[result[j].tree].secrets + Flaws[result[j].tree].unpinned
                          /\ text.rows = {} <=> run.score = 100
    BY DEF ReportRight
  <2>1. clone[j] \in Commits /\ pc[j] = "done" /\ ResultOK(j)
    BY DEF ResultInv, CloneStage, CommentInv, PostOrder, PostKinds
  <2>2. PICK t \in Nat : result[j] = Outcome(j, Job[j], clone[j], t)
    BY <2>1, ParamAssumption DEF ResultOK, Maker
  <2>3. result[j].findings = FlawsIn(clone[j]) /\ result[j].tree = clone[j]
    BY <2>2 DEF Outcome
  <2> QED BY <2>1, <2>3, CheckRunRight, CommentRight
<1> QED BY <1>1, ResultInvariant, PTL
=============================================================================
