------------------------------ MODULE Analyzer ------------------------------
(***************************************************************************)
(* Analyzer.Run (services/analysis-service/analyzer/analyzer.go) as the    *)
(* workers run it concurrently, with what it calls: the result cache       *)
(* (pkg/cache/cache.go), the clone into a temporary directory, the policy  *)
(* engine behind retry.DoHTTP (pkg/retry/retry.go), the local scanners,    *)
(* and the posts to the audit service, the notification service and        *)
(* GitHub that are started and not waited for.                             *)
(*                                                                         *)
(* Outside the service: branches move (Push), git, the policy engine and   *)
(* the receivers of the posts answer or fail, and the clock runs.          *)
(***************************************************************************)
EXTENDS GitHubReport

CONSTANTS Jobs,         \* the jobs handed to Run, each once
          Repos,        \* repositories; one branch of each matters
          NoRepo,       \* the empty owner and name of a manual job
          Commits,      \* the commits a branch can be at
          ShortSHAs,    \* what a job may name in place of a commit, of less than 8 characters
          JobSets,      \* the jobs considered, see Job
          Flaws,        \* [Commits -> the secrets and unpinned dependencies in its files]
          HasToken,     \* is GITHUB_TOKEN set
          Services,     \* those of the audit and notification services that have a URL
          MaxAttempts,  \* retry.Default.MaxAttempts, 4 in the code
          TTL,          \* life of a cache entry, 2 hours in the code
          MaxTime,      \* bound of the clock
          None

ASSUME JobAssumption ==
    JobSets \subseteq [Jobs -> [url : Repos, repo : Repos \cup {NoRepo}, sha : Commits \cup ShortSHAs,
                              source : {"github", "manual"}, pr : BOOLEAN]]
ASSUME FlawsAssumption == Flaws \in [Commits -> [secrets : Nat, unpinned : Nat]]
ASSUME ParamAssumption ==
    /\ MaxAttempts \in Nat \ {0} /\ TTL \in Nat /\ MaxTime \in Nat
    /\ HasToken \in BOOLEAN /\ Services \subseteq {"audit", "notification"}
    /\ None \notin Commits \cup ShortSHAs /\ Commits \cap ShortSHAs = {}

VARIABLES Job,      \* [Jobs -> its models.Job], fixed
          pc,       \* [Jobs -> where its run is]
          dirs,     \* the jobs whose temporary directory exists
          clone,    \* [Jobs -> the commit in that directory]
          attempt,  \* [Jobs -> attempts made at the policy engine]
          result,   \* [Jobs -> what Run returns]
          cache,    \* resultCache.items
          now,      \* the clock
          tip,      \* [Repos -> the commit the branch is at]
          post,     \* [Jobs -> [PostKinds -> how far the post is]]
          stored,   \* [Jobs -> when its result was put in the cache]
          served,   \* [Jobs -> when its answer was found in the cache, or its failure returned]
          phase     \* of the process: "up", ctx "cancelled", "exited" or "panicked"

runVars == <<pc, dirs, clone, attempt, result, stored, served>>
vars == <<Job, runVars, cache, now, tip, post, phase>>

PostKinds == {"audit", "notification", "check", "comment"}

(* Run's cacheKey: owner, name and the commit the job asks for. *)
CacheKey(j) == <<Job[j].repo, Job[j].sha>>
Keys == {CacheKey(j) : j \in Jobs}

(* models.AnalysisResult, as the worker returns it after an error: nothing  *)
(* but the job's ID.  tree is the commit whose files were analysed.         *)
EmptyResult(j) == [job |-> j, repo |-> NoRepo, sha |-> None, tree |-> None,
                   findings |-> <<>>, completedAt |-> 0]

Init ==
    /\ Job \in JobSets
    /\ pc = [j \in Jobs |-> "lookup"]
    /\ dirs = {}
    /\ clone = [j \in Jobs |-> None]
    /\ attempt = [j \in Jobs |-> 0]
    /\ result = [j \in Jobs |-> None]
    /\ cache = <<>>
    /\ now = 0
    /\ tip \in [Repos -> Commits]
    /\ post = [j \in Jobs |-> [k \in PostKinds |-> "none"]]
    /\ stored = [j \in Jobs |-> 0]
    /\ served = [j \in Jobs |-> 0]
    /\ phase = "up"

Running == phase \notin {"exited", "panicked"}

Goto(j, next) == pc' = [pc EXCEPT ![j] = next]

(* Run returns a result to the worker. *)
Serve(j, r) ==
    /\ result' = [result EXCEPT ![j] = r]
    /\ served' = [served EXCEPT ![j] = now]

(***************************************************************************)
(* The cache                                                               *)
(***************************************************************************)
(* Mutant: Get leaves it to the eviction to remove what is too old. *)
NeverExpired(k) == FALSE

Expired(k) == now > cache[k].expiresAt
Hit(k) == k \in DOMAIN cache /\ ~Expired(k)

(* The cache after Set. *)
WithEntry(k, v) ==
    [x \in DOMAIN cache \cup {k} |-> IF x = k THEN [value |-> v, expiresAt |-> now + TTL]
                                              ELSE cache[x]]

(* evictLoop's ticker fires. *)
Evict ==
    /\ Running
    /\ cache' = [k \in {x \in DOMAIN cache : ~Expired(x)} |-> cache[k]]
    /\ UNCHANGED <<runVars, now, tip, post, phase>>

(***************************************************************************)
(* Run                                                                     *)
(***************************************************************************)

(* Mutant: the cached result keeps the ID of the job it was made for. *)
LookupHitAsIs(j) ==
    /\ Running
    /\ pc[j] = "lookup"
    /\ Hit(CacheKey(j))
    /\ Serve(j, cache[CacheKey(j)].value)
    /\ Goto(j, "done")
    /\ UNCHANGED <<dirs, clone, attempt, stored, cache, now, tip, post, phase>>

(* A cached result is returned under the ID of this job, and that is all. *)
LookupHit(j) ==
    /\ Running
    /\ pc[j] = "lookup"
    /\ Hit(CacheKey(j))
    /\ Serve(j, [cache[CacheKey(j)].value EXCEPT !.job = j])
    /\ Goto(j, "done")
    /\ UNCHANGED <<dirs, clone, attempt, stored, cache, now, tip, post, phase>>

LookupMiss(j) ==
    /\ Running
    /\ pc[j] = "lookup"
    /\ ~Hit(CacheKey(j))
    /\ Goto(j, "mkdir")
    /\ UNCHANGED <<dirs, clone, attempt, result, stored, served, cache, now, tip, post, phase>>

(* The error return of cloneRepo. *)
Fail(j) == Goto(j, "done") /\ Serve(j, EmptyResult(j))

MkdirTemp(j) ==
    /\ Running
    /\ pc[j] = "mkdir"
    /\ \/ Goto(j, "clone") /\ dirs' = dirs \cup {j} /\ UNCHANGED <<result, served>>
       \/ Fail(j) /\ UNCHANGED dirs
    /\ UNCHANGED <<clone, attempt, stored, cache, now, tip, post, phase>>

(* git clone --depth=1 --single-branch: the branch as it is now. *)
CloneRepo(j) ==
    /\ phase = "up"
    /\ pc[j] = "clone"
    /\ clone' = [clone EXCEPT ![j] = tip[Job[j].url]]
    /\ Goto(j, "evaluate")
    /\ UNCHANGED <<dirs, attempt, result, stored, served, cache, now, tip, post, phase>>

(* Mutant: the directory of a failed clone stays. *)
CloneFailsLeaks(j) ==
    /\ Running
    /\ pc[j] = "clone"
    /\ Fail(j)
    /\ UNCHANGED <<dirs, clone, attempt, stored, cache, now, tip, post, phase>>

(* git fails, or is killed when the context is cancelled. *)
CloneFails(j) ==
    /\ Running
    /\ pc[j] = "clone"
    /\ dirs' = dirs \ {j}
    /\ Fail(j)
    /\ UNCHANGED <<clone, attempt, stored, cache, now, tip, post, phase>>

(* An attempt at the policy engine gets an answer that is not retried.  If  *)
(* it turns out not to be a PolicyResult that is an error, which is logged. *)
EvaluateAnswered(j) ==
    /\ phase = "up"
    /\ pc[j] = "evaluate"
    /\ attempt' = [attempt EXCEPT ![j] = @ + 1]
    /\ Goto(j, "build")
    /\ UNCHANGED <<dirs, clone, result, stored, served, cache, now, tip, post, phase>>

(* Mutant: attempts without end. *)
EvaluateRetryForever(j) ==
    /\ Running
    /\ pc[j] = "evaluate"
    /\ attempt' = [attempt EXCEPT ![j] = (@ + 1) % MaxAttempts]
    /\ UNCHANGED <<pc, dirs, clone, result, stored, served, cache, now, tip, post, phase>>

(* It fails and is repeated after a pause, unless it was the last one.  A   *)
(* context that is done when the pause ends need not win the select.        *)
EvaluateRetry(j) ==
    /\ Running
    /\ pc[j] = "evaluate"
    /\ attempt[j] + 1 < MaxAttempts
    /\ attempt' = [attempt EXCEPT ![j] = @ + 1]
    /\ UNCHANGED <<pc, dirs, clone, result, stored, served, cache, now, tip, post, phase>>

(* It was the last one, or the context is done during the pause: the error  *)
(* is logged and the run goes on.                                           *)
EvaluateGivesUp(j) ==
    /\ Running
    /\ pc[j] = "evaluate"
    /\ attempt[j] + 1 = MaxAttempts \/ phase = "cancelled"
    /\ attempt' = [attempt EXCEPT ![j] = @ + 1]
    /\ Goto(j, "build")
    /\ UNCHANGED <<dirs, clone, result, stored, served, cache, now, tip, post, phase>>

Times(n, by, severity) == [i \in 1 .. n |-> [by |-> by, severity |-> severity]]

(* Mutant: the dependencies are looked at first. *)
FindingsOfDepsFirst(j) ==
    Times(Flaws[clone[j]].unpinned, "deps", "medium") \o Times(Flaws[clone[j]].secrets, "entropy", "high")

(* evaluatePolicy returns no findings, even after an answer; those of the   *)
(* entropy scanner, then those of the dependency scanner, are the result.   *)
FindingsOf(j) ==
    Times(Flaws[clone[j]].secrets, "entropy", "high") \o Times(Flaws[clone[j]].unpinned, "deps", "medium")

NewResult(j) ==
    [job |-> j, repo |-> Job[j].repo, sha |-> Job[j].sha, tree |-> clone[j],
     findings |-> FindingsOf(j), completedAt |-> now]

(* The result is made, with the time it was completed at... *)
Build(j) ==
    /\ Running
    /\ pc[j] = "build"
    /\ result' = [result EXCEPT ![j] = NewResult(j)]
    /\ Goto(j, "store")
    /\ UNCHANGED <<dirs, clone, attempt, stored, served, cache, now, tip, post, phase>>

(* ... put in the cache, whose Set reads the clock again and overwrites...  *)
Store(j) ==
    /\ Running
    /\ pc[j] = "store"
    /\ cache' = WithEntry(CacheKey(j), result[j])
    /\ stored' = [stored EXCEPT ![j] = now]
    /\ Goto(j, "return")
    /\ UNCHANGED <<dirs, clone, attempt, result, served, now, tip, post, phase>>

(* The posts a run starts. *)
Started(j) ==
    {"audit", "notification"}
    \cup (IF HasToken /\ Job[j].source = "github" THEN {"check"} ELSE {})

(* How the goroutine of a post begins: without a URL it returns at once. *)
Posted(k) == IF k = "check" \/ k \in Services THEN "posting" ELSE "skipped"

(* ... then the posts are started, and the deferred RemoveAll runs. *)
Return(j) ==
    /\ Running
    /\ pc[j] = "return"
    /\ post' = [post EXCEPT ![j] = [k \in PostKinds |-> IF k \in Started(j) THEN Posted(k) ELSE @[k]]]
    /\ dirs' = dirs \ {j}
    /\ Goto(j, "done")
    /\ UNCHANGED <<clone, attempt, result, stored, served, cache, now, tip, phase>>

(***************************************************************************)
(* The posts, each tried once in a goroutine of its own, which ends with   *)
(* the process if that is first                                            *)
(***************************************************************************)

(* postGitHubCheckRun goes on from the check run to the comment of a pull   *)
(* request.  The comment is put together first, in a goroutine nobody       *)
(* recovers: a panic there ends the process.                                *)
CommentNext(j, k) == k = "check" /\ Job[j].pr

Posts(j, k, end) ==
    LET panics == CommentPanics(Job[j].sha \in ShortSHAs)
    IN  /\ post' = [post EXCEPT ![j] = [x \in PostKinds |->
               IF x = k THEN end
               ELSE IF x = "comment" /\ CommentNext(j, k) /\ ~panics THEN "posting" ELSE @[x]]]
        /\ phase' = IF CommentNext(j, k) /\ panics THEN "panicked" ELSE phase
        /\ UNCHANGED <<runVars, cache, now, tip>>

(* The receiver answers, GitHub below 300.  GitHub has no check run for a   *)
(* head_sha that is not the SHA of a commit.                                *)
PostDelivered(j, k) ==
    /\ Running
    /\ post[j][k] = "posting"
    /\ k = "check" => Job[j].sha \in Commits
    /\ Posts(j, k, "delivered")

(* Mutant: no return after the error of the check run. *)
PostLostGoesOn(j, k) ==
    /\ Running
    /\ post[j][k] = "posting"
    /\ Posts(j, k, "lost")

(* A post fails; it is logged and not repeated. *)
PostLost(j, k) ==
    /\ Running
    /\ post[j][k] = "posting"
    /\ post' = [post EXCEPT ![j][k] = "lost"]
    /\ UNCHANGED <<runVars, cache, now, tip, phase>>

(***************************************************************************)
(* The surroundings                                                        *)
(***************************************************************************)

(* Someone pushes to a branch. *)
Push(r) ==
    /\ \E c \in Commits \ {tip[r]} : tip' = [tip EXCEPT ![r] = c]
    /\ UNCHANGED <<runVars, cache, now, post, phase>>

Tick ==
    /\ now < MaxTime
    /\ now' = now + 1
    /\ UNCHANGED <<runVars, cache, tip, post, phase>>

(* main cancels the context; it exits when no worker runs any more, and     *)
(* with it whatever is still being posted.                                  *)
Cancel ==
    /\ phase = "up"
    /\ phase' = "cancelled"
    /\ UNCHANGED <<runVars, cache, now, tip, post>>

Exit ==
    /\ phase = "cancelled"
    /\ \A j \in Jobs : pc[j] \in {"lookup", "done"}
    /\ phase' = "exited"
    /\ UNCHANGED <<runVars, cache, now, tip, post>>

RunStep(j) ==
    \/ LookupHit(j) \/ LookupMiss(j) \/ MkdirTemp(j) \/ CloneRepo(j) \/ CloneFails(j)
    \/ EvaluateAnswered(j) \/ EvaluateRetry(j) \/ EvaluateGivesUp(j)
    \/ Build(j) \/ Store(j) \/ Return(j)

Step ==
    \/ \E j \in Jobs : RunStep(j) \/ \E k \in PostKinds : PostDelivered(j, k) \/ PostLost(j, k)
    \/ \E r \in Repos : Push(r)
    \/ Evict
    \/ Tick
    \/ Cancel
    \/ Exit

Next == Step /\ UNCHANGED Job

Spec == Init /\ [][Next]_vars

(* git and the policy engine answer in the end, and workers take jobs. *)
FairSpec == Spec /\ \A j \in Jobs : WF_vars(RunStep(j) /\ UNCHANGED Job)

-----------------------------------------------------------------------------
(* The runs that finished with a result of an analysis. *)
Analysed == {j \in Jobs : pc[j] = "done" /\ result[j].tree # None}
FromCache(j) == clone[j] = None

(* Whoever computed it, a result carries the ID of the job it is returned   *)
(* for, names the repository and the commit that job asked for, and has the *)
(* findings of the local scanners in the files it was made from, whatever   *)
(* became of the policy engine (analyzer.go:51-56, 66-91).                  *)
ResultIsOwn ==
    \A j \in Analysed :
        /\ result[j].job = j
        /\ result[j].repo = Job[j].repo /\ result[j].sha = Job[j].sha
        /\ Count(result[j].findings, "high") = Flaws[result[j].tree].secrets
        /\ Count(result[j].findings, "medium") = Flaws[result[j].tree].unpinned

(* A temporary directory exists only while its run does, on every error     *)
(* path too, and the files are there for as long as they are needed         *)
(* (analyzer.go:60-64 and 132-135).                                         *)
DirsCleanedUp ==
    \A j \in Jobs : (j \in dirs) <=> (pc[j] \in {"clone", "evaluate", "build", "store", "return"})

(* A job answered from the cache gets, under its own ID, the whole result   *)
(* that another run made for the same cache key (owner, name and commit     *)
(* asked for; the owner and name of manual jobs are empty), no later than   *)
(* TTL after that run put it there, which is not before it was completed,   *)
(* whatever expired, was evicted or was overwritten in between.  Nothing is *)
(* posted for such a job: what the posts of that run did not deliver is not *)
(* made good (analyzer.go:51-56, 81-99; cache.go).                          *)
CachedIsFresh ==
    \A j \in Analysed : FromCache(j) =>
        /\ \E i \in Jobs \ {j} :
              /\ ~FromCache(i) /\ CacheKey(i) = CacheKey(j)
              /\ result[j] = [result[i] EXCEPT !.job = j]
              /\ result[i].completedAt <= stored[i]
              /\ stored[i] <= served[j] /\ served[j] <= stored[i] + TTL
        /\ \A k \in PostKinds : post[j][k] = "none"

(* The slice CommitSHA[:8] of the comment never ends the process, although  *)
(* no one validates the SHA of a webhook: GitHub refuses the check run of   *)
(* such a job, and the comment is made only after an accepted check run     *)
(* (analyzer.go:104-114, checkrun.go:210).                                  *)
CommentIsSafe ==
    /\ phase # "panicked"
    /\ \A j \in Jobs : post[j]["comment"] # "none" => post[j]["check"] = "delivered"

(* What GitHub shows of a result agrees with it although it is cut: the     *)
(* check fails exactly when there is a secret in the analysed files, a      *)
(* failed check has an annotation that says failure among those that are    *)
(* sent, and the comment accounts for every finding                         *)
(* (analyzer.go:71-91, checkrun.go:61-102, 202-235).                        *)
ReportRight ==
    \A j \in Jobs : post[j]["check"] # "none" =>
        LET fs  == result[j].findings
            run == CheckRun(fs)
            text == Comment(fs)
        IN  /\ run.conclusion = "failure" <=> Flaws[result[j].tree].secrets > 0
            /\ run.conclusion = "failure" => \E i \in DOMAIN run.annotations : run.annotations[i] = "failure"
            /\ Len(run.annotations) <= MaxAnnotations
            /\ text.listed + text.more = Flaws[result[j].tree].secrets + Flaws[result[j].tree].unpinned
            /\ text.rows = {} <=> run.score = 100

(* Every run that was begun returns: the retries end, no path is stuck.     *)
EveryRunReturns == \A j \in Jobs : pc[j] = "mkdir" ~> pc[j] = "done"

(* analyzer.go:49: "Results are cached by commit SHA".  The result that     *)
(* names a commit is that of the commit's files.                            *)
ResultIsOfCommit == \A j \in Analysed : result[j].tree = result[j].sha
=============================================================================
