----------------------------- MODULE MCAnalyzer -----------------------------
(***************************************************************************)
(* Model checking of Analyzer.  Two events ask for the same commit, so     *)
(* that runs share a cache key while the branch moves and the entry        *)
(* expires; the notification service has no URL.                           *)
(***************************************************************************)
EXTENDS Analyzer, TLC

CONSTANTS j1, j2, r1, c1, c2, short

Pull == [url |-> r1, repo |-> r1, sha |-> c1, source |-> "github", pr |-> TRUE]
Manual == [Pull EXCEPT !.repo = NoRepo, !.source = "manual", !.pr = FALSE]

(* An event of a pull request and the push to its branch; a submission and  *)
(* an event that lacks the SHA, which nobody checks.                        *)
PullAndPush == {j1 :> Pull @@ j2 :> [Pull EXCEPT !.pr = FALSE]}
AllJobs == PullAndPush \cup {j1 :> Manual @@ j2 :> [Pull EXCEPT !.sha = short]}

(* A commit without pinned dependencies, and one with a secret besides. *)
BothFlaws == c1 :> [secrets |-> 0, unpinned |-> 1] @@ c2 :> [secrets |-> 1, unpinned |-> 2]
=============================================================================
