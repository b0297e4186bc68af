---------------------------- MODULE GitHubReport ----------------------------
(***************************************************************************)
(* pkg/github/checkrun.go: what the check run and the comment on a pull    *)
(* request say of a result.  Their wording is left out; what is cut off,   *)
(* and the one thing that can go wrong while they are made, is not.        *)
(***************************************************************************)
EXTENDS Summary

CONSTANTS MaxAnnotations,  \* annotations of a check run, 50 in the code
          MaxListed        \* findings listed in a comment, 10 in the code

ASSUME ReportAssumption == MaxAnnotations \in Nat \ {0} /\ MaxListed \in Nat

(* SubSeq of what there is, as the code's slices with their limits. *)
FirstOf(fs, n) == SubSeq(fs, 1, IF Len(fs) < n THEN Len(fs) ELSE n)

SeverityToLevel(s) ==
    CASE s \in {"critical", "high"} -> "failure"
      [] s = "medium" -> "warning"
      [] OTHER -> "notice"

BuildAnnotations(fs) == [i \in DOMAIN fs |-> SeverityToLevel(fs[i].severity)]

(* The payload of PostCheckRun. *)
CheckRun(fs) ==
    [conclusion  |-> IF NewSummary(fs).passed THEN "success" ELSE "failure",
     annotations |-> FirstOf(BuildAnnotations(fs), MaxAnnotations),
     score       |-> NewSummary(fs).score]

(* The body of PRComment: the rows of its table, the findings listed and    *)
(* how many more there are.                                                 *)
Comment(fs) ==
    [rows   |-> {s \in Severities \ {"other"} : Count(fs, s) > 0},
     listed |-> Len(FirstOf(fs, MaxListed)),
     more   |-> IF Len(fs) > MaxListed THEN Len(fs) - MaxListed ELSE 0]

(* buildCommentBody slices CommitSHA[:8], which panics if there is less. *)
CommentPanics(shortSHA) == shortSHA
=============================================================================
