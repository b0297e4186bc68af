------------------------------- MODULE Summary -------------------------------
(***************************************************************************)
(* pkg/models/analysis.go: the findings of an analysis and their summary.  *)
(* A finding is a record with a severity and whatever else its maker and   *)
(* its readers tell apart.                                                 *)
(***************************************************************************)
EXTENDS Integers, Sequences, FiniteSets

Severities == {"critical", "high", "medium", "low", "info", "other"}

Count(fs, s) == Cardinality({i \in DOMAIN fs : fs[i].severity = s})

Score(fs) ==
    LET left == 100 - (20 * Count(fs, "critical") + 10 * Count(fs, "high")
                       + 4 * Count(fs, "medium") + Count(fs, "low"))
    IN  IF left > 0 THEN left ELSE 0

NewSummary(fs) ==
    [total |-> Len(fs), by |-> [s \in Severities |-> Count(fs, s)], score |-> Score(fs),
     passed |-> Count(fs, "critical") = 0 /\ Count(fs, "high") = 0]
=============================================================================
