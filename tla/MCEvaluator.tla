---------------------------- MODULE MCEvaluator -----------------------------
(***************************************************************************)
(* Model of Evaluator: every file of at most three lines over the line     *)
(* shapes below, beside a second file, against a few rule directories;     *)
(* and every pair of fixtures of at most two lines.                        *)
(***************************************************************************)
EXTENDS Evaluator

CONSTANTS p, q, A, B, go, js

Text(has, directive, ids) == [has |-> has, directive |-> directive, ids |-> ids, long |-> FALSE]

PlainLines == {Text({}, "none", {}), Text({p, q}, "none", {}), Text({p}, "bare", {}),
               Text({p, q}, "ids", {A}), Text({}, "file", {})}
LongLine == [Text({p}, "none", {}) EXCEPT !.long = TRUE]
MCLines == PlainLines \cup {LongLine}

(* p is found in a text where it is in a line of it; q is anchored, and     *)
(* found where the line that has it is all there is.                        *)
MCMatchString(pattern, lines) ==
    \E n \in DOMAIN lines : pattern \in lines[n].has /\ (pattern = q => Len(lines) = 1)

LinesUpTo(max, S) == UNION {[1 .. n -> S] : n \in 0 .. max}

Second == [language |-> js, lines |-> <<Text({p}, "none", {}), Text({q}, "ids", {})>>]

MCFileSets == {<<[language |-> go, lines |-> ls]>> \o rest :
                   ls \in LinesUpTo(3, MCLines), rest \in {<<>>, <<Second>>}}

R(id, pattern, severity) ==
    [id |-> id, languages |-> {AnyLanguage}, type |-> "regex", match |-> pattern,
     negate |-> FALSE, enabled |-> TRUE, severity |-> severity,
     tests |-> [pass |-> <<>>, fail |-> <<>>]]

(* A rule with a pass and a fail fixture. *)
Tested(r, pass, fail) == [r EXCEPT !.tests = [pass |-> <<pass>>, fail |-> <<fail>>]]

Readable(rs) == [readable |-> TRUE, rules |-> rs]

MCRuleDirs ==
    {Readable(<<R(A, p, "high"), R(B, q, "low")>>),
     Readable(<<R(A, p, "other"), [R(B, q, "critical") EXCEPT !.languages = {js}]>>),
     Readable(<<R(A, p, "critical"), R(A, q, "medium")>>),
     Readable(<<R(A, p, "low"), R(A, NoPattern, "high")>>),
     Readable(<<[R(A, p, "high") EXCEPT !.type = "literal"], R(B, q, "low")>>),
     Readable(<<[R(A, p, "medium") EXCEPT !.negate = TRUE], R(B, p, "info")>>),
     Readable(<<[R(A, q, "high") EXCEPT !.negate = TRUE], R(B, q, "low")>>),
     Readable(<<[R(A, q, "high") EXCEPT !.enabled = FALSE], R(B, NoPattern, "high")>>),
     Readable(<<R(A, p, "high"), R(B, BadPattern, "low")>>),
     [readable |-> FALSE, rules |-> <<R(A, p, "high")>>]}

Fixtures == LinesUpTo(2, PlainLines \cup {LongLine})

SecondRules ==
    {R(A, q, "low"),
     Tested([R(B, p, "info") EXCEPT !.negate = TRUE, !.enabled = FALSE], <<LongLine>>, <<>>)}

MCTestDirs ==
    MCRuleDirs \cup {Readable(<<Tested(R(A, p, "high"), x, y), second>>) :
                         x \in Fixtures, y \in Fixtures, second \in SecondRules}
=============================================================================
