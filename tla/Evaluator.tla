----------------------------- MODULE Evaluator ------------------------------
(***************************************************************************)
(* The rule evaluator (pkg/rules/evaluator.go) and the two commands that   *)
(* say what it found: the policy engine (services/policy-engine/engine),   *)
(* its start and one request to POST /api/v1/evaluate, and litd test-rules *)
(* (cmd/litd/testrules.go), which runs each rule on its own fixtures.      *)
(*                                                                         *)
(* A line of a file is what the evaluator can tell of it: the patterns     *)
(* that match it, the litd:ignore directive on it, and whether it is too   *)
(* long for a bufio.Scanner, which gives up at such a line for good.       *)
(***************************************************************************)
EXTENDS Summary, LineScanner

CONSTANTS Patterns,     \* the texts a rule can match
          BadPattern,   \* a text regexp.Compile refuses
          NoPattern,    \* the empty Match
          MatchString(_, _), \* does a pattern match the whole of a text
          Ids,          \* rule IDs
          Languages,    \* of files
          AnyLanguage,  \* "*" in a rule's languages
          HeaderLines,  \* the lines fileIgnored reads, 10 in the code
          RuleDirs,     \* the rule directories of the engine considered
          TestDirs,     \* the ones of test-rules
          FileSets      \* the requests considered

(* "ids": the directive is followed by text; ids are the rules it names. *)
Line == [has : SUBSET Patterns, directive : {"none", "bare", "file", "ids"},
         ids : SUBSET Ids, long : BOOLEAN]

File == [language : Languages, lines : Seq(Line)]

Rule == [id : Ids, languages : SUBSET (Languages \cup {AnyLanguage}),
         type : {"regex", "literal", "ast"}, match : Patterns \cup {BadPattern, NoPattern},
         negate : BOOLEAN, enabled : BOOLEAN, severity : Severities,
         tests : [pass : Seq(Seq(Line)), fail : Seq(Seq(Line))]]

ASSUME EvaluatorAssumption ==
    /\ NoPattern \notin Patterns /\ BadPattern \notin Patterns /\ NoPattern # BadPattern
    /\ HeaderLines \in Nat
    /\ \A d \in RuleDirs \cup TestDirs : d.readable \in BOOLEAN /\ d.rules \in Seq(Rule)
    /\ FileSets \subseteq Seq(File)

VARIABLES command,   \* "engine" or "test-rules"
          dir,       \* its rule directory
          files,     \* the files of the request to the engine
          rules,     \* Evaluator.rules
          compiled,  \* Evaluator.compiled
          fileNo, ruleNo,   \* where the loops are
          findings,  \* what Evaluate has found
          answer,    \* the PolicyResult
          tests,     \* the fixtures run so far and those that failed
          exit,      \* the exit code
          pc

input == <<command, dir, files>>
cursor == <<fileNo, ruleNo>>
results == <<findings, answer, tests, exit>>
vars == <<input, rules, compiled, cursor, results, pc>>

NoAnswer == [blocked |-> FALSE, allowed |-> TRUE, errors |-> <<>>, warnings |-> <<>>]

Init ==
    /\ command \in {"engine", "test-rules"}
    /\ dir \in IF command = "engine" THEN RuleDirs ELSE TestDirs
    /\ files \in IF command = "engine" THEN FileSets ELSE {<<>>}
    /\ rules = <<>>
    /\ compiled = <<>>
    /\ fileNo = 1 /\ ruleNo = 1
    /\ findings = <<>>
    /\ answer = NoAnswer
    /\ tests = [total |-> 0, failed |-> 0] /\ exit = 0
    /\ pc = "load"

(***************************************************************************)
(* Start                                                                   *)
(***************************************************************************)

(* A directory that is missing, or holds a file that is not read or parsed, *)
(* leaves the engine with no rule at all.                                  *)
LoadRules ==
    /\ pc = "load"
    /\ dir.readable \/ command = "engine"
    /\ rules' = IF dir.readable THEN dir.rules ELSE <<>>
    /\ pc' = "compile"
    /\ UNCHANGED <<input, compiled, cursor, results>>

(* test-rules ends there. *)
LoadFails ==
    /\ pc = "load"
    /\ command = "test-rules" /\ ~dir.readable
    /\ exit' = 2
    /\ pc' = "failed"
    /\ UNCHANGED <<input, rules, compiled, cursor, findings, answer, tests>>

IsRegex(r) == r.type = "regex" /\ r.match # NoPattern

(* The rules that put their pattern under id in the map. *)
Writers(id) == {i \in DOMAIN rules : IsRegex(rules[i]) /\ rules[i].id = id}

Compiles == \A i \in DOMAIN rules : IsRegex(rules[i]) => rules[i].match # BadPattern

(* compiled is keyed by rule ID: of two rules with one ID the later stays. *)
NewEvaluator ==
    /\ pc = "compile"
    /\ Compiles
    /\ compiled' = [id \in {x \in Ids : Writers(x) # {}} |->
                       rules[CHOOSE i \in Writers(id) : \A k \in Writers(id) : k <= i].match]
    /\ pc' = IF command = "engine" THEN "file" ELSE "test"
    /\ UNCHANGED <<input, rules, cursor, results>>

(* Neither command goes on. *)
NewEvaluatorFails ==
    /\ pc = "compile"
    /\ ~Compiles
    /\ exit' = IF command = "test-rules" THEN 2 ELSE 1
    /\ pc' = "failed"
    /\ UNCHANGED <<input, rules, compiled, cursor, findings, answer, tests>>

(***************************************************************************)
(* Directives                                                              *)
(***************************************************************************)

(* The numbers of the lines the scanner returns. *)
ScannedLines(lines) ==
    DOMAIN Scanned(lines, {i \in DOMAIN lines : lines[i].long})

(* Mutant: the whole file is searched for litd:ignore-file. *)
FileIgnoredAnywhere(f) == \E n \in ScannedLines(f.lines) : f.lines[n].directive = "file"

FileIgnored(f) ==
    \E n \in ScannedLines(f.lines) : n <= HeaderLines /\ f.lines[n].directive = "file"

LineIgnored(l, id) ==
    \/ l.directive = "bare"
    \/ l.directive = "ids" /\ id \in l.ids

LanguageMatches(r, f) == AnyLanguage \in r.languages \/ f.language \in r.languages

(***************************************************************************)
(* evalRule: the numbers of the lines of a text a rule is reported at      *)
(***************************************************************************)

(* A negated rule searches the whole text, long lines and ignored ones too, *)
(* where an anchored pattern, or one for several lines, differs from a      *)
(* search line by line.                                                     *)
EvalRegex(r, lines) ==
    LET pattern == compiled[r.id]
        reported == {n \in ScannedLines(lines) : /\ ~LineIgnored(lines[n], r.id)
                                                 /\ pattern \in lines[n].has}
    IN  CASE r.id \notin DOMAIN compiled -> <<>>
          [] r.id \in DOMAIN compiled /\ r.negate -> IF MatchString(pattern, lines) THEN <<>> ELSE <<1>>
          [] OTHER -> Ascending(reported)

EvalRule(r, lines) == IF r.type = "regex" THEN EvalRegex(r, lines) ELSE <<>>

(***************************************************************************)
(* Evaluate, and the answer of the engine                                  *)
(***************************************************************************)
AtFile == pc = "file" /\ fileNo <= Len(files)

CurrentFile == files[fileNo]
CurrentRule == rules[ruleNo]

Found(n) == [file |-> fileNo, rule |-> ruleNo, line |-> n,
             id |-> CurrentRule.id, severity |-> CurrentRule.severity]

IgnoreFile ==
    /\ AtFile
    /\ FileIgnored(CurrentFile)
    /\ fileNo' = fileNo + 1
    /\ UNCHANGED <<input, rules, compiled, ruleNo, results, pc>>

OpenFile ==
    /\ AtFile
    /\ ~FileIgnored(CurrentFile)
    /\ ruleNo' = 1
    /\ pc' = "rule"
    /\ UNCHANGED <<input, rules, compiled, fileNo, results>>

EvaluateRule ==
    /\ pc = "rule"
    /\ ruleNo <= Len(rules)
    /\ findings' = IF CurrentRule.enabled /\ LanguageMatches(CurrentRule, CurrentFile)
                   THEN LET at == EvalRule(CurrentRule, CurrentFile.lines)
                        IN  findings \o [i \in DOMAIN at |-> Found(at[i])]
                   ELSE findings
    /\ ruleNo' = ruleNo + 1
    /\ UNCHANGED <<input, rules, compiled, fileNo, answer, tests, exit, pc>>

NextFile ==
    /\ pc = "rule"
    /\ ruleNo > Len(rules)
    /\ fileNo' = fileNo + 1
    /\ pc' = "file"
    /\ UNCHANGED <<input, rules, compiled, ruleNo, results>>

Serious(x) == x.severity \in {"critical", "high"}

SeriousOnes == {i \in DOMAIN findings : Serious(findings[i])}

(* Mutant: Blocked is what the last finding makes it. *)
AnswerByLast ==
    /\ pc = "file"
    /\ fileNo > Len(files)
    /\ LET blocked == findings # <<>> /\ Serious(findings[Len(findings)])
       IN  answer' = [blocked |-> blocked, allowed |-> ~blocked,
                      errors |-> Sublist(findings, SeriousOnes),
                      warnings |-> Sublist(findings, (DOMAIN findings) \ SeriousOnes)]
    /\ pc' = "answered"
    /\ UNCHANGED <<input, rules, compiled, cursor, findings, tests, exit>>

(* evaluateHandler after Evaluate: its loop over the findings. *)
Answer ==
    /\ pc = "file"
    /\ fileNo > Len(files)
    /\ LET blocked == SeriousOnes # {}
       IN  answer' = [blocked |-> blocked, allowed |-> ~blocked,
                      errors |-> Sublist(findings, SeriousOnes),
                      warnings |-> Sublist(findings, (DOMAIN findings) \ SeriousOnes)]
    /\ pc' = "answered"
    /\ UNCHANGED <<input, rules, compiled, cursor, findings, tests, exit>>

(***************************************************************************)
(* litd test-rules: EvaluateOne asks neither whether the rule is enabled,  *)
(* nor for its languages, nor for litd:ignore-file.                        *)
(***************************************************************************)
Wrong(r) ==
    Cardinality({i \in DOMAIN r.tests.pass : EvalRule(r, r.tests.pass[i]) # <<>>})
    + Cardinality({i \in DOMAIN r.tests.fail : EvalRule(r, r.tests.fail[i]) = <<>>})

(* Mutant: the failures of a rule are counted anew. *)
TestRuleForgets ==
    /\ pc = "test"
    /\ ruleNo <= Len(rules)
    /\ tests' = [total  |-> tests.total + Len(CurrentRule.tests.pass) + Len(CurrentRule.tests.fail),
                 failed |-> Wrong(CurrentRule)]
    /\ ruleNo' = ruleNo + 1
    /\ UNCHANGED <<input, rules, compiled, fileNo, findings, answer, exit, pc>>

TestRule ==
    /\ pc = "test"
    /\ ruleNo <= Len(rules)
    /\ tests' = [total  |-> tests.total + Len(CurrentRule.tests.pass) + Len(CurrentRule.tests.fail),
                 failed |-> tests.failed + Wrong(CurrentRule)]
    /\ ruleNo' = ruleNo + 1
    /\ UNCHANGED <<input, rules, compiled, fileNo, findings, answer, exit, pc>>

TestsDone ==
    /\ pc = "test"
    /\ ruleNo > Len(rules)
    /\ exit' = IF tests.total > 0 /\ tests.failed > 0 THEN 1 ELSE 0
    /\ pc' = "tested"
    /\ UNCHANGED <<input, rules, compiled, cursor, findings, answer, tests>>

Next ==
    \/ LoadRules \/ LoadFails \/ NewEvaluator \/ NewEvaluatorFails
    \/ IgnoreFile \/ OpenFile \/ EvaluateRule \/ NextFile \/ Answer
    \/ TestRule \/ TestsDone

Spec == Init /\ [][Next]_vars

-----------------------------------------------------------------------------
(***************************************************************************)
(* What the rules and the directives mean, said of the files and rules and *)
(* not of a scan: rule k is to be reported at line n of file f.            *)
(***************************************************************************)

(* The lines before the first that is too long; what is behind is not read. *)
Read(f) == {n \in DOMAIN f.lines : \A k \in DOMAIN f.lines : f.lines[k].long => n < k}

Excluded(f) == \E n \in Read(f) : n <= HeaderLines /\ f.lines[n].directive = "file"

Suppressed(l, id) == l.directive = "bare" \/ (l.directive = "ids" /\ id \in l.ids)

(* Rule j has a pattern under the ID of rule k; the last that has counts. *)
PatternFor(k, j) == rules[j].id = rules[k].id /\ rules[j].type = "regex" /\ rules[j].match # NoPattern
LastFor(k, j) == PatternFor(k, j) /\ \A m \in j + 1 .. Len(rules) : ~PatternFor(k, m)

(* Rule k holds at line n of a text, wherever the text comes from. *)
HoldsAt(k, f, n) ==
    LET r == rules[k]
    IN  /\ r.type = "regex"
        /\ \E j \in DOMAIN rules :
               /\ LastFor(k, j)
               /\ IF r.negate THEN n = 1 /\ ~MatchString(rules[j].match, f.lines)
                  ELSE n \in Read(f) /\ rules[j].match \in f.lines[n].has /\ ~Suppressed(f.lines[n], r.id)

Fires(k, f, n) ==
    /\ rules[k].enabled
    /\ {AnyLanguage, f.language} \cap rules[k].languages # {}
    /\ ~Excluded(f)
    /\ HoldsAt(k, f, n)

Positions(f) == 1 .. Len(f.lines) + 1

HasFinding(i, k, n) ==
    \E x \in DOMAIN findings : findings[x].file = i /\ findings[x].rule = k /\ findings[x].line = n

Before(a, b) ==
    \/ a.file < b.file
    \/ a.file = b.file /\ a.rule < b.rule
    \/ a.file = b.file /\ a.rule = b.rule /\ a.line < b.line

(* Evaluate reports exactly the lines each rule fires on, each once and in  *)
(* the order of files, rules and lines, whatever the other files and rules  *)
(* of the request are.  A line too long for the scanner hides what follows  *)
(* it from rules and directives, though not from negated rules, and rules   *)
(* that share an ID share the last pattern (evaluator.go:29-35, 44-57,      *)
(* 82-127, 131-163).                                                        *)
FindingsExact ==
    pc = "answered" =>
        /\ \A i \in DOMAIN files, k \in DOMAIN rules : \A n \in Positions(files[i]) :
               HasFinding(i, k, n) <=> Fires(k, files[i], n)
        /\ \A x \in 1 .. Len(findings) - 1 : Before(findings[x], findings[x + 1])

(* The request is blocked exactly when a critical or high rule fires       *)
(* somewhere in it, and no finding is left out of the answer               *)
(* (engine.go:80-105).                                                     *)
VerdictRight ==
    pc = "answered" =>
        /\ answer.blocked <=> \E i \in DOMAIN files, k \in DOMAIN rules :
                                  /\ Serious(rules[k])
                                  /\ \E n \in Positions(files[i]) : Fires(k, files[i], n)
        /\ answer.allowed = ~answer.blocked
        /\ Len(answer.errors) + Len(answer.warnings) = Len(findings)

(* litd test-rules ends with 0 exactly when every rule holds somewhere in  *)
(* each of its fail fixtures and nowhere in its pass fixtures, disabled    *)
(* rules included, and with 2 exactly when the rules cannot be loaded or   *)
(* compiled; rules the engine would start without are not passed over      *)
(* (testrules.go:16-64).                                                   *)
TestsExitRight ==
    command = "test-rules" /\ pc \in {"tested", "failed"} =>
        LET As(text) == [lines |-> text]
            Holds(k, text) == \E n \in Positions(As(text)) : HoldsAt(k, As(text), n)
        IN  IF ~dir.readable \/ \E k \in DOMAIN rules : rules[k].type = "regex" /\ rules[k].match = BadPattern
            THEN exit = 2
            ELSE exit = (IF \A k \in DOMAIN rules :
                               /\ \A i \in DOMAIN rules[k].tests.pass : ~Holds(k, rules[k].tests.pass[i])
                               /\ \A i \in DOMAIN rules[k].tests.fail : Holds(k, rules[k].tests.fail[i])
                         THEN 0 ELSE 1)
=============================================================================
