--------------------------- MODULE EvaluatorProofs ---------------------------
(***************************************************************************)
(* Proofs about Evaluator, for any patterns, rules, files and fixtures.    *)
(***************************************************************************)
EXTENDS Evaluator, ListProofs

(***************************************************************************)
(* A scanner returns the lines before the first that is too long.          *)
(***************************************************************************)
LEMMA ScannedAreRead ==
    ASSUME NEW f, f.lines \in Seq(Line) PROVE ScannedLines(f.lines) = Read(f)
<1> DEFINE lines == f.lines
           long == {i \in DOMAIN lines : lines[i].long}
<1>1. Len(lines) \in Nat /\ DOMAIN lines = 1 .. Len(lines)
  OBVIOUS
<1>2. PICK end \in 0 .. Len(lines) :
          /\ Scanned(lines, long) = SubSeq(lines, 1, end)
          /\ \A i \in 1 .. end : i \notin long
          /\ end = Len(lines) \/ end + 1 \in long
  <2>1. long \subseteq DOMAIN lines
    OBVIOUS
  <2> HIDE DEF long
  <2> QED BY <2>1, ScannedUpTo
<1>3. end \in 0 .. Len(lines) /\ (\A i \in 1 .. end : i \notin long) /\ (end = Len(lines) \/ end + 1 \in long)
  BY <1>2
<1>4. ScannedLines(lines) = 1 .. end
  <2>1. DOMAIN SubSeq(lines, 1, end) = 1 .. end
    BY <1>1, <1>3
  <2> QED BY <1>2, <2>1 DEF ScannedLines
<1>5. Read(f) = {n \in 1 .. Len(lines) : \A k \in 1 .. Len(lines) : k \in long => n < k}
  BY <1>1 DEF Read
<1>6. ASSUME NEW n \in 1 .. end PROVE n \in 1 .. Len(lines) /\ \A k \in 1 .. Len(lines) : k \in long => n < k
  <2>1. n \in 1 .. Len(lines)
    BY <1>1, <1>3
  <2>2. \A k \in long : k \in 1 .. Len(lines) /\ ~(k <= end)
    BY <1>1, <1>3
  <2> QED BY <1>1, <1>3, <2>1, <2>2
<1>7. ASSUME NEW n \in 1 .. Len(lines), \A k \in 1 .. Len(lines) : k \in long => n < k PROVE n \in 1 .. end
  <2>1. CASE end = Len(lines)
    BY <2>1
  <2>2. CASE end + 1 \in long
    <3>1. end + 1 \in 1 .. Len(lines)
      BY <1>1, <2>2
    <3>2. n < end + 1
      BY <1>7, <2>2, <3>1
    <3> QED BY <1>1, <1>3, <3>2
  <2> QED BY <1>3, <2>1, <2>2
<1> QED BY <1>4, <1>5, <1>6, <1>7

(***************************************************************************)
(* The map of compiled patterns has the last pattern under each ID.        *)
(***************************************************************************)
WritersIn(rs, id) == {i \in DOMAIN rs : IsRegex(rs[i]) /\ rs[i].id = id}

PatternsOf(rs) ==
    [id \in {x \in Ids : WritersIn(rs, x) # {}} |->
        rs[CHOOSE i \in WritersIn(rs, id) : \A k \in WritersIn(rs, id) : k <= i].match]

CompiledOK == compiled = PatternsOf(rules)

LEMMA LastPattern ==
    ASSUME rules \in Seq(Rule), CompiledOK, NEW k \in 1 .. Len(rules)
    PROVE  /\ rules[k].id \in DOMAIN compiled => \E j \in 1 .. Len(rules) : LastFor(k, j)
           /\ \A j \in 1 .. Len(rules) : LastFor(k, j) =>
                  rules[k].id \in DOMAIN compiled /\ compiled[rules[k].id] = rules[j].match
<1> DEFINE id == rules[k].id
           W == WritersIn(rules, id)
           Last(i) == i \in W /\ \A m \in W : m <= i
<1>0. Len(rules) \in Nat /\ DOMAIN rules = 1 .. Len(rules) /\ \A j \in 1 .. Len(rules) : rules[j] \in Rule
  OBVIOUS
<1>1. id \in Ids
  BY <1>0 DEF Rule
<1>2. W = {j \in 1 .. Len(rules) : PatternFor(k, j)}
  BY <1>0 DEF WritersIn, IsRegex, PatternFor
<1>3. (id \in DOMAIN compiled <=> W # {}) /\ (W # {} => compiled[id] = rules[CHOOSE i \in W : \A m \in W : m <= i].match)
  BY <1>1 DEF CompiledOK, PatternsOf
<1> HIDE DEF W
<1>4. \A j \in 1 .. Len(rules) : LastFor(k, j) <=> Last(j)
  <2>1. ASSUME NEW j \in 1 .. Len(rules), LastFor(k, j) PROVE Last(j)
    <3>1. j \in W /\ \A m \in j + 1 .. Len(rules) : m \notin W
      BY <1>2, <2>1 DEF LastFor
    <3>2. \A m \in W : m \in 1 .. Len(rules)
      BY <1>2
    <3> QED BY <1>0, <3>1, <3>2
  <2>2. ASSUME NEW j \in 1 .. Len(rules), Last(j) PROVE LastFor(k, j)
    <3>1. PatternFor(k, j)
      BY <1>2, <2>2
    <3>2. ASSUME NEW m \in j + 1 .. Len(rules) PROVE ~PatternFor(k, m)
      <4>1. m \in 1 .. Len(rules) /\ ~(m <= j)
        BY <1>0
      <4> QED BY <1>2, <2>2, <4>1
    <3> QED BY <3>1, <3>2 DEF LastFor
  <2> QED BY <2>1, <2>2
<1>5. W # {} => \E j \in W : Last(j)
  <2>1. W \subseteq 1 .. Len(rules)
    BY <1>2
  <2> QED BY <1>0, <2>1, GreatestOf
<1>6. \A i, j \in W : Last(i) /\ Last(j) => i = j
  <2>1. \A i \in W : i \in Nat
    BY <1>0, <1>2
  <2> QED BY <2>1
<1>7. ASSUME NEW j \in W, Last(j) PROVE (CHOOSE i \in W : \A m \in W : m <= i) = j
  <2>1. PICK c : c = CHOOSE i \in W : \A m \in W : m <= i
    OBVIOUS
  <2>2. c \in W /\ Last(c)
    BY <1>7, <2>1
  <2> QED BY <1>6, <1>7, <2>1, <2>2
<1>8. id \in DOMAIN compiled => \E j \in 1 .. Len(rules) : LastFor(k, j)
  BY <1>2, <1>3, <1>4, <1>5
<1>9. ASSUME NEW j \in 1 .. Len(rules), LastFor(k, j)
      PROVE  id \in DOMAIN compiled /\ compiled[id] = rules[j].match
  BY <1>3, <1>4, <1>7, <1>9
<1> QED BY <1>8, <1>9

(***************************************************************************)
(* evalRule reports a rule at exactly the lines it holds at, in order.     *)
(***************************************************************************)
Lists(at, k, f) ==
    /\ at \in Seq(Nat)
    /\ \A j \in 1 .. Len(at) : at[j] \in Positions(f) /\ HoldsAt(k, f, at[j])
    /\ \A n : HoldsAt(k, f, n) => \E j \in 1 .. Len(at) : at[j] = n
    /\ \A j, l \in 1 .. Len(at) : j < l => at[j] < at[l]

LEMMA EvalRuleRight ==
    ASSUME rules \in Seq(Rule), CompiledOK, NEW k \in 1 .. Len(rules), NEW f, f.lines \in Seq(Line)
    PROVE  Lists(EvalRule(rules[k], f.lines), k, f)
<1> DEFINE r == rules[k]
           lines == f.lines
           at == EvalRule(r, lines)
<1> SUFFICES Lists(at, k, f)
  OBVIOUS
<1>0. Len(lines) \in Nat /\ DOMAIN lines = 1 .. Len(lines) /\ DOMAIN rules = 1 .. Len(rules)
  OBVIOUS
<1>1. ASSUME at = <<>>, \A n : ~HoldsAt(k, f, n) PROVE Lists(at, k, f)
  <2> HIDE DEF at
  <2> QED BY <1>1 DEF Lists
<1>2. CASE r.type # "regex"
  BY <1>1, <1>2 DEF EvalRule, HoldsAt
<1>3. CASE r.type = "regex" /\ r.id \notin DOMAIN compiled
  <2>1. at = <<>>
    BY <1>3 DEF EvalRule, EvalRegex
  <2>2. \A n : ~HoldsAt(k, f, n)
    BY <1>0, <1>3, LastPattern DEF HoldsAt
  <2> QED BY <1>1, <2>1, <2>2
<1>4. CASE r.type = "regex" /\ r.id \in DOMAIN compiled
  <2> DEFINE pattern == compiled[r.id]
             Absent == ~MatchString(pattern, lines)
  <2>1. PICK last \in 1 .. Len(rules) : LastFor(k, last)
    BY <1>4, LastPattern
  <2>2. /\ pattern = rules[last].match
        /\ \A i \in 1 .. Len(rules) : LastFor(k, i) => rules[i].match = pattern
    BY <2>1, LastPattern
  <2> HIDE DEF pattern
  <2>3. \A n : HoldsAt(k, f, n) <=>
            IF r.negate THEN n = 1 /\ Absent
            ELSE n \in Read(f) /\ pattern \in lines[n].has /\ ~Suppressed(lines[n], r.id)
    BY <1>0, <1>4, <2>1, <2>2 DEF HoldsAt
  <2>4. CASE r.negate
    <3>1. at = IF Absent THEN <<1>> ELSE <<>>
      BY <1>4, <2>4 DEF EvalRule, EvalRegex, pattern
    <3>2. \A n : HoldsAt(k, f, n) <=> n = 1 /\ Absent
      BY <2>3, <2>4
    <3>3. 1 \in Positions(f)
      BY <1>0 DEF Positions
    <3> HIDE DEF at, Absent
    <3>4. CASE Absent
      <4>1. at \in Seq(Nat) /\ Len(at) = 1 /\ at[1] = 1
        BY <3>1, <3>4
      <4>2. \A j \in 1 .. Len(at) : j = 1
        BY <4>1
      <4> QED BY <3>2, <3>3, <3>4, <4>1, <4>2 DEF Lists
    <3>5. CASE ~Absent
      BY <1>1, <3>1, <3>2, <3>5 DEF at
    <3> QED BY <3>4, <3>5
  <2>5. CASE ~r.negate
    <3> DEFINE S == {n \in ScannedLines(lines) : ~LineIgnored(lines[n], r.id) /\ pattern \in lines[n].has}
    <3>1. at = Ascending(S)
      BY <1>4, <2>5 DEF EvalRule, EvalRegex, pattern
    <3>2. S = {n \in Read(f) : ~Suppressed(lines[n], r.id) /\ pattern \in lines[n].has}
      BY ScannedAreRead DEF LineIgnored, Suppressed
    <3>3. \A n : HoldsAt(k, f, n) <=> n \in S
      BY <2>3, <2>5, <3>2
    <3>4. S \subseteq 1 .. Len(lines)
      BY <1>0, <3>2 DEF Read
    <3> HIDE DEF S
    <3>5. /\ Cardinality(S) \in Nat /\ Ascending(S) \in [1 .. Cardinality(S) -> S]
          /\ \A x \in S : \E i \in 1 .. Cardinality(S) : Ascending(S)[i] = x
          /\ \A i, l \in 1 .. Cardinality(S) : i < l => Ascending(S)[i] < Ascending(S)[l]
      BY <1>0, <3>4, AscendingLists
    <3>6. S \subseteq Nat /\ S \subseteq Positions(f)
      BY <1>0, <3>4 DEF Positions
    <3> HIDE DEF at
    <3>7. at \in Seq(Nat) /\ Len(at) = Cardinality(S) /\ \A i \in 1 .. Len(at) : at[i] \in S
      <4>1. PICK c \in Nat : c = Cardinality(S)
        BY <3>5
      <4>2. at \in [1 .. c -> S] /\ at \in [1 .. c -> Nat]
        BY <3>1, <3>5, <3>6, <4>1
      <4>3. at \in Seq(Nat) /\ Len(at) = c
        BY <4>2
      <4> QED BY <4>1, <4>2, <4>3
    <3>8. \A j \in 1 .. Len(at) : at[j] \in Positions(f) /\ HoldsAt(k, f, at[j])
      BY <3>3, <3>6, <3>7
    <3>9. \A n : HoldsAt(k, f, n) => \E i \in 1 .. Len(at) : at[i] = n
      BY <3>1, <3>3, <3>5, <3>7
    <3>10. \A i, l \in 1 .. Len(at) : i < l => at[i] < at[l]
      BY <3>1, <3>5, <3>7
    <3> QED BY <3>7, <3>8, <3>9, <3>10 DEF Lists
  <2> QED BY <2>4, <2>5
<1> QED BY <1>2, <1>3, <1>4

(***************************************************************************)
(* The start, up to the loops: what is loaded and compiled when a command  *)
(* comes to its loop, and why one of them fails.                           *)
(***************************************************************************)
Finding == [file : Nat, rule : Nat, line : Nat, id : Ids, severity : Severities]

TypeInv ==
    /\ command \in {"engine", "test-rules"}
    /\ dir.readable \in BOOLEAN /\ dir.rules \in Seq(Rule)
    /\ files \in Seq(File)
    /\ rules \in Seq(Rule)
    /\ fileNo \in Nat \ {0} /\ ruleNo \in Nat \ {0}
    /\ findings \in Seq(Finding)
    /\ tests \in [total : Nat, failed : Nat]
    /\ pc \in {"load", "compile", "failed", "file", "rule", "answered", "test", "tested"}

InEngine == pc \in {"file", "rule", "answered"}
InTests == pc \in {"test", "tested"}

StartInv ==
    /\ TypeInv
    /\ pc \in {"load", "compile"} =>
           fileNo = 1 /\ ruleNo = 1 /\ findings = <<>> /\ tests = [total |-> 0, failed |-> 0]
    /\ pc = "compile" /\ command = "test-rules" => dir.readable
    /\ InEngine \/ InTests => Compiles /\ CompiledOK
    /\ InEngine => command = "engine"
    /\ pc = "rule" => fileNo <= Len(files) /\ ~Excluded(files[fileNo])
    /\ InTests => command = "test-rules" /\ dir.readable
    /\ pc = "failed" /\ command = "test-rules" => exit = 2 /\ (~dir.readable \/ ~Compiles)

LEMMA StartInit == Init => StartInv
<1> SUFFICES ASSUME Init PROVE StartInv
  OBVIOUS
<1>1. dir \in RuleDirs \cup TestDirs /\ files \in Seq(File)
  <2>1. FileSets \subseteq Seq(File) /\ <<>> \in Seq(File)
    BY EvaluatorAssumption
  <2> QED BY <2>1 DEF Init
<1>2. dir.readable \in BOOLEAN /\ dir.rules \in Seq(Rule)
  BY <1>1, EvaluatorAssumption
<1> QED BY <1>1, <1>2 DEF Init, StartInv, TypeInv, InEngine, InTests

LEMMA FoundIsFinding ==
    ASSUME TypeInv, ruleNo <= Len(rules), NEW n \in Nat
    PROVE  /\ Found(n) \in Finding /\ Found(n).file = fileNo /\ Found(n).rule = ruleNo /\ Found(n).line = n
           /\ Found(n).severity = rules[ruleNo].severity
<1>1. rules[ruleNo] \in Rule
  BY DEF TypeInv
<1> QED BY <1>1 DEF Found, CurrentRule, Finding, Rule, TypeInv

(* What EvaluateRule adds: the findings of the current rule in the current *)
(* file, in order.                                                         *)
LEMMA FoundByRule ==
    ASSUME StartInv, EvaluateRule
    PROVE  \E at \in Seq(Nat) : \E new \in Seq(Finding) :
               /\ findings' = findings \o new
               /\ Len(new) = Len(at)
               /\ \A j \in 1 .. Len(at) :
                      /\ new[j].file = fileNo /\ new[j].rule = ruleNo /\ new[j].line = at[j]
                      /\ new[j].severity = rules[ruleNo].severity
                      /\ at[j] \in Positions(files[fileNo]) /\ Fires(ruleNo, files[fileNo], at[j])
               /\ \A n : Fires(ruleNo, files[fileNo], n) => \E j \in 1 .. Len(at) : at[j] = n
               /\ \A j, l \in 1 .. Len(at) : j < l => at[j] < at[l]
<1> DEFINE f == files[fileNo]
           r == rules[ruleNo]
           applies == r.enabled /\ LanguageMatches(r, f)
<1>0. /\ TypeInv /\ CompiledOK /\ ruleNo \in 1 .. Len(rules) /\ ruleNo <= Len(rules)
      /\ fileNo <= Len(files) /\ ~Excluded(f)
  BY DEF StartInv, EvaluateRule, InEngine, TypeInv
<1>1. f \in File /\ f.lines \in Seq(Line)
  <2>1. fileNo \in 1 .. Len(files) /\ files \in Seq(File)
    BY <1>0 DEF TypeInv
  <2>2. f \in File
    BY <2>1
  <2> QED BY <2>2 DEF File
<1>2. \A n : Fires(ruleNo, f, n) <=> applies /\ HoldsAt(ruleNo, f, n)
  BY <1>0 DEF Fires, LanguageMatches
<1>3. CASE ~applies
  <2>1. findings' = findings
    BY <1>3 DEF EvaluateRule, CurrentRule, CurrentFile
  <2>2. findings \in Seq(Finding) /\ findings = findings \o <<>>
    BY <1>0 DEF TypeInv
  <2>3. \A n : ~Fires(ruleNo, f, n)
    BY <1>2, <1>3
  <2>4. << >> \in Seq(Nat) /\ << >> \in Seq(Finding) /\ Len(<< >>) = 0
    OBVIOUS
  <2> HIDE DEF f
  <2> WITNESS << >> \in Seq(Nat)
  <2> WITNESS << >> \in Seq(Finding)
  <2> QED BY <2>1, <2>2, <2>3, <2>4 DEF f
<1>4. CASE applies
  <2> DEFINE at == EvalRule(r, f.lines)
             new == [j \in DOMAIN at |-> Found(at[j])]
  <2>1. findings' = findings \o new
    BY <1>4 DEF EvaluateRule, CurrentRule, CurrentFile
  <2>2. Lists(at, ruleNo, f)
    BY <1>0, <1>1, EvalRuleRight DEF TypeInv
  <2> HIDE DEF at, f
  <2>3. at \in Seq(Nat) /\ \A j \in 1 .. Len(at) : at[j] \in Nat
    BY <2>2 DEF Lists
  <2>4. \A j \in 1 .. Len(at) : /\ Found(at[j]) \in Finding /\ Found(at[j]).file = fileNo
                                /\ Found(at[j]).rule = ruleNo /\ Found(at[j]).line = at[j]
                                /\ Found(at[j]).severity = rules[ruleNo].severity
    BY <1>0, <2>3, FoundIsFinding
  <2>5. new \in Seq(Finding) /\ Len(new) = Len(at) /\ \A j \in 1 .. Len(at) : new[j] = Found(at[j])
    <3>1. PICK m \in Nat : m = Len(at) /\ DOMAIN at = 1 .. m
      BY <2>3
    <3>2. new = [j \in 1 .. m |-> Found(at[j])] /\ \A j \in 1 .. m : Found(at[j]) \in Finding
      BY <2>4, <3>1
    <3> QED BY <3>1, <3>2
  <2> HIDE DEF new
  <2>6. \A j \in 1 .. Len(at) : at[j] \in Positions(f) /\ Fires(ruleNo, f, at[j])
    BY <1>2, <1>4, <2>2 DEF Lists
  <2>7. /\ \A n : Fires(ruleNo, f, n) => \E j \in 1 .. Len(at) : at[j] = n
        /\ \A j, l \in 1 .. Len(at) : j < l => at[j] < at[l]
    BY <1>2, <2>2 DEF Lists
  <2>8. \A j \in 1 .. Len(at) : /\ new[j].file = fileNo /\ new[j].rule = ruleNo /\ new[j].line = at[j]
                                /\ new[j].severity = rules[ruleNo].severity
    BY <2>4, <2>5
  <2> QED BY <2>1, <2>3, <2>5, <2>6, <2>7, <2>8 DEF f
<1> QED BY <1>3, <1>4

LEMMA IgnoredIsExcluded ==
    ASSUME TypeInv, fileNo <= Len(files) PROVE FileIgnored(files[fileNo]) <=> Excluded(files[fileNo])
<1>1. files[fileNo] \in File
  BY DEF TypeInv
<1>2. PICK f : f = files[fileNo]
  OBVIOUS
<1>3. f.lines \in Seq(Line)
  BY <1>1, <1>2 DEF File
<1>4. ScannedLines(f.lines) = Read(f)
  BY <1>3, ScannedAreRead
<1> QED BY <1>2, <1>4 DEF FileIgnored, Excluded

(* A rule has at most as many wrong fixtures as it has fixtures, and none  *)
(* when each says what it should.                                          *)
LEMMA WrongBounds ==
    ASSUME NEW r, r.tests.pass \in Seq(Seq(Line)), r.tests.fail \in Seq(Seq(Line))
    PROVE  /\ Wrong(r) \in Nat
           /\ Wrong(r) <= Len(r.tests.pass) + Len(r.tests.fail)
           /\ Wrong(r) = 0 <=> /\ \A i \in 1 .. Len(r.tests.pass) : EvalRule(r, r.tests.pass[i]) = <<>>
                               /\ \A i \in 1 .. Len(r.tests.fail) : EvalRule(r, r.tests.fail[i]) # <<>>
<1> DEFINE P == {i \in DOMAIN r.tests.pass : EvalRule(r, r.tests.pass[i]) # <<>>}
           F == {i \in DOMAIN r.tests.fail : EvalRule(r, r.tests.fail[i]) = <<>>}
<1>1. PICK p, q \in Nat : /\ p = Len(r.tests.pass) /\ DOMAIN r.tests.pass = 1 .. p
                          /\ q = Len(r.tests.fail) /\ DOMAIN r.tests.fail = 1 .. q
  OBVIOUS
<1>2. P \subseteq 1 .. p /\ F \subseteq 1 .. q
  BY <1>1
<1>3. Wrong(r) = Cardinality(P) + Cardinality(F)
  BY DEF Wrong
<1>4. /\ P = {} <=> \A i \in 1 .. p : EvalRule(r, r.tests.pass[i]) = <<>>
      /\ F = {} <=> \A i \in 1 .. q : EvalRule(r, r.tests.fail[i]) # <<>>
  BY <1>1
<1> HIDE DEF P, F
<1>5. ASSUME NEW n \in Nat, NEW S, S \subseteq 1 .. n
      PROVE  Cardinality(S) \in Nat /\ Cardinality(S) <= n /\ (Cardinality(S) = 0 <=> S = {})
  <2>1. IsFiniteSet(1 .. n) /\ Cardinality(1 .. n) = n
    BY FS_Interval
  <2>2. IsFiniteSet(S) /\ Cardinality(S) <= n
    BY <1>5, <2>1, FS_Subset
  <2> QED BY <2>2, FS_CardinalityType, FS_EmptySet
<1>6. /\ Cardinality(P) \in Nat /\ Cardinality(P) <= p /\ (Cardinality(P) = 0 <=> P = {})
      /\ Cardinality(F) \in Nat /\ Cardinality(F) <= q /\ (Cardinality(F) = 0 <=> F = {})
  BY <1>2, <1>5
<1>7. Wrong(r) \in Nat /\ Wrong(r) <= p + q /\ (Wrong(r) = 0 <=> P = {} /\ F = {})
  BY <1>3, <1>6
<1> QED BY <1>1, <1>4, <1>7

LEMMA StartNext == StartInv /\ [Next]_vars => StartInv'
<1> SUFFICES ASSUME StartInv, [Next]_vars PROVE StartInv'
  OBVIOUS
<1>0. TypeInv
  BY DEF StartInv
<1> USE DEF InEngine, InTests
<1>1. CASE LoadRules
  <2>1. TypeInv'
    BY <1>0, <1>1 DEF LoadRules, TypeInv, input, cursor, results
  <2> QED BY <1>1, <2>1 DEF LoadRules, StartInv, input, cursor, results
<1>2. CASE LoadFails
  <2>1. TypeInv'
    BY <1>0, <1>2 DEF LoadFails, TypeInv, input, cursor
  <2> QED BY <1>2, <2>1 DEF LoadFails, StartInv, input, cursor
<1>3. CASE NewEvaluator
  <2>1. TypeInv' /\ rules' = rules /\ Compiles' = Compiles /\ dir' = dir /\ command' = command
    BY <1>0, <1>3 DEF NewEvaluator, TypeInv, input, cursor, results, Compiles, IsRegex
  <2>2. CompiledOK'
    <3>1. compiled' = PatternsOf(rules)
      BY <1>3 DEF NewEvaluator, PatternsOf, Writers, WritersIn
    <3> QED BY <2>1, <3>1 DEF CompiledOK
  <2> QED BY <1>0, <1>3, <2>1, <2>2 DEF NewEvaluator, StartInv, TypeInv
<1>4. CASE NewEvaluatorFails
  <2>1. TypeInv' /\ rules' = rules /\ Compiles' = Compiles
    BY <1>0, <1>4 DEF NewEvaluatorFails, TypeInv, input, cursor, Compiles, IsRegex
  <2> QED BY <1>4, <2>1 DEF NewEvaluatorFails, StartInv, input, cursor
(* Inside the loops. *)
<1>a. ASSUME TypeInv', UNCHANGED <<input, rules, compiled>>,
             (InEngine /\ pc' \in {"file", "rule", "answered"}) \/ (InTests /\ pc' \in {"test", "tested"}),
             pc' = "rule" => fileNo' <= Len(files) /\ ~Excluded(files[fileNo'])
      PROVE  StartInv'
  <2>1. Compiles' = Compiles /\ CompiledOK' = CompiledOK
    BY <1>a DEF Compiles, IsRegex, CompiledOK
  <2> QED BY <1>a, <2>1 DEF StartInv, input
<1>5. CASE IgnoreFile \/ NextFile
  <2>1. TypeInv'
    BY <1>0, <1>5 DEF IgnoreFile, NextFile, AtFile, TypeInv, input, results
  <2> QED BY <1>5, <1>a, <2>1 DEF IgnoreFile, NextFile, AtFile
<1>11. CASE OpenFile
  <2>1. TypeInv'
    BY <1>0, <1>11 DEF OpenFile, AtFile, TypeInv, input, results
  <2>2. ~Excluded(files[fileNo])
    BY <1>0, <1>11, IgnoredIsExcluded DEF OpenFile, CurrentFile, AtFile
  <2> QED BY <1>11, <1>a, <2>1, <2>2 DEF OpenFile, AtFile
<1>6. CASE EvaluateRule
  <2>1. findings' \in Seq(Finding)
    <3>1. PICK new \in Seq(Finding) : findings' = findings \o new
      BY <1>6, FoundByRule
    <3> QED BY <1>0, <3>1 DEF TypeInv
  <2>2. TypeInv'
    BY <1>0, <1>6, <2>1 DEF EvaluateRule, TypeInv, input
  <2>3. /\ fileNo' = fileNo /\ pc' = pc /\ pc = "rule" /\ UNCHANGED <<input, rules, compiled>>
        /\ fileNo <= Len(files) /\ ~Excluded(files[fileNo])
    BY <1>6 DEF EvaluateRule, StartInv
  <2> QED BY <1>a, <2>2, <2>3
<1>7. CASE Answer
  <2>1. TypeInv'
    BY <1>0, <1>7 DEF Answer, TypeInv, input, cursor
  <2> QED BY <1>7, <1>a, <2>1 DEF Answer
<1>8. CASE TestRule
  <2>1. rules[ruleNo] \in Rule
    BY <1>0, <1>8 DEF TestRule, TypeInv
  <2>2. CurrentRule.tests.pass \in Seq(Seq(Line)) /\ CurrentRule.tests.fail \in Seq(Seq(Line))
    BY <2>1 DEF CurrentRule, Rule
  <2>3. Wrong(CurrentRule) \in Nat
    BY <2>2, WrongBounds
  <2>4. tests' \in [total : Nat, failed : Nat]
    <3>1. PICK p, q, w, t, d \in Nat :
              /\ p = Len(CurrentRule.tests.pass) /\ q = Len(CurrentRule.tests.fail)
              /\ w = Wrong(CurrentRule) /\ t = tests.total /\ d = tests.failed
      <4>1. tests.total \in Nat /\ tests.failed \in Nat
        BY <1>0 DEF TypeInv
      <4>2. Len(CurrentRule.tests.pass) \in Nat /\ Len(CurrentRule.tests.fail) \in Nat
        BY <2>2
      <4> QED BY <2>3, <4>1, <4>2, Zenon
    <3>2. tests' = [total |-> t + p + q, failed |-> d + w]
      BY <1>8, <3>1 DEF TestRule
    <3> QED BY <3>2
  <2>5. TypeInv'
    BY <1>0, <1>8, <2>4 DEF TestRule, TypeInv, input
  <2> QED BY <1>8, <1>a, <2>5 DEF TestRule
<1>9. CASE TestsDone
  <2>1. TypeInv'
    BY <1>0, <1>9 DEF TestsDone, TypeInv, input, cursor
  <2> QED BY <1>9, <1>a, <2>1 DEF TestsDone
<1>10. CASE UNCHANGED vars
  <2>1. TypeInv'
    BY <1>0, <1>10 DEF vars, TypeInv, input, cursor, results
  <2>2. Compiles' = Compiles /\ CompiledOK' = CompiledOK
    BY <1>10 DEF vars, Compiles, IsRegex, CompiledOK
  <2> QED BY <1>10, <2>1, <2>2 DEF vars, StartInv, input, cursor, results
<1> QED BY <1>1, <1>2, <1>3, <1>4, <1>5, <1>6, <1>7, <1>8, <1>9, <1>10, <1>11 DEF Next

(***************************************************************************)
(* Evaluate: at every point of its loops the findings are those of the     *)
(* files and rules done, in order.                                         *)
(***************************************************************************)

(* Where each rule fires in each file of the request. *)
Firings ==
    [i \in 1 .. Len(files) |->
        [k \in 1 .. Len(rules) |-> {n \in Positions(files[i]) : Fires(k, files[i], n)}]]

LEMMA SameFirings == UNCHANGED <<files, rules>> => Firings' = Firings
BY DEF Firings, Positions, Fires, Excluded, Read, HoldsAt, LastFor, PatternFor, Suppressed

(* Rule k is done with file i when the loops are at file fn and rule rn. *)
Covered(fn, rn, at, i, k) == i < fn \/ (at = "rule" /\ i = fn /\ k < rn)

Told(fnd, i, k, n) ==
    \E x \in 1 .. Len(fnd) : fnd[x].file = i /\ fnd[x].rule = k /\ fnd[x].line = n

FoundIn(fnd, W, rs, fn, rn, at) ==
    /\ \A x \in 1 .. Len(fnd) :
           /\ fnd[x].file \in DOMAIN W /\ fnd[x].rule \in DOMAIN rs
           /\ Covered(fn, rn, at, fnd[x].file, fnd[x].rule)
           /\ fnd[x].line \in W[fnd[x].file][fnd[x].rule]
           /\ fnd[x].severity = rs[fnd[x].rule].severity
    /\ \A i \in DOMAIN W, k \in DOMAIN rs :
           Covered(fn, rn, at, i, k) => \A n \in W[i][k] : Told(fnd, i, k, n)
    /\ \A x, y \in 1 .. Len(fnd) : x < y => Before(fnd[x], fnd[y])

(* The loops move on past what no rule is reported in. *)
LEMMA LoopsMove ==
    ASSUME NEW fnd, NEW W, NEW rs, NEW fn, NEW rn, NEW at, NEW fn1, NEW rn1, NEW at1,
           FoundIn(fnd, W, rs, fn, rn, at),
           \A i \in DOMAIN W, k \in DOMAIN rs :
               /\ Covered(fn, rn, at, i, k) => Covered(fn1, rn1, at1, i, k)
               /\ Covered(fn1, rn1, at1, i, k) => Covered(fn, rn, at, i, k) \/ W[i][k] = {}
    PROVE  FoundIn(fnd, W, rs, fn1, rn1, at1)
<1>1. \A i \in DOMAIN W, k \in DOMAIN rs :
          Covered(fn1, rn1, at1, i, k) => \A n \in W[i][k] : Told(fnd, i, k, n)
  BY DEF FoundIn
<1> QED BY <1>1 DEF FoundIn

LEMMA Appended ==
    \A s, t \in Seq(Finding) :
        /\ s \o t \in Seq(Finding) /\ Len(s \o t) = Len(s) + Len(t)
        /\ \A x \in 1 .. Len(s) + Len(t) : (s \o t)[x] = IF x <= Len(s) THEN s[x] ELSE t[x - Len(s)]
OBVIOUS

(* Rule rn adds what it is reported at in file fn. *)
LEMMA RuleMoves ==
    ASSUME NEW W, NEW rs, NEW fn \in Nat, NEW rn \in Nat, NEW fnd \in Seq(Finding),
           DOMAIN W \subseteq Nat, DOMAIN rs \subseteq Nat, fn \in DOMAIN W, rn \in DOMAIN rs,
           FoundIn(fnd, W, rs, fn, rn, "rule"),
           NEW at \in Seq(Nat), NEW new \in Seq(Finding), Len(new) = Len(at),
           \A j \in 1 .. Len(at) :
               /\ new[j].file = fn /\ new[j].rule = rn /\ new[j].line = at[j]
               /\ new[j].severity = rs[rn].severity /\ at[j] \in W[fn][rn],
           \A n \in W[fn][rn] : \E j \in 1 .. Len(at) : at[j] = n,
           \A j, l \in 1 .. Len(at) : j < l => at[j] < at[l]
    PROVE  FoundIn(fnd \o new, W, rs, fn, rn + 1, "rule")
<1> DEFINE all == fnd \o new
<1>1. PICK a, b \in Nat : a = Len(fnd) /\ b = Len(at)
  OBVIOUS
<1>2. /\ all \in Seq(Finding) /\ Len(all) = a + b
      /\ \A x \in 1 .. a : all[x] = fnd[x]
      /\ \A x \in a + 1 .. a + b : x - a \in 1 .. b /\ all[x] = new[x - a]
      /\ \A x \in 1 .. b : a + x \in 1 .. a + b /\ all[a + x] = new[x]
  <2>0. /\ all \in Seq(Finding) /\ Len(all) = Len(fnd) + Len(new)
        /\ \A x \in 1 .. Len(fnd) + Len(new) : all[x] = IF x <= Len(fnd) THEN fnd[x] ELSE new[x - Len(fnd)]
    BY Appended, Zenon
  <2>a. Len(fnd) = a /\ Len(new) = b
    BY <1>1
  <2> HIDE DEF all
  <2>1. all \in Seq(Finding) /\ Len(all) = a + b
    BY <2>0, <2>a, Zenon
  <2>2. \A x \in 1 .. a + b : all[x] = IF x <= a THEN fnd[x] ELSE new[x - a]
    BY <2>0, <2>a, Zenon
  <2>3. \A x \in 1 .. a : all[x] = fnd[x]
    BY <2>2
  <2>4. \A x \in a + 1 .. a + b : x - a \in 1 .. b /\ all[x] = new[x - a]
    BY <2>2
  <2>5. ASSUME NEW x \in 1 .. b PROVE a + x \in 1 .. a + b /\ all[a + x] = new[x]
    <3>1. a + x \in 1 .. a + b /\ ~(a + x <= a) /\ a + x - a = x
      OBVIOUS
    <3> QED BY <2>2, <3>1
  <2> QED BY <2>1, <2>3, <2>4, <2>5
<1> HIDE DEF all
<1>3. \A i \in DOMAIN W, k \in DOMAIN rs :
          Covered(fn, rn + 1, "rule", i, k) <=> Covered(fn, rn, "rule", i, k) \/ (i = fn /\ k = rn)
  BY DEF Covered
<1>4. ASSUME NEW x \in 1 .. Len(all)
      PROVE  /\ all[x].file \in DOMAIN W /\ all[x].rule \in DOMAIN rs
             /\ Covered(fn, rn + 1, "rule", all[x].file, all[x].rule)
             /\ all[x].line \in W[all[x].file][all[x].rule]
             /\ all[x].severity = rs[all[x].rule].severity
  <2>1. CASE x \in 1 .. a
    <3>1. /\ fnd[x].file \in DOMAIN W /\ fnd[x].rule \in DOMAIN rs
          /\ Covered(fn, rn, "rule", fnd[x].file, fnd[x].rule)
          /\ fnd[x].line \in W[fnd[x].file][fnd[x].rule]
          /\ fnd[x].severity = rs[fnd[x].rule].severity
      BY <1>1, <2>1, Zenon DEF FoundIn
    <3>2. all[x] = fnd[x]
      BY <1>2, <2>1, Zenon
    <3> QED BY <1>3, <3>1, <3>2, Zenon
  <2>2. CASE x \in a + 1 .. a + b
    <3>1. x - a \in 1 .. b /\ all[x] = new[x - a]
      BY <1>2, <2>2
    <3>2. /\ all[x].file = fn /\ all[x].rule = rn /\ all[x].severity = rs[rn].severity
          /\ all[x].line \in W[fn][rn]
      <4>1. /\ new[x - a].file = fn /\ new[x - a].rule = rn /\ new[x - a].severity = rs[rn].severity
            /\ new[x - a].line \in W[fn][rn]
        <5>1. x - a \in 1 .. Len(at)
          BY <1>1, <3>1
        <5> QED BY <5>1, Zenon
      <4> QED BY <3>1, <4>1, Zenon
    <3> QED BY <1>3, <3>2, Zenon
  <2> QED BY <1>1, <1>2, <2>1, <2>2
<1>5. ASSUME NEW i \in DOMAIN W, NEW k \in DOMAIN rs, Covered(fn, rn + 1, "rule", i, k), NEW n \in W[i][k]
      PROVE  Told(all, i, k, n)
  <2>1. CASE Covered(fn, rn, "rule", i, k)
    <3>1. PICK x \in 1 .. a : fnd[x].file = i /\ fnd[x].rule = k /\ fnd[x].line = n
      BY <1>1, <2>1 DEF FoundIn, Told
    <3>2. all[x] = fnd[x]
      BY <1>2
    <3>3. x \in 1 .. a + b
      OBVIOUS
    <3>4. x \in 1 .. Len(all)
      BY <1>2, <3>3
    <3> QED BY <3>1, <3>2, <3>4 DEF Told
  <2>2. CASE i = fn /\ k = rn
    <3>1. PICK j \in 1 .. b : at[j] = n
      BY <1>1, <2>2
    <3>2. a + j \in 1 .. Len(all) /\ all[a + j] = new[j]
      BY <1>2
    <3>3. new[j].file = i /\ new[j].rule = k /\ new[j].line = n
      BY <1>1, <2>2, <3>1
    <3> QED BY <3>2, <3>3 DEF Told
  <2> QED BY <1>3, <1>5, <2>1, <2>2
<1>6. ASSUME NEW x \in 1 .. Len(all), NEW y \in 1 .. Len(all), x < y PROVE Before(all[x], all[y])
  <2>1. CASE y \in 1 .. a
    <3>1. x \in 1 .. a
      BY <1>1, <1>6, <2>1
    <3> QED BY <1>1, <1>2, <1>6, <2>1, <3>1 DEF FoundIn
  <2>2. CASE y \in a + 1 .. a + b
    <3>1. y - a \in 1 .. b /\ all[y] = new[y - a]
      BY <1>2, <2>2
    <3>2. all[y].file = fn /\ all[y].rule = rn /\ all[y].line = at[y - a]
      BY <1>1, <3>1, SMTT(30)
    <3>3. CASE x \in 1 .. a
      <4>1. all[x] = fnd[x] /\ Covered(fn, rn, "rule", fnd[x].file, fnd[x].rule)
        BY <1>1, <1>2, <3>3 DEF FoundIn
      <4> QED BY <3>2, <4>1 DEF Covered, Before
    <3>4. CASE x \in a + 1 .. a + b
      <4>1. x - a \in 1 .. b /\ all[x] = new[x - a] /\ x - a < y - a
        BY <1>2, <1>6, <2>2, <3>4
      <4>2. all[x].file = fn /\ all[x].rule = rn /\ all[x].line = at[x - a]
        BY <1>1, <4>1, SMTT(30)
      <4>3. at[x - a] < at[y - a]
        BY <1>1, <3>1, <4>1
      <4> QED BY <3>2, <4>2, <4>3 DEF Before
    <3> QED BY <1>1, <1>2, <3>3, <3>4
  <2> QED BY <1>1, <1>2, <2>1, <2>2
<1>7. FoundIn(all, W, rs, fn, rn + 1, "rule")
  BY <1>4, <1>5, <1>6 DEF FoundIn
<1> QED BY <1>7 DEF all

AnswerOK ==
    answer = [blocked |-> SeriousOnes # {}, allowed |-> ~(SeriousOnes # {}),
              errors |-> Sublist(findings, SeriousOnes),
              warnings |-> Sublist(findings, (DOMAIN findings) \ SeriousOnes)]

FoundInv ==
    /\ InEngine => FoundIn(findings, Firings, rules, fileNo, ruleNo, pc)
    /\ pc = "answered" => fileNo > Len(files) /\ AnswerOK

LEMMA FiringsDomains ==
    ASSUME TypeInv
    PROVE  /\ Len(files) \in Nat /\ DOMAIN Firings = 1 .. Len(files)
           /\ Len(rules) \in Nat /\ DOMAIN rules = 1 .. Len(rules)
           /\ \A i \in 1 .. Len(files), k \in 1 .. Len(rules) :
                  Firings[i][k] = {n \in Positions(files[i]) : Fires(k, files[i], n)}
BY DEF Firings, TypeInv

LEMMA FoundNext == StartInv /\ FoundInv /\ [Next]_vars => FoundInv'
<1> SUFFICES ASSUME StartInv, FoundInv, [Next]_vars PROVE FoundInv'
  OBVIOUS
<1> USE DEF InEngine
<1>0. TypeInv /\ fileNo \in Nat /\ ruleNo \in Nat
  BY DEF StartInv, TypeInv
<1> DEFINE nf == Len(files)
           nr == Len(rules)
           W == Firings
<1>d. /\ nf \in Nat /\ DOMAIN W = 1 .. nf /\ nr \in Nat /\ DOMAIN rules = 1 .. nr
      /\ \A i \in 1 .. nf, k \in 1 .. nr : W[i][k] = {n \in Positions(files[i]) : Fires(k, files[i], n)}
  BY <1>0, FiringsDomains
<1>a. ASSUME UNCHANGED <<files, rules>>, pc' \in {"file", "rule"},
             FoundIn(findings', W, rules, fileNo', ruleNo', pc')
      PROVE  FoundInv'
  <2>1. Firings' = W
    BY <1>a, SameFirings
  <2> QED BY <1>a, <2>1 DEF FoundInv
<1> HIDE DEF W
<1>1. CASE LoadRules \/ LoadFails \/ NewEvaluatorFails \/ TestRule \/ TestsDone
  <2>1. pc' \notin {"file", "rule", "answered"}
    BY <1>1 DEF LoadRules, LoadFails, NewEvaluatorFails, TestRule, TestsDone
  <2> QED BY <2>1 DEF FoundInv
<1>2. CASE NewEvaluator
  <2>1. /\ UNCHANGED <<files, rules>> /\ findings' = <<>> /\ fileNo' = 1 /\ pc' \in {"file", "test"}
    BY <1>2 DEF NewEvaluator, StartInv, input, cursor, results
  <2>2. CASE pc' = "test"
    BY <2>2 DEF FoundInv
  <2>3. CASE pc' = "file"
    <3>1. \A i \in DOMAIN W : ~(i < 1)
      BY <1>d
    <3>2. \A i \in DOMAIN W, k \in DOMAIN rules : ~Covered(1, ruleNo', "file", i, k)
      BY <3>1 DEF Covered
    <3>3. FoundIn(<<>>, W, rules, 1, ruleNo', "file")
      BY <3>2 DEF FoundIn
    <3> QED BY <1>a, <2>1, <2>3, <3>3
  <2> QED BY <2>1, <2>2, <2>3
<1>3. CASE IgnoreFile
  <2>1. /\ pc = "file" /\ pc' = "file" /\ fileNo' = fileNo + 1 /\ ruleNo' = ruleNo /\ findings' = findings
        /\ UNCHANGED <<files, rules>> /\ fileNo <= nf
    BY <1>3 DEF IgnoreFile, AtFile, input, results
  <2>2. Excluded(files[fileNo])
    BY <1>0, <1>3, <2>1, IgnoredIsExcluded DEF IgnoreFile, CurrentFile
  <2>3. \A k \in 1 .. nr : \A n : ~Fires(k, files[fileNo], n)
    BY <2>2 DEF Fires
  <2>4. fileNo \in 1 .. nf
    BY <1>0, <1>d, <2>1 DEF TypeInv
  <2>5. \A k \in 1 .. nr : W[fileNo][k] = {}
    BY <1>d, <2>3, <2>4
  <2>6. \A i \in DOMAIN W, k \in DOMAIN rules :
            /\ Covered(fileNo, ruleNo, "file", i, k) => Covered(fileNo + 1, ruleNo, "file", i, k)
            /\ Covered(fileNo + 1, ruleNo, "file", i, k) => Covered(fileNo, ruleNo, "file", i, k) \/ W[i][k] = {}
    BY <1>0, <1>d, <2>5 DEF Covered
  <2>7. FoundIn(findings, W, rules, fileNo, ruleNo, "file")
    BY <2>1 DEF FoundInv, W
  <2>8. FoundIn(findings, W, rules, fileNo + 1, ruleNo, "file")
    BY <2>6, <2>7, LoopsMove
  <2> QED BY <1>a, <2>1, <2>8
<1>4. CASE OpenFile
  <2>1. /\ pc = "file" /\ pc' = "rule" /\ fileNo' = fileNo /\ ruleNo' = 1 /\ findings' = findings
        /\ UNCHANGED <<files, rules>>
    BY <1>4 DEF OpenFile, AtFile, input, results
  <2>2. \A i \in DOMAIN W, k \in DOMAIN rules :
            /\ Covered(fileNo, ruleNo, "file", i, k) => Covered(fileNo, 1, "rule", i, k)
            /\ Covered(fileNo, 1, "rule", i, k) => Covered(fileNo, ruleNo, "file", i, k) \/ W[i][k] = {}
    BY <1>0, <1>d DEF Covered
  <2>3. FoundIn(findings, W, rules, fileNo, ruleNo, "file")
    BY <2>1 DEF FoundInv, W
  <2>4. FoundIn(findings, W, rules, fileNo, 1, "rule")
    BY <2>2, <2>3, LoopsMove
  <2> QED BY <1>a, <2>1, <2>4
<1>5. CASE EvaluateRule
  <2>1. /\ pc = "rule" /\ pc' = "rule" /\ fileNo' = fileNo /\ ruleNo' = ruleNo + 1
        /\ UNCHANGED <<files, rules>> /\ ruleNo <= nr
    BY <1>5 DEF EvaluateRule, input
  <2>2. fileNo \in 1 .. nf /\ ruleNo \in 1 .. nr
    <3>1. fileNo <= nf
      BY <2>1 DEF StartInv
    <3> QED BY <1>0, <1>d, <2>1, <3>1 DEF TypeInv
  <2>3. FoundIn(findings, W, rules, fileNo, ruleNo, "rule")
    BY <2>1 DEF FoundInv, W
  <2>4. PICK at \in Seq(Nat) : \E new \in Seq(Finding) :
               /\ findings' = findings \o new
               /\ Len(new) = Len(at)
               /\ \A j \in 1 .. Len(at) :
                      /\ new[j].file = fileNo /\ new[j].rule = ruleNo /\ new[j].line = at[j]
                      /\ new[j].severity = rules[ruleNo].severity
                      /\ at[j] \in Positions(files[fileNo]) /\ Fires(ruleNo, files[fileNo], at[j])
               /\ \A n : Fires(ruleNo, files[fileNo], n) => \E j \in 1 .. Len(at) : at[j] = n
               /\ \A j, l \in 1 .. Len(at) : j < l => at[j] < at[l]
    BY <1>5, FoundByRule
  <2>5. PICK new \in Seq(Finding) :
               /\ findings' = findings \o new
               /\ Len(new) = Len(at)
               /\ \A j \in 1 .. Len(at) :
                      /\ new[j].file = fileNo /\ new[j].rule = ruleNo /\ new[j].line = at[j]
                      /\ new[j].severity = rules[ruleNo].severity
                      /\ at[j] \in Positions(files[fileNo]) /\ Fires(ruleNo, files[fileNo], at[j])
               /\ \A n : Fires(ruleNo, files[fileNo], n) => \E j \in 1 .. Len(at) : at[j] = n
               /\ \A j, l \in 1 .. Len(at) : j < l => at[j] < at[l]
    BY <2>4
  <2>6. W[fileNo][ruleNo] = {n \in Positions(files[fileNo]) : Fires(ruleNo, files[fileNo], n)}
    BY <1>d, <2>2
  <2>7. /\ \A j \in 1 .. Len(at) :
               /\ new[j].file = fileNo /\ new[j].rule = ruleNo /\ new[j].line = at[j]
               /\ new[j].severity = rules[ruleNo].severity /\ at[j] \in W[fileNo][ruleNo]
        /\ \A n \in W[fileNo][ruleNo] : \E j \in 1 .. Len(at) : at[j] = n
    BY <2>5, <2>6
  <2>8. /\ DOMAIN W \subseteq Nat /\ DOMAIN rules \subseteq Nat /\ fileNo \in DOMAIN W /\ ruleNo \in DOMAIN rules
    BY <1>d, <2>2
  <2>9. findings \in Seq(Finding)
    BY <1>0 DEF TypeInv
  <2>10. FoundIn(findings \o new, W, rules, fileNo, ruleNo + 1, "rule")
    BY <1>0, <2>3, <2>5, <2>7, <2>8, <2>9, RuleMoves
  <2> QED BY <1>a, <2>1, <2>5, <2>10
<1>6. CASE NextFile
  <2>1. /\ pc = "rule" /\ pc' = "file" /\ fileNo' = fileNo + 1 /\ ruleNo' = ruleNo /\ findings' = findings
        /\ UNCHANGED <<files, rules>> /\ ruleNo > nr
    BY <1>6 DEF NextFile, input, results
  <2>2. \A i \in DOMAIN W, k \in DOMAIN rules :
            Covered(fileNo, ruleNo, "rule", i, k) <=> Covered(fileNo + 1, ruleNo, "file", i, k)
    BY <1>0, <1>d, <2>1 DEF Covered
  <2>3. FoundIn(findings, W, rules, fileNo, ruleNo, "rule")
    BY <2>1 DEF FoundInv, W
  <2>4. FoundIn(findings, W, rules, fileNo + 1, ruleNo, "file")
    BY <2>2, <2>3, LoopsMove
  <2> QED BY <1>a, <2>1, <2>4
<1>7. CASE Answer
  <2>1. /\ pc = "file" /\ pc' = "answered" /\ UNCHANGED <<files, rules, fileNo, ruleNo, findings>>
        /\ fileNo > nf
    BY <1>7 DEF Answer, input, cursor
  <2>2. AnswerOK'
    <3>1. /\ SeriousOnes' = SeriousOnes /\ Sublist(findings, SeriousOnes)' = Sublist(findings, SeriousOnes)
          /\ Sublist(findings, (DOMAIN findings) \ SeriousOnes)' = Sublist(findings, (DOMAIN findings) \ SeriousOnes)
      BY <2>1 DEF SeriousOnes, Sublist, Serious, Ascending
    <3>2. answer' = [blocked |-> SeriousOnes # {}, allowed |-> ~(SeriousOnes # {}),
                     errors |-> Sublist(findings, SeriousOnes),
                     warnings |-> Sublist(findings, (DOMAIN findings) \ SeriousOnes)]
      BY <1>7 DEF Answer
    <3> QED BY <3>1, <3>2 DEF AnswerOK
  <2>3. FoundIn(findings, W, rules, fileNo, ruleNo, "file")
    BY <2>1 DEF FoundInv, W
  <2>4. \A i \in DOMAIN W, k \in DOMAIN rules :
            Covered(fileNo, ruleNo, "file", i, k) <=> Covered(fileNo, ruleNo, "answered", i, k)
    BY DEF Covered
  <2>5. FoundIn(findings, W, rules, fileNo, ruleNo, "answered")
    BY <2>3, <2>4, LoopsMove
  <2>6. Firings' = W
    BY <2>1, SameFirings DEF W
  <2> QED BY <2>1, <2>2, <2>5, <2>6 DEF FoundInv
<1>8. CASE UNCHANGED vars
  <2>1. UNCHANGED <<files, rules, fileNo, ruleNo, findings, answer, pc>>
    BY <1>8 DEF vars, input, cursor, results
  <2>2. Firings' = Firings
    BY <2>1, SameFirings
  <2>3. AnswerOK' = AnswerOK
    BY <2>1 DEF AnswerOK, SeriousOnes, Sublist, Serious, Ascending
  <2> QED BY <2>1, <2>2, <2>3 DEF FoundInv
<1> QED BY <1>1, <1>2, <1>3, <1>4, <1>5, <1>6, <1>7, <1>8 DEF Next

LEMMA EvaluatorInvariant == Spec => [](StartInv /\ FoundInv)
<1>1. Init => StartInv /\ FoundInv
  BY StartInit DEF Init, FoundInv, InEngine
<1> QED BY <1>1, StartNext, FoundNext, PTL DEF Spec

(* The findings of an answer are exactly the lines the rules fire on, once *)
(* each and in order.                                                      *)
LEMMA AnsweredFindings ==
    ASSUME StartInv, FoundInv, pc = "answered"
    PROVE  /\ \A i \in DOMAIN files, k \in DOMAIN rules : \A n \in Positions(files[i]) :
                  HasFinding(i, k, n) <=> Fires(k, files[i], n)
           /\ \A x, y \in 1 .. Len(findings) : x < y => Before(findings[x], findings[y])
           /\ \A x \in 1 .. Len(findings) :
                  /\ findings[x].file \in DOMAIN files /\ findings[x].rule \in DOMAIN rules
                  /\ findings[x].line \in Positions(files[findings[x].file])
                  /\ Fires(findings[x].rule, files[findings[x].file], findings[x].line)
                  /\ findings[x].severity = rules[findings[x].rule].severity
<1>0. TypeInv
  BY DEF StartInv
<1>1. FoundIn(findings, Firings, rules, fileNo, ruleNo, "answered") /\ fileNo > Len(files)
  BY DEF FoundInv, InEngine
<1>2. /\ Len(files) \in Nat /\ DOMAIN Firings = 1 .. Len(files) /\ DOMAIN files = 1 .. Len(files)
      /\ DOMAIN rules = 1 .. Len(rules) /\ DOMAIN findings = 1 .. Len(findings) /\ fileNo \in Nat
      /\ \A i \in 1 .. Len(files), k \in 1 .. Len(rules) :
             Firings[i][k] = {n \in Positions(files[i]) : Fires(k, files[i], n)}
  BY <1>0, FiringsDomains DEF TypeInv
<1>3. \A i \in 1 .. Len(files), k \in 1 .. Len(rules) : Covered(fileNo, ruleNo, "answered", i, k)
  BY <1>1, <1>2 DEF Covered
<1>4. ASSUME NEW x \in 1 .. Len(findings)
      PROVE  /\ findings[x].file \in DOMAIN files /\ findings[x].rule \in DOMAIN rules
             /\ findings[x].line \in Positions(files[findings[x].file])
             /\ Fires(findings[x].rule, files[findings[x].file], findings[x].line)
             /\ findings[x].severity = rules[findings[x].rule].severity
  <2>1. /\ findings[x].file \in DOMAIN Firings /\ findings[x].rule \in DOMAIN rules
        /\ findings[x].line \in Firings[findings[x].file][findings[x].rule]
        /\ findings[x].severity = rules[findings[x].rule].severity
    BY <1>1 DEF FoundIn
  <2> QED BY <1>2, <2>1
<1>5. ASSUME NEW i \in DOMAIN files, NEW k \in DOMAIN rules, NEW n \in Positions(files[i]), Fires(k, files[i], n)
      PROVE  HasFinding(i, k, n)
  <2>1. n \in Firings[i][k] /\ Covered(fileNo, ruleNo, "answered", i, k)
    BY <1>2, <1>3, <1>5
  <2>2. Told(findings, i, k, n)
    BY <1>1, <1>2, <2>1 DEF FoundIn
  <2> QED BY <1>2, <2>2 DEF Told, HasFinding
<1>6. ASSUME NEW i, NEW k, NEW n, HasFinding(i, k, n) PROVE Fires(k, files[i], n)
  BY <1>2, <1>4, <1>6 DEF HasFinding
<1>7. \A x, y \in 1 .. Len(findings) : x < y => Before(findings[x], findings[y])
  BY <1>1 DEF FoundIn
<1> QED BY <1>4, <1>5, <1>6, <1>7

(* Evaluate reports exactly the lines each rule fires on, each once and in  *)
(* the order of files, rules and lines (evaluator.go:44-127), for any rules *)
(* and files.                                                              *)
THEOREM FindingsAreExact == Spec => []FindingsExact
<1>1. ASSUME StartInv, FoundInv PROVE FindingsExact
  <2>1. Len(findings) \in Nat
    BY <1>1 DEF StartInv, TypeInv
  <2>2. ASSUME pc = "answered", NEW x \in 1 .. Len(findings) - 1 PROVE Before(findings[x], findings[x + 1])
    <3>1. x \in 1 .. Len(findings) /\ x + 1 \in 1 .. Len(findings) /\ x < x + 1
      BY <2>1
    <3> QED BY <1>1, <2>2, <3>1, AnsweredFindings
  <2> QED BY <1>1, <2>2, AnsweredFindings DEF FindingsExact
<1> QED BY <1>1, EvaluatorInvariant, PTL

(* The lists of the answer have one finding for each place. *)
LEMMA SublistLen ==
    ASSUME TypeInv, NEW S, S \subseteq 1 .. Len(findings)
    PROVE  Len(Sublist(findings, S)) = Cardinality(S)
<1>1. Len(findings) \in Nat
  BY DEF TypeInv
<1>2. PICK c \in Nat : c = Cardinality(S)
  BY <1>1, AscendingLists
<1>3. Sublist(findings, S) = [j \in 1 .. c |-> findings[Ascending(S)[j]]]
  BY <1>2 DEF Sublist
<1> QED BY <1>2, <1>3

(* A request is blocked exactly when a critical or high rule fires in it,  *)
(* and no finding is left out of the answer (engine.go:80-105).            *)
THEOREM VerdictsAreRight == Spec => []VerdictRight
<1>1. ASSUME StartInv, FoundInv PROVE VerdictRight
  <2> SUFFICES ASSUME pc = "answered" PROVE VerdictRight
    BY DEF VerdictRight
  <2>0. TypeInv /\ AnswerOK
    BY <1>1 DEF StartInv, FoundInv
  <2>1. /\ answer.blocked = (SeriousOnes # {}) /\ answer.allowed = ~(SeriousOnes # {})
        /\ answer.errors = Sublist(findings, SeriousOnes)
        /\ answer.warnings = Sublist(findings, (DOMAIN findings) \ SeriousOnes)
    BY <2>0 DEF AnswerOK
  <2>2. PICK m \in Nat : m = Len(findings) /\ DOMAIN findings = 1 .. m
    BY <2>0 DEF TypeInv
  <2>3. SeriousOnes = {x \in 1 .. m : findings[x].severity \in {"critical", "high"}}
    BY <2>2 DEF SeriousOnes, Serious
  <2>4. ASSUME NEW x \in SeriousOnes
        PROVE  \E i \in DOMAIN files, k \in DOMAIN rules :
                   Serious(rules[k]) /\ \E n \in Positions(files[i]) : Fires(k, files[i], n)
    <3>1. x \in 1 .. Len(findings) /\ findings[x].severity \in {"critical", "high"}
      BY <2>2, <2>3
    <3>2. /\ findings[x].file \in DOMAIN files /\ findings[x].rule \in DOMAIN rules
          /\ findings[x].line \in Positions(files[findings[x].file])
          /\ Fires(findings[x].rule, files[findings[x].file], findings[x].line)
          /\ findings[x].severity = rules[findings[x].rule].severity
      BY <1>1, <3>1, AnsweredFindings
    <3>3. Serious(rules[findings[x].rule])
      BY <3>1, <3>2 DEF Serious
    <3> QED BY <3>2, <3>3
  <2>5. ASSUME NEW i \in DOMAIN files, NEW k \in DOMAIN rules, Serious(rules[k]),
               NEW n \in Positions(files[i]), Fires(k, files[i], n)
        PROVE  SeriousOnes # {}
    <3>1. HasFinding(i, k, n)
      BY <1>1, <2>5, AnsweredFindings
    <3>2. PICK x \in 1 .. m : findings[x].rule = k
      BY <2>2, <3>1 DEF HasFinding
    <3>3. findings[x].severity = rules[k].severity
      BY <1>1, <2>2, <3>2, AnsweredFindings
    <3>4. x \in SeriousOnes
      BY <2>3, <2>5, <3>3 DEF Serious
    <3> QED BY <3>4
  <2>6. Len(answer.errors) + Len(answer.warnings) = Len(findings)
    <3>1. PICK S : S = SeriousOnes
      OBVIOUS
    <3>2. S \subseteq 1 .. m /\ (1 .. m) \ S \subseteq 1 .. m
      BY <2>3, <3>1
    <3>3. Len(answer.errors) = Cardinality(S) /\ Len(answer.warnings) = Cardinality((1 .. m) \ S)
      <4>1. Len(Sublist(findings, S)) = Cardinality(S) /\ Len(Sublist(findings, (1 .. m) \ S)) = Cardinality((1 .. m) \ S)
        <5>1. S \subseteq 1 .. Len(findings) /\ (1 .. m) \ S \subseteq 1 .. Len(findings)
          BY <2>2, <3>2
        <5> QED BY <2>0, <5>1, SublistLen, Zenon
      <4>2. answer.errors = Sublist(findings, S)
        BY <2>1, <3>1, Zenon
      <4>3. (DOMAIN findings) \ SeriousOnes = (1 .. m) \ S
        BY <2>2, <3>1, Zenon
      <4>4. answer.warnings = Sublist(findings, (1 .. m) \ S)
        BY <2>1, <4>3, Zenon
      <4> QED BY <4>1, <4>2, <4>4, Zenon
    <3>4. IsFiniteSet(1 .. m) /\ Cardinality(1 .. m) = m
      BY FS_Interval
    <3>5. (1 .. m) \cap S = S /\ IsFiniteSet(S)
      BY <3>2, <3>4, FS_Subset
    <3>6. Cardinality((1 .. m) \ S) = m - Cardinality(S)
      <4>1. Cardinality((1 .. m) \ S) = Cardinality(1 .. m) - Cardinality((1 .. m) \cap S)
        BY <3>4, FS_Difference, Zenon
      <4> QED BY <3>4, <3>5, <4>1, Zenon
    <3>7. Cardinality(S) \in Nat
      BY <3>5, FS_CardinalityType
    <3> QED BY <2>2, <3>3, <3>6, <3>7
  <2> HIDE DEF SeriousOnes
  <2> QED BY <2>1, <2>4, <2>5, <2>6 DEF VerdictRight
<1> QED BY <1>1, EvaluatorInvariant, PTL

(***************************************************************************)
(* litd test-rules: no fixture failed as long as every rule run so far is  *)
(* right about its own.                                                    *)
(***************************************************************************)
RightRules ==
    {k \in 1 .. Len(rules) :
        /\ \A i \in 1 .. Len(rules[k].tests.pass) : EvalRule(rules[k], rules[k].tests.pass[i]) = <<>>
        /\ \A i \in 1 .. Len(rules[k].tests.fail) : EvalRule(rules[k], rules[k].tests.fail[i]) # <<>>}

LEMMA SameRight == UNCHANGED <<rules, compiled>> => RightRules' = RightRules
<1>1. ASSUME UNCHANGED compiled, NEW r, NEW text PROVE EvalRule(r, text)' = EvalRule(r, text)
  BY <1>1 DEF EvalRule, EvalRegex, ScannedLines, LineIgnored, Ascending, Scanned
<1> QED BY <1>1 DEF RightRules

TestInv ==
    InTests =>
        /\ tests.failed <= tests.total
        /\ tests.failed = 0 <=> \A k \in 1 .. Len(rules) : k < ruleNo => k \in RightRules
        /\ pc = "tested" => ruleNo > Len(rules) /\ exit = (IF tests.failed > 0 THEN 1 ELSE 0)

LEMMA TestNext == StartInv /\ TestInv /\ [Next]_vars => TestInv'
<1> SUFFICES ASSUME StartInv, TestInv, [Next]_vars PROVE TestInv'
  OBVIOUS
<1> USE DEF InTests
<1>0. TypeInv
  BY DEF StartInv
<1>1. CASE LoadRules \/ LoadFails \/ NewEvaluatorFails \/ IgnoreFile \/ OpenFile \/ EvaluateRule \/ NextFile \/ Answer
  <2>1. pc' \notin {"test", "tested"}
    BY <1>1 DEF LoadRules, LoadFails, NewEvaluatorFails, IgnoreFile, OpenFile, AtFile, EvaluateRule, NextFile, Answer
  <2> QED BY <2>1 DEF TestInv
<1>2. CASE NewEvaluator
  <2>1. /\ tests' = [total |-> 0, failed |-> 0] /\ ruleNo' = 1 /\ rules' = rules /\ pc' \in {"file", "test"}
    BY <1>2 DEF NewEvaluator, StartInv, cursor, results
  <2>2. \A k \in 1 .. Len(rules') : ~(k < ruleNo')
    BY <1>0, <2>1 DEF TypeInv
  <2> QED BY <2>1, <2>2 DEF TestInv
<1>3. CASE TestRule
  <2>1. /\ pc = "test" /\ pc' = "test" /\ UNCHANGED <<rules, compiled>>
        /\ ruleNo' = ruleNo + 1 /\ ruleNo <= Len(rules)
    BY <1>3 DEF TestRule
  <2>2. ruleNo \in 1 .. Len(rules) /\ Len(rules) \in Nat /\ ruleNo \in Nat /\ rules[ruleNo] \in Rule
    BY <1>0, <2>1 DEF TypeInv
  <2>3. CurrentRule = rules[ruleNo] /\ CurrentRule.tests.pass \in Seq(Seq(Line)) /\ CurrentRule.tests.fail \in Seq(Seq(Line))
    BY <2>2 DEF CurrentRule, Rule
  <2>4. /\ Wrong(CurrentRule) \in Nat
        /\ Wrong(CurrentRule) <= Len(CurrentRule.tests.pass) + Len(CurrentRule.tests.fail)
        /\ Wrong(CurrentRule) = 0 <=> ruleNo \in RightRules
    BY <2>2, <2>3, WrongBounds DEF RightRules
  <2>5. PICK p, q, w, t, d \in Nat :
            /\ p = Len(CurrentRule.tests.pass) /\ q = Len(CurrentRule.tests.fail)
            /\ w = Wrong(CurrentRule) /\ t = tests.total /\ d = tests.failed
    <3>1. tests.total \in Nat /\ tests.failed \in Nat
      BY <1>0 DEF TypeInv
    <3>2. Len(CurrentRule.tests.pass) \in Nat /\ Len(CurrentRule.tests.fail) \in Nat
      BY <2>3
    <3> QED BY <2>4, <3>1, <3>2, Zenon
  <2>6. tests' = [total |-> t + p + q, failed |-> d + w]
    BY <1>3, <2>5 DEF TestRule
  <2>7. d <= t /\ w <= p + q /\ (w = 0 <=> ruleNo \in RightRules)
    BY <2>1, <2>4, <2>5 DEF TestInv
  <2>8. tests'.failed <= tests'.total /\ (tests'.failed = 0 <=> d = 0 /\ w = 0)
    BY <2>6, <2>7
  <2>9. d = 0 <=> \A k \in 1 .. Len(rules) : k < ruleNo => k \in RightRules
    BY <2>1, <2>5 DEF TestInv
  <2>10. (\A k \in 1 .. Len(rules) : k < ruleNo + 1 => k \in RightRules) <=> d = 0 /\ w = 0
    <3>1. \A k \in 1 .. Len(rules) : k < ruleNo + 1 <=> k < ruleNo \/ k = ruleNo
      BY <2>2
    <3> QED BY <2>2, <2>7, <2>9, <3>1
  <2>11. RightRules' = RightRules
    BY <2>1, SameRight
  <2> QED BY <2>1, <2>8, <2>10, <2>11 DEF TestInv
<1>4. CASE TestsDone
  <2>1. /\ pc = "test" /\ pc' = "tested" /\ UNCHANGED <<rules, compiled, ruleNo, tests>> /\ ruleNo > Len(rules)
        /\ exit' = IF tests.total > 0 /\ tests.failed > 0 THEN 1 ELSE 0
    BY <1>4 DEF TestsDone, cursor
  <2>2. tests.failed > 0 => tests.total > 0
    <3>1. tests.failed \in Nat /\ tests.total \in Nat /\ tests.failed <= tests.total
      BY <1>0, <2>1 DEF TypeInv, TestInv
    <3> QED BY <3>1
  <2>3. RightRules' = RightRules
    BY <2>1, SameRight
  <2> QED BY <2>1, <2>2, <2>3 DEF TestInv
<1>5. CASE UNCHANGED vars
  <2>1. UNCHANGED <<rules, compiled, ruleNo, tests, exit, pc>>
    BY <1>5 DEF vars, cursor, results
  <2>2. RightRules' = RightRules
    BY <2>1, SameRight
  <2> QED BY <2>1, <2>2 DEF TestInv
<1> QED BY <1>1, <1>2, <1>3, <1>4, <1>5 DEF Next

(* evalRule finds nothing in a text exactly when the rule holds nowhere.   *)
LEMMA FindsNothing ==
    ASSUME TypeInv, CompiledOK, NEW k \in 1 .. Len(rules), NEW text \in Seq(Line)
    PROVE  EvalRule(rules[k], text) = <<>> <=>
               ~\E n \in Positions([lines |-> text]) : HoldsAt(k, [lines |-> text], n)
<1> DEFINE at == EvalRule(rules[k], text)
<1>1. PICK f : f = [lines |-> text]
  OBVIOUS
<1>2. f.lines = text
  BY <1>1
<1>3. Lists(at, k, f)
  BY <1>2, EvalRuleRight DEF TypeInv
<1> HIDE DEF at
<1>4. at = <<>> <=> Len(at) = 0
  BY <1>3 DEF Lists
<1>5. Len(at) \in Nat
  BY <1>3 DEF Lists
<1>6. CASE Len(at) = 0
  <2>1. \A n : ~HoldsAt(k, f, n)
    BY <1>3, <1>6 DEF Lists
  <2> QED BY <1>1, <1>4, <1>6, <2>1 DEF at
<1>7. CASE Len(at) # 0
  <2>1. 1 \in 1 .. Len(at)
    BY <1>5, <1>7
  <2>2. at[1] \in Positions(f) /\ HoldsAt(k, f, at[1])
    BY <1>3, <2>1 DEF Lists
  <2> QED BY <1>1, <1>4, <1>7, <2>2 DEF at
<1> QED BY <1>6, <1>7

(* litd test-rules ends with 0 exactly when every rule is right about its  *)
(* own fixtures, and with 2 exactly when the rules cannot be loaded or     *)
(* compiled (testrules.go:16-64), for any rules and fixtures.              *)
THEOREM TestsExitCodeRight == Spec => []TestsExitRight
<1>1. Init => TestInv
  BY DEF Init, TestInv, InTests
<1>2. Spec => []TestInv
  <2>1. TestInv /\ StartInv /\ StartInv' /\ [Next]_vars => TestInv'
    BY TestNext
  <2>2. Spec => []StartInv
    BY EvaluatorInvariant, PTL
  <2> QED BY <1>1, <2>1, <2>2, PTL DEF Spec
<1>3. ASSUME StartInv, TestInv PROVE TestsExitRight
  <2> DEFINE Holds(k, text) == \E n \in Positions([lines |-> text]) : HoldsAt(k, [lines |-> text], n)
             unfit == ~dir.readable \/ \E k \in DOMAIN rules : rules[k].type = "regex" /\ rules[k].match = BadPattern
             AllRight == \A k \in DOMAIN rules :
                             /\ \A i \in DOMAIN rules[k].tests.pass : ~Holds(k, rules[k].tests.pass[i])
                             /\ \A i \in DOMAIN rules[k].tests.fail : Holds(k, rules[k].tests.fail[i])
  <2> SUFFICES ASSUME command = "test-rules", pc \in {"tested", "failed"}
               PROVE  IF unfit THEN exit = 2 ELSE exit = (IF AllRight THEN 0 ELSE 1)
    BY DEF TestsExitRight
  <2>0. TypeInv
    BY <1>3 DEF StartInv
  <2>1. unfit <=> ~dir.readable \/ ~Compiles
    BY EvaluatorAssumption DEF Compiles, IsRegex
  <2> HIDE DEF unfit
  <2>2. CASE pc = "failed"
    BY <1>3, <2>1, <2>2 DEF StartInv
  <2>3. CASE pc = "tested"
    <3>1. ~unfit /\ CompiledOK
      BY <1>3, <2>1, <2>3 DEF StartInv, InTests
    <3>2. /\ ruleNo > Len(rules) /\ exit = (IF tests.failed > 0 THEN 1 ELSE 0)
          /\ tests.failed = 0 <=> \A k \in 1 .. Len(rules) : k < ruleNo => k \in RightRules
      BY <1>3, <2>3 DEF TestInv, InTests
    <3>3. tests.failed \in Nat /\ Len(rules) \in Nat /\ ruleNo \in Nat /\ DOMAIN rules = 1 .. Len(rules)
      BY <2>0 DEF TypeInv
    <3>4. tests.failed = 0 <=> \A k \in 1 .. Len(rules) : k \in RightRules
      <4>1. \A k \in 1 .. Len(rules) : k < ruleNo
        BY <3>2, <3>3
      <4> QED BY <3>2, <4>1
    <3>5. ASSUME NEW k \in 1 .. Len(rules)
          PROVE  k \in RightRules <=>
                     /\ \A i \in DOMAIN rules[k].tests.pass : ~Holds(k, rules[k].tests.pass[i])
                     /\ \A i \in DOMAIN rules[k].tests.fail : Holds(k, rules[k].tests.fail[i])
      <4>1. PICK p, q \in Seq(Seq(Line)) : p = rules[k].tests.pass /\ q = rules[k].tests.fail
        <5>1. rules[k] \in Rule
          BY <2>0 DEF TypeInv
        <5>2. rules[k].tests.pass \in Seq(Seq(Line)) /\ rules[k].tests.fail \in Seq(Seq(Line))
          BY <5>1 DEF Rule
        <5> QED BY <5>2, Zenon
      <4>2. /\ DOMAIN p = 1 .. Len(p) /\ \A i \in DOMAIN p : p[i] \in Seq(Line)
            /\ DOMAIN q = 1 .. Len(q) /\ \A i \in DOMAIN q : q[i] \in Seq(Line)
        BY <4>1
      <4>3. \A text \in Seq(Line) : EvalRule(rules[k], text) = <<>> <=> ~Holds(k, text)
        BY <2>0, <3>1, FindsNothing
      <4> HIDE DEF Holds
      <4>4. k \in RightRules <=> /\ \A i \in DOMAIN p : EvalRule(rules[k], p[i]) = <<>>
                                 /\ \A i \in DOMAIN q : EvalRule(rules[k], q[i]) # <<>>
        BY <4>1, <4>2 DEF RightRules
      <4>5. /\ \A i \in DOMAIN p : EvalRule(rules[k], p[i]) = <<>> <=> ~Holds(k, p[i])
            /\ \A i \in DOMAIN q : EvalRule(rules[k], q[i]) = <<>> <=> ~Holds(k, q[i])
        BY <4>2, <4>3
      <4> QED BY <4>1, <4>4, <4>5
    <3>6. AllRight <=> \A k \in 1 .. Len(rules) : k \in RightRules
      BY <3>3, <3>5
    <3> HIDE DEF AllRight
    <3> QED BY <3>1, <3>2, <3>3, <3>4, <3>6
  <2> QED BY <2>2, <2>3
<1> QED BY <1>2, <1>3, EvaluatorInvariant, PTL
=============================================================================
