---------------------------- MODULE CheckCommand ----------------------------
(***************************************************************************)
(* litd check (cmd/litd/check.go), the analysis run in one process: the    *)
(* command line, its merge with .litd.yaml, choice of the files, the three *)
(* analysers, the limit, the summary (models.NewSummary), the report and   *)
(* the exit code.                                                          *)
(*                                                                         *)
(* A file is what the command tells of it: where Walk meets it, what git   *)
(* says of it, and what each analyser would find in it.                    *)
(***************************************************************************)
EXTENDS Summary, Entropy, Deps

CONSTANTS Paths,             \* the paths of files
          WalkOrder,         \* the same as a sequence, in the order of filepath.Walk
          Prefixes,          \* non-empty strings that can be excluded
          NoPrefix,          \* the empty string in an exclude list
          Lines, Configs, Scenes   \* the inputs considered

Unset == ""

IsFlags(f) ==
    /\ f.max \in Int /\ f.threshold \in Int /\ f.changed \in BOOLEAN
    /\ f.exclude \subseteq Prefixes \cup {NoPrefix}
    /\ f.noEntropy \in {Unset, "true", "false"}
    /\ f.noDeps \in {Unset, "true", "false"}

ASSUME CheckAssumption ==
    /\ IsFiniteSet(Paths)
    /\ WalkOrder \in [1 .. Cardinality(Paths) -> Paths]
    /\ \A x \in Paths : \E i \in DOMAIN WalkOrder : WalkOrder[i] = x
    /\ NoPrefix \notin Prefixes
    /\ \A l \in Lines : /\ IsFlags(l.before) /\ IsFlags(l.after)
                        /\ l.stop \in {"none", "bad", "help"}
    /\ \A c \in Configs : /\ c.threshold \in Int
                          /\ c.noEntropy \in BOOLEAN /\ c.noDeps \in BOOLEAN
                          /\ c.exclude \subseteq Prefixes \cup {NoPrefix}
    /\ \A s \in Scenes :
           /\ s.root \in {"plain", "missing", "skipped"} /\ s.top \in BOOLEAN /\ s.git \in BOOLEAN
           /\ \A d \in DOMAIN s.rules : s.rules[d] \in {"ok", "missing", "bad"}
           /\ \A x \in Paths :
                  /\ s.file[x].place \in {"tree", "skipdir"}
                  /\ s.file[x].kind \in {"text", "binary", "large", "unreadable"}
                  /\ s.file[x].prefixes \subseteq Prefixes
                  /\ s.file[x].diff \subseteq {"HEAD", "cached"}
                  /\ s.file[x].rule \in Seq(Severities)
                  /\ s.file[x].lines \in Seq(EntropyLines)
                  /\ s.file[x].manifest \in Manifests

(* A command line: the flags given before its first word, which names the  *)
(* directory, and those after it; stop is "bad" or "help" if one of the    *)
(* former is unknown, has a bad value or asks for help.                    *)
VARIABLES args, cfg, scene,    \* the input
          flags,     \* the flags the command has parsed
          opt,       \* the flags after the merge
          loaded,    \* were rules loaded
          files,     \* the files to scan
          next,      \* the one the current loop is at
          findings, summary, printed, exit,
          pc

input == <<args, cfg, scene>>
vars == <<input, flags, opt, loaded, files, next, findings, summary, printed, exit, pc>>

Info(x) == scene.file[x]

(***************************************************************************)
(* 0. The merge of .litd.yaml                                              *)
(***************************************************************************)
Or(flag, config, default) ==
    IF flag # Unset THEN flag ELSE IF config # Unset THEN config ELSE default

OrNumber(flag, config, default) ==
    IF flag # 0 THEN flag ELSE IF config # 0 THEN config ELSE default

(* A missing or unreadable .litd.yaml is a config of zero values. A Boolean *)
(* of the config can set a flag and never clear it.                        *)
Merged ==
    [rules     |-> Or(flags.rules, cfg.rules, "default"),
     format    |-> Or(flags.format, cfg.format, "text"),
     failOn    |-> Or(flags.failOn, cfg.failOn, "high"),
     threshold |-> OrNumber(flags.threshold, cfg.threshold, DefaultThreshold),
     noEntropy |-> cfg.noEntropy \/ flags.noEntropy = "true",
     noDeps    |-> cfg.noDeps \/ flags.noDeps = "true",
     exclude   |-> cfg.exclude \cup flags.exclude]

(* What the flags are when none is given. *)
NoFlags == [rules |-> Unset, format |-> Unset, failOn |-> Unset, threshold |-> 0, max |-> 0,
            noEntropy |-> Unset, noDeps |-> Unset, exclude |-> {}, changed |-> FALSE]

NoSummary == [total |-> 0, by |-> [s \in Severities |-> 0], score |-> 100, passed |-> TRUE]

Init ==
    /\ args \in Lines /\ cfg \in Configs /\ scene \in Scenes
    /\ flags = NoFlags
    /\ opt = <<>>
    /\ loaded = FALSE
    /\ files = <<>> /\ next = 1
    /\ findings = <<>> /\ summary = NoSummary /\ printed = <<>>
    /\ exit = 0
    /\ pc = "parse"

(* Parse takes the flags up to the first word. What comes after it is      *)
(* left in Args, of which only the first is used.                          *)
ParseArgs ==
    /\ pc = "parse"
    /\ args.stop = "none"
    /\ flags' = args.before
    /\ pc' = "merge"
    /\ UNCHANGED <<input, opt, loaded, files, next, findings, summary, printed, exit>>

(* With ExitOnError a flag that cannot be parsed ends the process with 2,  *)
(* -h and -help with 0, before anything is read.                           *)
ParseExits ==
    /\ pc = "parse"
    /\ args.stop # "none"
    /\ exit' = IF args.stop = "bad" THEN 2 ELSE 0
    /\ pc' = "usage"
    /\ UNCHANGED <<input, flags, opt, loaded, files, next, findings, summary, printed>>

Merge ==
    /\ pc = "merge"
    /\ opt' = Merged
    /\ pc' = "rules"
    /\ UNCHANGED <<input, flags, loaded, files, next, findings, summary, printed, exit>>

(***************************************************************************)
(* 1. The rules: a directory that cannot be read is a warning, a pattern   *)
(* that does not compile the end.                                          *)
(***************************************************************************)
LoadRules ==
    /\ pc = "rules"
    /\ scene.rules[opt.rules] # "bad"
    /\ loaded' = (scene.rules[opt.rules] = "ok")
    /\ pc' = "collect"
    /\ UNCHANGED <<input, flags, opt, files, next, findings, summary, printed, exit>>

CompileFails ==
    /\ pc = "rules"
    /\ scene.rules[opt.rules] = "bad"
    /\ exit' = 2
    /\ pc' = "exited"
    /\ UNCHANGED <<input, flags, opt, loaded, files, next, findings, summary, printed>>

(***************************************************************************)
(* 2. The files                                                            *)
(***************************************************************************)

(* Walk swallows its errors: a root that is missing, or has the name of a  *)
(* directory to skip, is a tree without files.                             *)
Walked(x) == scene.root = "plain" /\ Info(x).place = "tree" /\ Info(x).kind = "text"

GitWorks == scene.git /\ scene.root # "missing"

(* git names paths from the top of the work tree; joined to a root below   *)
(* it they name nothing, and ReadFile fails.                               *)
Changed == {x \in Paths : Info(x).diff # {} /\ scene.top /\ Info(x).kind # "unreadable"}

(* The orders in which the keys of a Go map may come. *)
Orders(S) == {s \in [1 .. Cardinality(S) -> S] : \A x \in S : \E i \in DOMAIN s : s[i] = x}

Collected(fs) ==
    /\ files' = fs
    /\ pc' = "exclude"
    /\ UNCHANGED <<input, flags, opt, loaded, next, findings, summary, printed, exit>>

WalkFiles ==
    /\ pc = "collect"
    /\ ~flags.changed \/ ~GitWorks
    /\ Collected(Sublist(WalkOrder, {i \in DOMAIN WalkOrder : Walked(WalkOrder[i])}))

ChangedFiles ==
    /\ pc = "collect"
    /\ flags.changed /\ GitWorks
    /\ \E fs \in Orders(Changed) : Collected(fs)

(* Every path has the empty string as a prefix. *)
Matches(x, prefix) == prefix = NoPrefix \/ prefix \in Info(x).prefixes

Kept(x) == ~\E e \in opt.exclude : e # NoPrefix /\ Matches(x, e)

Exclude ==
    /\ pc = "exclude"
    /\ files' = Sublist(files, {i \in DOMAIN files : Kept(files[i])})
    /\ next' = 1
    /\ pc' = "evaluate"
    /\ UNCHANGED <<input, flags, opt, loaded, findings, summary, printed, exit>>

(***************************************************************************)
(* 3. The analysers, one loop over the files each                          *)
(***************************************************************************)
Of(x, by, severities) ==
    [i \in DOMAIN severities |-> [path |-> x, by |-> by, severity |-> severities[i]]]

Times(n, severity) == [i \in 1 .. n |-> severity]

RuleFindings(x) == IF loaded THEN Of(x, "rule", Info(x).rule) ELSE <<>>

EntropyFindings(x) == Of(x, "entropy", Times(Len(Scan(Info(x).lines, opt.threshold)), "high"))

(* DEP-001 for every dependency without a version. *)
DepFindings(x) ==
    LET pinned == ScanFile(Info(x).manifest)
    IN  Of(x, "deps", Times(Cardinality({i \in DOMAIN pinned : ~pinned[i]}), "medium"))

Loop(at, Result(_)) ==
    /\ pc = at
    /\ next <= Len(files)
    /\ findings' = findings \o Result(files[next])
    /\ next' = next + 1
    /\ UNCHANGED <<input, flags, opt, loaded, files, summary, printed, exit, pc>>

LoopDone(at, then, skip) ==
    /\ pc = at
    /\ next > Len(files) \/ skip
    /\ next' = 1
    /\ pc' = then
    /\ UNCHANGED <<input, flags, opt, loaded, files, findings, summary, printed, exit>>

EvaluateFile == Loop("evaluate", RuleFindings)
EvaluateDone == LoopDone("evaluate", "entropy", FALSE)
EntropyFile == Loop("entropy", EntropyFindings) /\ ~opt.noEntropy
EntropyDone == LoopDone("entropy", "deps", opt.noEntropy)
DepsFile == Loop("deps", DepFindings) /\ ~opt.noDeps
DepsDone == LoopDone("deps", "limit", opt.noDeps)

(***************************************************************************)
(* 4. The limit and NewSummary                                             *)
(***************************************************************************)
Limited == flags.max > 0 /\ Len(findings) > flags.max

ApplyLimit ==
    /\ pc = "limit"
    /\ findings' = IF Limited THEN SubSeq(findings, 1, flags.max) ELSE findings
    /\ summary' = NewSummary(findings')
    /\ pc' = "print"
    /\ UNCHANGED <<input, flags, opt, loaded, files, next, printed, exit>>

(***************************************************************************)
(* 5. The report: the level each format gives a finding                    *)
(***************************************************************************)

(* Mutant: critical alone is an error in SARIF. *)
LevelCriticalOnly(severity) ==
    IF opt.format \notin {"gh", "sarif"} THEN severity
    ELSE CASE severity = "critical" \/ (opt.format = "gh" /\ severity = "high") -> "error"
           [] opt.format = "gh" /\ severity = "info" -> "notice"
           [] opt.format = "sarif" /\ severity \in {"low", "info"} -> "note"
           [] OTHER -> "warning"

Level(severity) ==
    IF opt.format \notin {"gh", "sarif"} THEN severity
    ELSE CASE severity \in {"critical", "high"} -> "error"
           [] opt.format = "gh" /\ severity = "info" -> "notice"
           [] opt.format = "sarif" /\ severity \in {"low", "info"} -> "note"
           [] OTHER -> "warning"

Report ==
    /\ pc = "print"
    /\ printed' = [i \in DOMAIN findings |-> [level |-> Level(findings[i].severity),
                                              path |-> findings[i].path]]
    /\ pc' = "exit"
    /\ UNCHANGED <<input, flags, opt, loaded, files, next, findings, summary, exit>>

(***************************************************************************)
(* 6. The exit code                                                        *)
(***************************************************************************)

(* Mutant: "critical" falls through into "high". *)
ExitCodeFallsThrough(s, failOn) ==
    CASE failOn \in {"critical", "high"} -> IF s.by["critical"] + s.by["high"] > 0 THEN 1 ELSE 0
      [] failOn = "medium" -> IF s.by["critical"] + s.by["high"] + s.by["medium"] > 0 THEN 1 ELSE 0
      [] failOn = "low" -> IF s.total > 0 THEN 1 ELSE 0
      [] OTHER -> 0

(* A level that is none of the five is "never". *)
ExitCode(s, failOn) ==
    CASE failOn = "critical" -> IF s.by["critical"] > 0 THEN 1 ELSE 0
      [] failOn = "high" -> IF s.by["critical"] + s.by["high"] > 0 THEN 1 ELSE 0
      [] failOn = "medium" -> IF s.by["critical"] + s.by["high"] + s.by["medium"] > 0 THEN 1 ELSE 0
      [] failOn = "low" -> IF s.total > 0 THEN 1 ELSE 0
      [] OTHER -> 0

Exit ==
    /\ pc = "exit"
    /\ exit' = ExitCode(summary, opt.failOn)
    /\ pc' = "exited"
    /\ UNCHANGED <<input, flags, opt, loaded, files, next, findings, summary, printed>>

Next ==
    \/ ParseArgs \/ ParseExits \/ Merge \/ LoadRules \/ CompileFails \/ WalkFiles \/ ChangedFiles \/ Exclude
    \/ EvaluateFile \/ EvaluateDone \/ EntropyFile \/ EntropyDone \/ DepsFile \/ DepsDone
    \/ ApplyLimit \/ Report \/ Exit

Spec == Init /\ [][Next]_vars

-----------------------------------------------------------------------------
(***************************************************************************)
(* What the command is to say of its input, without its steps              *)
(***************************************************************************)

(* The flags that count are those before the directory. The usage that     *)
(* src/README.md:15, 74 and 102 give has them after it: none of them does. *)
Given == args.before

(* A value of the command line, else of the config, else the default. *)
Wanted(flag, config, default, zero) ==
    CHOOSE v \in {flag, config, default} :
        \/ v = flag /\ flag # zero
        \/ v = config /\ flag = zero /\ config # zero
        \/ v = default /\ flag = zero /\ config = zero

FailOn == Wanted(Given.failOn, cfg.failOn, "high", Unset)

InScope(x) ==
    /\ IF Given.changed /\ GitWorks THEN x \in Changed ELSE Walked(x)
    /\ Info(x).prefixes \cap (Given.exclude \cup cfg.exclude) = {}

(* A threshold that is not positive is the default one. *)
Threshold ==
    LET t == Wanted(Given.threshold, cfg.threshold, DefaultThreshold, 0)
    IN  IF t <= 0 THEN DefaultThreshold ELSE t

(* The severities of all there is to find in the files in scope. *)
Issues ==
    UNION {(IF scene.rules[Wanted(Given.rules, cfg.rules, "default", Unset)] = "ok"
            THEN {Info(x).rule[i] : i \in DOMAIN Info(x).rule} ELSE {})
           \cup (IF ~cfg.noEntropy /\ Given.noEntropy # "true" /\ HasSecret(Info(x).lines, Threshold)
                 THEN {"high"} ELSE {})
           \cup (IF ~cfg.noDeps /\ Given.noDeps # "true" /\ DeclaresUnpinned(Info(x).manifest)
                 THEN {"medium"} ELSE {})
           : x \in {y \in Paths : InScope(y)}}

Gate(failOn) ==
    CASE failOn = "critical" -> {"critical"}
      [] failOn = "high" -> {"critical", "high"}
      [] failOn = "medium" -> {"critical", "high", "medium"}
      [] failOn = "low" -> Severities
      [] OTHER -> {}

ExpectedExit == IF Issues \cap Gate(FailOn) # {} THEN 1 ELSE 0

Ended == pc = "exited" /\ exit # 2

(* Without a limit the exit code depends on the input alone, not on the    *)
(* order of the files or the report: 1 exactly when a file in scope has an *)
(* issue of a level --fail-on asks for, found by an analyser that is on.   *)
(* What counts of the command line is what stands before the directory.    *)
ExitRight == Ended /\ Given.max <= 0 => exit = ExpectedExit

(* The exit code is the report's: 1 exactly when it holds a finding of a   *)
(* level --fail-on asks for, and such an issue then is in a file in scope. *)
(* It differs from what the issues ask for only when --max-findings has    *)
(* cut the failing ones off, and the report then holds as many findings as *)
(* the limit lets it.                                                      *)
ExitExplained ==
    Ended =>
        /\ Len(printed) = Len(findings)
        /\ exit = 1 <=> \E i \in DOMAIN findings : findings[i].severity \in Gate(FailOn)
        /\ exit = 1 => ExpectedExit = 1
        /\ exit # ExpectedExit => Given.max > 0 /\ Len(findings) = Given.max

(* Annotations and SARIF agree with the summary: an error is reported      *)
(* exactly when the summary says that the check did not pass.              *)
ErrorsMatchVerdict ==
    Ended /\ opt.format \in {"gh", "sarif"} =>
        (summary.passed <=> \A i \in DOMAIN printed : printed[i].level # "error")
=============================================================================
