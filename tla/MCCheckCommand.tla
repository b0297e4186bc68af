--------------------------- MODULE MCCheckCommand ---------------------------
(***************************************************************************)
(* Model of CheckCommand: two or three files that cover every place, kind  *)
(* and severity, under combinations of command lines and configs.          *)
(***************************************************************************)
EXTENDS CheckCommand, TLC

CONSTANTS a, b, c, gen

MCWalkOrder == <<a, b, c>>

Line(kind, strings) == [kind |-> kind, strings |-> strings]
Token(e) == [alphabet |-> "token", entropy |-> e]
Code(e) == Line("code", <<Token(e)>>)
Long == Line("long", <<Token(9)>>)

(* Manifests with a dependency without a version, and without one: the     *)
(* version of one dependency beside another, the part left and entered     *)
(* again, a line the scanner cannot hold.                                  *)
Manifest(format, lines) == [format |-> format, lines |-> lines]
None == Manifest("none", <<"bare">>)
Unpinned == {Manifest("pom.xml", <<"open", "bare", "pinned", "version", "close", "open", "pinned", "close">>),
             Manifest("cargo.toml", <<"open", "pinned", "close", "bare", "open", "bare">>),
             Manifest("requirements.txt", <<"pinned", "other", "bare", "long">>)}
Pinned == {Manifest("pom.xml", <<"version", "open", "version", "pinned", "close", "open", "bare", "close">>),
           Manifest("cargo.toml", <<"bare", "open", "pinned", "close", "bare">>),
           Manifest("requirements.txt", <<"pinned", "long", "bare">>),
           Manifest("go.mod", <<"single", "open", "pinned", "close", "single", "pinned">>),
           Manifest("package.json", <<"pinned", "open", "pinned", "bare", "close">>)}

(* A text file in the tree that git sees as changed. *)
Plain(rule, lines, manifest) ==
    [place |-> "tree", kind |-> "text", prefixes |-> {}, diff |-> {"HEAD"},
     rule |-> rule, lines |-> lines, manifest |-> manifest]

Tree(x, y, z) == (a :> x) @@ (b :> y) @@ (c :> z)
Clean == Plain(<<>>, <<Line("comment", <<Token(9)>>), Line("code", <<[alphabet |-> "other", entropy |-> 9]>>)>>,
               None)

Rules(f, cf, d) == [n \in {"flag", "config", "default"} |->
                       IF n = "flag" THEN f ELSE IF n = "config" THEN cf ELSE d]

Scene(tree) == [root |-> "plain", top |-> TRUE, git |-> TRUE, file |-> tree,
                rules |-> Rules("ok", "bad", "ok")]

Some(S) == CHOOSE x \in S : TRUE
Mixed == Scene(Tree(Plain(<<"low", "other">>, <<Code(4), Long, Code(6)>>, None),
                    [Plain(<<"critical">>, <<>>, Some(Unpinned)) EXCEPT !.prefixes = {gen}, !.diff = {"cached"}],
                    [Plain(<<"info">>, <<>>, None) EXCEPT !.diff = {}]))
Hidden == Scene(Tree([Plain(<<"high">>, <<>>, None) EXCEPT !.place = "skipdir"],
                     [Plain(<<"critical">>, <<>>, None) EXCEPT !.kind = "large"],
                     [Plain(<<"critical">>, <<>>, None) EXCEPT !.kind = "unreadable"]))
Medium(m) == Scene(Tree(Plain(<<"info">>, <<Code(3)>>, m), [Clean EXCEPT !.kind = "binary"], Clean))

MCScenes == {Medium(m) : m \in Unpinned \cup Pinned} \cup
            {Mixed, Hidden,
             [Mixed EXCEPT !.git = FALSE], [Mixed EXCEPT !.top = FALSE],
             [Hidden EXCEPT !.root = "skipped"], [Mixed EXCEPT !.root = "missing"],
             [Mixed EXCEPT !.rules = Rules("missing", "ok", "bad")]}

NoConfig == [rules |-> "", format |-> "", failOn |-> "", threshold |-> 0,
             noEntropy |-> FALSE, noDeps |-> FALSE, exclude |-> {}]
MCConfigs == {NoConfig,
              [NoConfig EXCEPT !.rules = "config", !.failOn = "critical", !.exclude = {NoPrefix}],
              [NoConfig EXCEPT !.noEntropy = TRUE, !.noDeps = TRUE, !.format = "sarif"],
              [NoConfig EXCEPT !.threshold = 3, !.exclude = {gen}],
              [NoConfig EXCEPT !.threshold = -1]}

MCFlags == [rules : {"", "flag"}, format : {"", "gh"},
            failOn : {"", "critical", "medium", "low", "never", "hihg"},
            threshold : {0, 5}, max : {-1, 0, 1}, noEntropy : {"", "true"}, noDeps : {""},
            exclude : {{}, {gen, NoPrefix}}, changed : BOOLEAN]

(* Flags before the directory; after it, as src/README.md gives them; on   *)
(* both sides of it; and lines that end the command.                       *)
Documented == [NoFlags EXCEPT !.rules = "flag", !.format = "gh", !.failOn = "low", !.noEntropy = "true"]
MCLines == {[before |-> f, stop |-> "none", after |-> NoFlags] : f \in MCFlags} \cup
           {[before |-> f, stop |-> "none", after |-> g] :
                f \in {NoFlags, [NoFlags EXCEPT !.failOn = "medium", !.max = 1]},
                g \in {Documented, [NoFlags EXCEPT !.failOn = "never", !.changed = TRUE]}} \cup
           {[before |-> Documented, stop |-> e, after |-> NoFlags] : e \in {"bad", "help"}}
=============================================================================
