-------------------------------- MODULE Deps --------------------------------
(***************************************************************************)
(* pkg/deps/scanner.go: the parsers of dependency manifests.  Each reads   *)
(* its file line by line and keeps whether it is inside the part that      *)
(* lists dependencies.  A line is what the parser's expressions tell of it:*)
(*                                                                         *)
(*   "open", "close"  the part begins or ends: require ( and ), the name   *)
(*                    of a section, <dependency> and </dependency>         *)
(*   "pinned"         an entry with its version; in pom.xml the artifactId *)
(*   "bare"           an entry without; in pom.xml another of its elements *)
(*   "version"        pom.xml: the version of a dependency                 *)
(*   "single"         go.mod: require and an entry in one line             *)
(*   "long"           a line too long for the scanner                      *)
(*   "other"          anything else                                        *)
(***************************************************************************)
EXTENDS LineScanner

Formats == {"go.mod", "package.json", "requirements.txt", "cargo.toml", "pom.xml", "none"}
LineKinds == {"open", "close", "pinned", "bare", "version", "single", "long", "other"}

Manifests == [format : Formats, lines : Seq(LineKinds)]

(* The state of a parser: the dependencies it has found, TRUE for one that  *)
(* has a version, and what it remembers between two lines.                  *)
Start == [deps |-> <<>>, inside |-> FALSE, artifact |-> FALSE, version |-> FALSE]

Found(s, pinned) == [s EXCEPT !.deps = Append(@, pinned)]

GoMod(s, line) ==
    CASE line = "open" -> [s EXCEPT !.inside = TRUE]
      [] s.inside /\ line = "close" -> [s EXCEPT !.inside = FALSE]
      [] s.inside /\ line = "pinned" -> Found(s, TRUE)
      [] ~s.inside /\ line = "single" -> Found(s, TRUE)
      [] OTHER -> s

(* An entry whose version is empty does not match. *)
PackageJSON(s, line) ==
    CASE line = "open" -> [s EXCEPT !.inside = TRUE]
      [] s.inside /\ line = "close" -> [s EXCEPT !.inside = FALSE]
      [] s.inside /\ line = "pinned" -> Found(s, TRUE)
      [] OTHER -> s

(* Comments, options and empty lines are "other". *)
RequirementsTxt(s, line) ==
    CASE line = "pinned" -> Found(s, TRUE)
      [] line = "bare" -> Found(s, FALSE)
      [] OTHER -> s

(* Any other section ends the one that lists dependencies. *)
CargoToml(s, line) ==
    CASE line = "open" -> [s EXCEPT !.inside = TRUE]
      [] line = "close" -> [s EXCEPT !.inside = FALSE]
      [] s.inside /\ line = "pinned" -> Found(s, TRUE)
      [] s.inside /\ line = "bare" -> Found(s, FALSE)
      [] OTHER -> s

(* Mutant: the version of one dependency is still there for the next. *)
PomXMLKeepsVersion(s, line) ==
    CASE line = "open" -> [s EXCEPT !.inside = TRUE, !.artifact = FALSE]
      [] line = "close" -> [(IF s.artifact THEN Found(s, s.version) ELSE s) EXCEPT !.inside = FALSE]
      [] s.inside /\ line = "pinned" -> [s EXCEPT !.artifact = TRUE]
      [] s.inside /\ line = "version" -> [s EXCEPT !.version = TRUE]
      [] OTHER -> s

(* A dependency is complete at its end tag, if it had an artifactId. *)
PomXML(s, line) ==
    CASE line = "open" -> [s EXCEPT !.inside = TRUE, !.artifact = FALSE, !.version = FALSE]
      [] line = "close" -> [(IF s.artifact THEN Found(s, s.version) ELSE s) EXCEPT !.inside = FALSE]
      [] s.inside /\ line = "pinned" -> [s EXCEPT !.artifact = TRUE]
      [] s.inside /\ line = "version" -> [s EXCEPT !.version = TRUE]
      [] OTHER -> s

(* The parser is chosen by the name of the file. *)
Parse(format, s, line) ==
    CASE format = "go.mod" -> GoMod(s, line)
      [] format = "package.json" -> PackageJSON(s, line)
      [] format = "requirements.txt" -> RequirementsTxt(s, line)
      [] format = "cargo.toml" -> CargoToml(s, line)
      [] format = "pom.xml" -> PomXML(s, line)
      [] OTHER -> s

(* The state of the parser after each line. *)
ParsedAfter(format, lines) ==
    LET after[n \in 0 .. Len(lines)] ==
            IF n = 0 THEN Start ELSE Parse(format, after[n - 1], lines[n])
    IN  after

ScanFile(m) ==
    LET scanned == Scanned(m.lines, {i \in DOMAIN m.lines : m.lines[i] = "long"})
    IN  ParsedAfter(m.format, scanned)[Len(scanned)].deps

-----------------------------------------------------------------------------
(***************************************************************************)
(* What a manifest declares, without a parser: a line is in the part that  *)
(* lists dependencies when the last "open" or "close" before it is an      *)
(* "open".                                                                 *)
(***************************************************************************)
Within(lines, n) ==
    \E i \in 1 .. n - 1 : lines[i] = "open" /\ \A k \in i + 1 .. n - 1 : lines[k] # "close"

(* The lines of the element that ends at n. *)
Element(lines, n) ==
    {k \in 1 .. n - 1 : Within(lines, k) /\ \A i \in k + 1 .. n - 1 : lines[i] \notin {"open", "close"}}

(* Does what is scanned of the manifest declare a dependency without a     *)
(* version?                                                                *)
DeclaresUnpinned(m) ==
    LET lines == m.lines
    IN  \E n \in DOMAIN lines :
            /\ \A k \in 1 .. n : lines[k] # "long"
            /\ CASE m.format = "requirements.txt" -> lines[n] = "bare"
                 [] m.format = "cargo.toml" -> lines[n] = "bare" /\ Within(lines, n)
                 [] m.format = "pom.xml" -> /\ lines[n] = "close"
                                            /\ \E k \in Element(lines, n) : lines[k] = "pinned"
                                            /\ \A k \in Element(lines, n) : lines[k] # "version"
                 [] OTHER -> FALSE
=============================================================================
