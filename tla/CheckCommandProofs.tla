-------------------------- MODULE CheckCommandProofs --------------------------
(***************************************************************************)
(* Proofs about CheckCommand, for any flags, configs and trees of files:   *)
(* first that the analysers find what is there, then the command.          *)
(***************************************************************************)
EXTENDS CheckCommand, ListProofs

(***************************************************************************)
(* entropy.Scan                                                            *)
(***************************************************************************)
Strings == [alphabet : {"token", "other"}, entropy : Nat]

IsSecret(line, i, least) ==
    line.kind # "comment" /\ line.strings[i].alphabet = "token" /\ line.strings[i].entropy >= least

LEMMA SecretsOfLine ==
    ASSUME NEW line \in EntropyLines, NEW least
    PROVE  /\ Secrets(line, least) \in Seq(Strings)
           /\ Secrets(line, least) # <<>> <=> \E i \in DOMAIN line.strings : IsSecret(line, i, least)
<1> DEFINE S == {i \in DOMAIN line.strings : IsSecret(line, i, least)}
<1>1. line.strings \in Seq(Strings) /\ S \subseteq DOMAIN line.strings
  BY DEF EntropyLines, Strings
<1>2. Secrets(line, least) = Sublist(line.strings, S)
  BY DEF Secrets, IsSecret, IsEntropyCandidate
<1> HIDE DEF S
<1>3. /\ Cardinality(S) \in Nat
      /\ Sublist(line.strings, S) \in Seq(Strings) /\ Len(Sublist(line.strings, S)) = Cardinality(S)
      /\ \A j \in 1 .. Cardinality(S) : Ascending(S)[j] \in S
      /\ \A i \in S : \E j \in 1 .. Cardinality(S) : Ascending(S)[j] = i
  BY <1>1, SublistHas
<1>4. Sublist(line.strings, S) # <<>> <=> Cardinality(S) >= 1
  BY <1>3
<1>5. S # {} <=> Cardinality(S) >= 1
  <2>1. ASSUME NEW i \in S PROVE Cardinality(S) >= 1
    BY <1>3
  <2>2. ASSUME Cardinality(S) >= 1 PROVE S # {}
    <3>1. 1 \in 1 .. Cardinality(S)
      BY <1>3, <2>2
    <3> QED BY <1>3, <3>1
  <2> QED BY <2>1, <2>2
<1>6. S # {} <=> \E i \in DOMAIN line.strings : IsSecret(line, i, least)
  BY DEF S
<1> QED BY <1>2, <1>3, <1>4, <1>5, <1>6

LEMMA FoundAfterEach ==
    ASSUME NEW lines \in Seq(EntropyLines), NEW least
    PROVE  /\ FoundAfter(lines, least) \in [0 .. Len(lines) -> Seq(Strings)]
           /\ FoundAfter(lines, least)[0] = <<>>
           /\ \A n \in 1 .. Len(lines) :
                  FoundAfter(lines, least)[n] = FoundAfter(lines, least)[n - 1] \o Secrets(lines[n], least)
<1> DEFINE N == Len(lines)
           T == Seq(Strings)
           step == [p \in (1 .. N) \X T |-> p[2] \o Secrets(lines[p[1]], least)]
           E(f) == [n \in 0 .. N |-> IF n = 0 THEN <<>> ELSE f[n - 1] \o Secrets(lines[n], least)]
           f == FoundAfter(lines, least)
<1>1. N \in Nat /\ <<>> \in T /\ \A n \in 1 .. N : lines[n] \in EntropyLines
  OBVIOUS
<1>2. \A n \in 1 .. N : Secrets(lines[n], least) \in T
  BY <1>1, SecretsOfLine
<1> HIDE DEF N
<1>3. step \in [(1 .. N) \X T -> T]
  BY <1>2
<1>4. PICK g \in [0 .. N -> T] : Iterates(g, N, <<>>, step)
  <2> HIDE DEF step, T
  <2> QED BY <1>1, <1>3, IterationExists
<1>5. ASSUME NEW n \in 1 .. N PROVE step[<<n, g[n - 1]>>] = g[n - 1] \o Secrets(lines[n], least)
  <2>1. n - 1 \in 0 .. N
    BY <1>1
  <2>2. g[n - 1] \in T
    BY <1>4, <2>1, Zenon
  <2>3. <<n, g[n - 1]>> \in (1 .. N) \X T
    BY <2>2
  <2> HIDE DEF T
  <2> QED BY <2>3
<1>6. \A n \in 0 .. N : g[n] = IF n = 0 THEN <<>> ELSE g[n - 1] \o Secrets(lines[n], least)
  <2>1. \A n \in 0 .. N : n = 0 \/ n \in 1 .. N
    BY <1>1
  <2> QED BY <1>4, <1>5, <2>1 DEF Iterates
<1>7. g = E(g)
  <2> HIDE DEF T
  <2> QED BY <1>4, <1>6
<1>8. f = CHOOSE r : r = E(r)
  BY DEF FoundAfter, N
<1> HIDE DEF E
<1>9. f = E(f)
  BY <1>7, <1>8
<1> HIDE DEF f
<1>10. f[0] = <<>> /\ \A n \in 1 .. N : f[n] = f[n - 1] \o Secrets(lines[n], least)
  <2>1. \A n \in 0 .. N : E(f)[n] = IF n = 0 THEN <<>> ELSE f[n - 1] \o Secrets(lines[n], least)
    BY DEF E
  <2>2. \A n \in 0 .. N : f[n] = IF n = 0 THEN <<>> ELSE f[n - 1] \o Secrets(lines[n], least)
    BY <1>9, <2>1, Zenon
  <2>3. 0 \in 0 .. N /\ \A n \in 1 .. N : n \in 0 .. N /\ n # 0
    BY <1>1
  <2> QED BY <2>2, <2>3
<1>11. f = [n \in 0 .. N |-> f[n]]
  <2>1. E(f) = [n \in 0 .. N |-> E(f)[n]]
    BY DEF E
  <2> QED BY <1>9, <2>1, Zenon
<1> DEFINE G == {n \in 0 .. N : f[n] \in T}
<1>12. \A n \in 0 .. N : n \in G
  <2>1. 0 \in 0 .. N /\ f[0] \in T
    BY <1>1, <1>10
  <2>2. ASSUME NEW n \in 1 .. N, n - 1 \in G PROVE n \in G
    <3>1. n \in 0 .. N /\ f[n - 1] \in T /\ Secrets(lines[n], least) \in T
      BY <1>1, <1>2, <2>2
    <3>2. f[n - 1] \o Secrets(lines[n], least) \in T
      BY <3>1
    <3> HIDE DEF T
    <3> QED BY <1>10, <3>1, <3>2
  <2>3. 0 \in G
    BY <2>1, Zenon
  <2> HIDE DEF G
  <2> QED BY <1>1, <2>2, <2>3, Climbs
<1>13. f \in [0 .. N -> T]
  <2> HIDE DEF T
  <2> QED BY <1>11, <1>12
<1> QED BY <1>10, <1>13 DEF f, N

(* What is scanned are the lines before the first that is too long. *)
LEMMA ScannedPart ==
    ASSUME NEW T, NEW lines \in Seq(T), NEW long, long \subseteq DOMAIN lines
    PROVE  \E end \in 0 .. Len(lines) :
               /\ Scanned(lines, long) \in Seq(T) /\ Len(Scanned(lines, long)) = end
               /\ \A n \in 1 .. end : Scanned(lines, long)[n] = lines[n]
               /\ \A n \in 1 .. Len(lines) : n <= end <=> \A k \in 1 .. n : k \notin long
<1>1. PICK end \in 0 .. Len(lines) :
          /\ Scanned(lines, long) = SubSeq(lines, 1, end)
          /\ \A i \in 1 .. end : i \notin long
          /\ end = Len(lines) \/ end + 1 \in long
  BY ScannedUpTo
<1>2. /\ SubSeq(lines, 1, end) \in Seq(T) /\ Len(SubSeq(lines, 1, end)) = end
      /\ \A n \in 1 .. end : SubSeq(lines, 1, end)[n] = lines[n]
  BY <1>1
<1>3. ASSUME NEW n \in 1 .. Len(lines), n <= end PROVE \A k \in 1 .. n : k \notin long
  BY <1>1, <1>3
<1>4. ASSUME NEW n \in 1 .. Len(lines), \A k \in 1 .. n : k \notin long PROVE n <= end
  BY <1>1, <1>4
<1> QED BY <1>1, <1>2, <1>3, <1>4

Least(threshold) == IF threshold <= 0 THEN DefaultThreshold ELSE threshold

(* The scanner reports a string exactly when there is a secret to report. *)
LEMMA ScanFinds ==
    ASSUME NEW lines \in Seq(EntropyLines), NEW threshold \in Int
    PROVE  /\ Scan(lines, threshold) \in Seq(Strings)
           /\ Scan(lines, threshold) # <<>> <=> HasSecret(lines, Least(threshold))
<1> DEFINE least == Least(threshold)
           long == {i \in DOMAIN lines : lines[i].kind = "long"}
           scanned == Scanned(lines, long)
           f == FoundAfter(scanned, least)
           Some(k) == \E i \in DOMAIN lines[k].strings : IsSecret(lines[k], i, least)
<1>0. /\ Len(lines) \in Nat /\ DOMAIN lines = 1 .. Len(lines) /\ long \subseteq DOMAIN lines
      /\ \A n \in 1 .. Len(lines) : lines[n] \in EntropyLines
  OBVIOUS
<1>1. \A n \in 1 .. Len(lines) : n \in long <=> lines[n].kind = "long"
  BY <1>0
<1>2. Scan(lines, threshold) = f[Len(scanned)]
  BY DEF Scan, Least
<1> HIDE DEF long
<1>3. PICK end \in 0 .. Len(lines) :
          /\ scanned \in Seq(EntropyLines) /\ Len(scanned) = end
          /\ \A n \in 1 .. end : scanned[n] = lines[n]
          /\ \A n \in 1 .. Len(lines) : n <= end <=> \A k \in 1 .. n : k \notin long
  BY <1>0, ScannedPart
<1> HIDE DEF scanned, least
<1>4. /\ f \in [0 .. end -> Seq(Strings)] /\ f[0] = <<>>
      /\ \A n \in 1 .. end : f[n] = f[n - 1] \o Secrets(scanned[n], least)
  BY <1>3, FoundAfterEach
<1> HIDE DEF f
<1>5. \A n \in 1 .. end :
          /\ n \in 1 .. Len(lines) /\ Secrets(scanned[n], least) \in Seq(Strings)
          /\ Secrets(scanned[n], least) # <<>> <=> Some(n)
  BY <1>0, <1>3, SecretsOfLine
<1> HIDE DEF Some
<1> DEFINE G == {n \in 0 .. end : f[n] # <<>> <=> \E k \in 1 .. n : Some(k)}
<1>6. \A n \in 0 .. end : n \in G
  <2>1. 0 \in G
    BY <1>3, <1>4
  <2>2. ASSUME NEW n \in 1 .. end, n - 1 \in G PROVE n \in G
    <3>1. n \in 0 .. end /\ n - 1 \in 0 .. end
      BY <1>3
    <3>2. f[n - 1] \in Seq(Strings) /\ Secrets(scanned[n], least) \in Seq(Strings)
      <4>1. f[n - 1] \in Seq(Strings)
        BY <1>4, <3>1, Zenon
      <4>2. Secrets(scanned[n], least) \in Seq(Strings)
        BY <1>5, Zenon
      <4> QED BY <4>1, <4>2, Zenon
    <3>3. f[n - 1] \o Secrets(scanned[n], least) # <<>> <=> f[n - 1] # <<>> \/ Secrets(scanned[n], least) # <<>>
      BY <3>2
    <3>4. (\E k \in 1 .. n : Some(k)) <=> (\E k \in 1 .. n - 1 : Some(k)) \/ Some(n)
      BY <3>1
    <3>5. f[n - 1] # <<>> <=> \E k \in 1 .. n - 1 : Some(k)
      BY <2>2
    <3>6. f[n] # <<>> <=> \E k \in 1 .. n : Some(k)
      <4>1. f[n] = f[n - 1] \o Secrets(scanned[n], least)
        BY <1>4, Zenon
      <4>2. Secrets(scanned[n], least) # <<>> <=> Some(n)
        BY <1>5, Zenon
      <4> QED BY <3>3, <3>4, <3>5, <4>1, <4>2, Zenon
    <3> QED BY <3>1, <3>6, Zenon
  <2>3. end \in Nat
    BY <1>0, <1>3
  <2> HIDE DEF G
  <2> QED BY <2>1, <2>2, <2>3, Climbs
<1>7. f[end] # <<>> <=> \E k \in 1 .. end : Some(k)
  BY <1>3, <1>6
<1>8. \A n \in 1 .. Len(lines) : n <= end <=> \A k \in 1 .. n : lines[k].kind # "long"
  BY <1>0, <1>1, <1>3
<1>9. (\E k \in 1 .. end : Some(k)) <=> HasSecret(lines, least)
  <2>1. ASSUME NEW k \in 1 .. end, Some(k) PROVE HasSecret(lines, least)
    <3>1. k \in 1 .. Len(lines) /\ k <= end /\ lines[k].kind \in {"code", "comment", "long"} /\ k \in 1 .. k
      BY <1>0, <1>3 DEF EntropyLines
    <3>2. \A m \in 1 .. k : lines[m].kind # "long"
      BY <1>8, <3>1
    <3> QED BY <1>0, <2>1, <3>1, <3>2 DEF HasSecret, Some, IsSecret
  <2>2. ASSUME HasSecret(lines, least) PROVE \E k \in 1 .. end : Some(k)
    <3>1. PICK n \in 1 .. Len(lines) :
              /\ lines[n].kind = "code" /\ \A k \in 1 .. n : lines[k].kind # "long"
              /\ \E i \in DOMAIN lines[n].strings :
                     lines[n].strings[i].alphabet = "token" /\ lines[n].strings[i].entropy >= least
      BY <1>0, <2>2 DEF HasSecret
    <3>2. n \in 1 .. end
      BY <1>3, <1>8, <3>1
    <3> QED BY <3>1, <3>2 DEF Some, IsSecret
  <2> QED BY <2>1, <2>2
<1>10. f[end] \in Seq(Strings)
  BY <1>3, <1>4
<1> QED BY <1>2, <1>3, <1>7, <1>9, <1>10 DEF least

(***************************************************************************)
(* The parsers of manifests                                                *)
(***************************************************************************)
ParserStates == [deps : Seq(BOOLEAN), inside : BOOLEAN, artifact : BOOLEAN, version : BOOLEAN]

HasUnpinned(s) == \E i \in DOMAIN s.deps : ~s.deps[i]

LEMMA FoundOne ==
    ASSUME NEW s \in ParserStates, NEW pinned \in BOOLEAN
    PROVE  /\ Found(s, pinned) \in ParserStates
           /\ Found(s, pinned).inside = s.inside /\ Found(s, pinned).artifact = s.artifact
           /\ Found(s, pinned).version = s.version
           /\ HasUnpinned(Found(s, pinned)) <=> HasUnpinned(s) \/ ~pinned
<1>1. PICK d \in Seq(BOOLEAN) : d = s.deps
  BY DEF ParserStates
<1>2. /\ Found(s, pinned) \in ParserStates
      /\ Found(s, pinned).inside = s.inside /\ Found(s, pinned).artifact = s.artifact
      /\ Found(s, pinned).version = s.version /\ Found(s, pinned).deps = Append(d, pinned)
  BY <1>1 DEF Found, ParserStates
<1>3. (\E i \in DOMAIN Append(d, pinned) : ~Append(d, pinned)[i]) <=> (\E i \in DOMAIN d : ~d[i]) \/ ~pinned
  <2>1. /\ Len(d) \in Nat /\ DOMAIN d = 1 .. Len(d) /\ DOMAIN Append(d, pinned) = 1 .. Len(d) + 1
        /\ \A i \in 1 .. Len(d) : Append(d, pinned)[i] = d[i]
        /\ Append(d, pinned)[Len(d) + 1] = pinned
    OBVIOUS
  <2>2. \A i \in 1 .. Len(d) + 1 : i \in 1 .. Len(d) \/ i = Len(d) + 1
    BY <2>1
  <2>3. Len(d) + 1 \in 1 .. Len(d) + 1 /\ \A i \in 1 .. Len(d) : i \in 1 .. Len(d) + 1
    BY <2>1
  <2> QED BY <2>1, <2>2, <2>3, Zenon
<1> QED BY <1>1, <1>2, <1>3 DEF HasUnpinned

LEMMA ParseType ==
    ASSUME NEW format \in Formats, NEW s \in ParserStates, NEW line \in LineKinds
    PROVE  Parse(format, s, line) \in ParserStates
<1>1. Found(s, TRUE) \in ParserStates /\ Found(s, FALSE) \in ParserStates
  BY FoundOne
<1>2. s.artifact \in BOOLEAN /\ s.version \in BOOLEAN
  BY DEF ParserStates
<1>3. Found(s, s.version) \in ParserStates
  BY <1>2, FoundOne
<1>4. \A t \in ParserStates : \A i, a, v \in BOOLEAN :
          /\ [t EXCEPT !.inside = i] \in ParserStates
          /\ [t EXCEPT !.artifact = a] \in ParserStates /\ [t EXCEPT !.version = v] \in ParserStates
          /\ [t EXCEPT !.inside = i, !.artifact = a, !.version = v] \in ParserStates
  <2> SUFFICES ASSUME NEW t \in ParserStates, NEW i \in BOOLEAN, NEW a \in BOOLEAN, NEW v \in BOOLEAN
               PROVE  /\ [t EXCEPT !.inside = i] \in ParserStates
                      /\ [t EXCEPT !.artifact = a] \in ParserStates /\ [t EXCEPT !.version = v] \in ParserStates
                      /\ [t EXCEPT !.inside = i, !.artifact = a, !.version = v] \in ParserStates
    OBVIOUS
  <2>1. [t EXCEPT !.inside = i] \in ParserStates
    BY DEF ParserStates
  <2>2. [t EXCEPT !.artifact = a] \in ParserStates
    BY DEF ParserStates
  <2>3. [t EXCEPT !.version = v] \in ParserStates
    BY DEF ParserStates
  <2>4. [t EXCEPT !.inside = i, !.artifact = a, !.version = v] \in ParserStates
    BY DEF ParserStates
  <2> QED BY <2>1, <2>2, <2>3, <2>4
<1> HIDE DEF ParserStates
<1>5. GoMod(s, line) \in ParserStates /\ PackageJSON(s, line) \in ParserStates
  BY <1>1, <1>4 DEF GoMod, PackageJSON
<1>6. RequirementsTxt(s, line) \in ParserStates /\ CargoToml(s, line) \in ParserStates
  BY <1>1, <1>4 DEF RequirementsTxt, CargoToml
<1>7. PomXML(s, line) \in ParserStates
  BY <1>3, <1>4 DEF PomXML
<1> QED BY <1>5, <1>6, <1>7 DEF Parse

LEMMA ParsedAfterEach ==
    ASSUME NEW format \in Formats, NEW lines \in Seq(LineKinds)
    PROVE  /\ ParsedAfter(format, lines) \in [0 .. Len(lines) -> ParserStates]
           /\ ParsedAfter(format, lines)[0] = Start
           /\ \A n \in 1 .. Len(lines) :
                  ParsedAfter(format, lines)[n] = Parse(format, ParsedAfter(format, lines)[n - 1], lines[n])
<1> DEFINE N == Len(lines)
           T == ParserStates
           step == [p \in (1 .. N) \X T |-> Parse(format, p[2], lines[p[1]])]
           E(f) == [n \in 0 .. N |-> IF n = 0 THEN Start ELSE Parse(format, f[n - 1], lines[n])]
           f == ParsedAfter(format, lines)
<1>1. N \in Nat /\ \A n \in 1 .. N : lines[n] \in LineKinds
  OBVIOUS
<1>2. Start \in T
  BY DEF Start, ParserStates
<1> HIDE DEF N, T
<1>3. step \in [(1 .. N) \X T -> T]
  BY <1>1, ParseType DEF T
<1>4. PICK g \in [0 .. N -> T] : Iterates(g, N, Start, step)
  <2> HIDE DEF step
  <2> QED BY <1>1, <1>2, <1>3, IterationExists
<1>5. ASSUME NEW n \in 1 .. N PROVE step[<<n, g[n - 1]>>] = Parse(format, g[n - 1], lines[n])
  <2>1. n - 1 \in 0 .. N
    BY <1>1
  <2>2. g[n - 1] \in T
    BY <1>4, <2>1, Zenon
  <2>3. <<n, g[n - 1]>> \in (1 .. N) \X T
    BY <2>2
  <2> QED BY <2>3
<1>6. \A n \in 0 .. N : g[n] = IF n = 0 THEN Start ELSE Parse(format, g[n - 1], lines[n])
  <2>1. \A n \in 0 .. N : n = 0 \/ n \in 1 .. N
    BY <1>1
  <2> QED BY <1>4, <1>5, <2>1 DEF Iterates
<1>7. g = E(g)
  BY <1>4, <1>6
<1>8. f = CHOOSE r : r = E(r)
  BY DEF ParsedAfter, N
<1> HIDE DEF E
<1>9. f = E(f)
  BY <1>7, <1>8
<1> HIDE DEF f
<1>10. f[0] = Start /\ \A n \in 1 .. N : f[n] = Parse(format, f[n - 1], lines[n])
  <2>1. \A n \in 0 .. N : E(f)[n] = IF n = 0 THEN Start ELSE Parse(format, f[n - 1], lines[n])
    BY DEF E
  <2>2. \A n \in 0 .. N : f[n] = IF n = 0 THEN Start ELSE Parse(format, f[n - 1], lines[n])
    BY <1>9, <2>1, Zenon
  <2>3. 0 \in 0 .. N /\ \A n \in 1 .. N : n \in 0 .. N /\ n # 0
    BY <1>1
  <2> QED BY <2>2, <2>3
<1>11. f = [n \in 0 .. N |-> f[n]]
  <2>1. E(f) = [n \in 0 .. N |-> E(f)[n]]
    BY DEF E
  <2> QED BY <1>9, <2>1, Zenon
<1> DEFINE G == {n \in 0 .. N : f[n] \in T}
<1>12. \A n \in 0 .. N : n \in G
  <2>1. 0 \in G
    BY <1>1, <1>2, <1>10
  <2>2. ASSUME NEW n \in 1 .. N, n - 1 \in G PROVE n \in G
    <3>1. n \in 0 .. N /\ f[n - 1] \in T
      BY <1>1, <2>2
    <3> QED BY <1>1, <1>10, <3>1, ParseType DEF T
  <2> HIDE DEF G
  <2> QED BY <1>1, <2>1, <2>2, Climbs
<1>13. f \in [0 .. N -> T]
  BY <1>11, <1>12
<1> QED BY <1>10, <1>13 DEF f, N, T

LEMMA WithinStep ==
    ASSUME NEW lines, NEW n \in Nat \ {0}
    PROVE  Within(lines, n + 1) <=> lines[n] = "open" \/ (lines[n] # "close" /\ Within(lines, n))
<1>1. n + 1 - 1 = n /\ n - 1 \in Nat /\ n \in 1 .. n
  OBVIOUS
<1>2. ASSUME lines[n] = "open" PROVE Within(lines, n + 1)
  <2>1. \A k \in n + 1 .. n : FALSE
    OBVIOUS
  <2> QED BY <1>1, <1>2, <2>1 DEF Within
<1>3. ASSUME lines[n] # "close", Within(lines, n) PROVE Within(lines, n + 1)
  <2>1. PICK i \in 1 .. n - 1 : lines[i] = "open" /\ \A k \in i + 1 .. n - 1 : lines[k] # "close"
    BY <1>3 DEF Within
  <2>2. i \in 1 .. n /\ \A k \in i + 1 .. n : k \in i + 1 .. n - 1 \/ k = n
    OBVIOUS
  <2> QED BY <1>1, <1>3, <2>1, <2>2 DEF Within
<1>4. ASSUME Within(lines, n + 1), lines[n] # "open" PROVE lines[n] # "close" /\ Within(lines, n)
  <2>1. PICK i \in 1 .. n : lines[i] = "open" /\ \A k \in i + 1 .. n : lines[k] # "close"
    BY <1>1, <1>4 DEF Within
  <2>2. i \in 1 .. n - 1 /\ n \in i + 1 .. n /\ \A k \in i + 1 .. n - 1 : k \in i + 1 .. n
    BY <1>4, <2>1
  <2> QED BY <2>1, <2>2 DEF Within
<1> QED BY <1>2, <1>3, <1>4

LEMMA ElementStep ==
    ASSUME NEW lines, NEW n \in Nat \ {0}
    PROVE  \A k : k \in Element(lines, n + 1) <=>
               \/ k = n /\ Within(lines, n)
               \/ lines[n] \notin {"open", "close"} /\ k \in Element(lines, n)
<1> DEFINE Quiet(k, m) == \A i \in k + 1 .. m : lines[i] \notin {"open", "close"}
<1>1. n + 1 - 1 = n /\ n \in 1 .. n
  OBVIOUS
<1>2. /\ \A k : k \in Element(lines, n + 1) <=> k \in 1 .. n /\ Within(lines, k) /\ Quiet(k, n)
      /\ \A k : k \in Element(lines, n) <=> k \in 1 .. n - 1 /\ Within(lines, k) /\ Quiet(k, n - 1)
  BY <1>1 DEF Element
<1>3. Quiet(n, n)
  OBVIOUS
<1>4. \A k \in 1 .. n - 1 : Quiet(k, n) <=> Quiet(k, n - 1) /\ lines[n] \notin {"open", "close"}
  <2>1. ASSUME NEW k \in 1 .. n - 1 PROVE n \in k + 1 .. n /\ \A i \in k + 1 .. n - 1 : i \in k + 1 .. n
    OBVIOUS
  <2>2. ASSUME NEW k \in 1 .. n - 1 PROVE \A i \in k + 1 .. n : i \in k + 1 .. n - 1 \/ i = n
    OBVIOUS
  <2> QED BY <2>1, <2>2
<1> HIDE DEF Quiet
<1>5. \A k : k \in 1 .. n <=> k = n \/ k \in 1 .. n - 1
  OBVIOUS
<1>6. n \notin 1 .. n - 1
  OBVIOUS
<1> QED BY <1>2, <1>3, <1>4, <1>5, <1>6, Zenon

(* Line n declares a dependency that has no version. *)
DeclaredAt(format, lines, n) ==
    CASE format = "requirements.txt" -> lines[n] = "bare"
      [] format = "cargo.toml" -> lines[n] = "bare" /\ Within(lines, n)
      [] format = "pom.xml" -> /\ lines[n] = "close"
                               /\ \E k \in Element(lines, n) : lines[k] = "pinned"
                               /\ \A k \in Element(lines, n) : lines[k] # "version"
      [] OTHER -> FALSE

Has(lines, n, kind) == \E k \in Element(lines, n) : lines[k] = kind

LEMMA HasStep ==
    ASSUME NEW lines, NEW n \in Nat \ {0}, NEW kind \in {"pinned", "version"}
    PROVE  /\ Has(lines, n + 1, kind) <=>
                  \/ lines[n] = kind /\ Within(lines, n)
                  \/ lines[n] \notin {"open", "close"} /\ Has(lines, n, kind)
           /\ Has(lines, n, kind) => Within(lines, n)
<1>1. Has(lines, n + 1, kind) <=>
          \/ lines[n] = kind /\ Within(lines, n)
          \/ lines[n] \notin {"open", "close"} /\ Has(lines, n, kind)
  BY ElementStep, Zenon DEF Has
<1>2. ASSUME Has(lines, n, kind) PROVE Within(lines, n)
  <2>1. PICK k \in 1 .. n - 1 :
            /\ lines[k] = kind /\ Within(lines, k)
            /\ \A i \in k + 1 .. n - 1 : lines[i] \notin {"open", "close"}
    BY <1>2 DEF Has, Element
  <2>2. PICK i \in 1 .. k - 1 : lines[i] = "open" /\ \A m \in i + 1 .. k - 1 : lines[m] # "close"
    BY <2>1 DEF Within
  <2>3. i \in 1 .. n - 1 /\ \A m \in i + 1 .. n - 1 : m \in i + 1 .. k - 1 \/ m = k \/ m \in k + 1 .. n - 1
    OBVIOUS
  <2>4. kind # "close"
    OBVIOUS
  <2>5. \A m \in i + 1 .. n - 1 : lines[m] # "close"
    BY <2>1, <2>2, <2>3, <2>4
  <2> QED BY <2>2, <2>3, <2>5 DEF Within
<1> QED BY <1>1, <1>2

(* What a parser knows after n lines.  That of pom.xml forgets an element  *)
(* only when the next one begins.                                          *)
Knows(format, lines, n, s) ==
    /\ HasUnpinned(s) <=> \E k \in 1 .. n : DeclaredAt(format, lines, k)
    /\ format \in {"cargo.toml", "pom.xml"} => (s.inside <=> Within(lines, n + 1))
    /\ format = "pom.xml" /\ s.inside => /\ s.artifact <=> Has(lines, n + 1, "pinned")
                                         /\ s.version <=> Has(lines, n + 1, "version")
    /\ format = "pom.xml" /\ ~s.inside /\ s.artifact /\ ~s.version => HasUnpinned(s)

LEMMA KnowsAtStart ==
    ASSUME NEW format \in Formats, NEW lines PROVE Knows(format, lines, 0, Start)
<1>1. ~HasUnpinned(Start) /\ ~Start.inside /\ ~Start.artifact
  BY DEF HasUnpinned, Start
<1>2. ~Within(lines, 0 + 1)
  BY DEF Within
<1>3. ~\E k \in 1 .. 0 : DeclaredAt(format, lines, k)
  OBVIOUS
<1> QED BY <1>1, <1>2, <1>3 DEF Knows

LEMMA KnowsNext ==
    ASSUME NEW format \in Formats, NEW lines, NEW n \in Nat \ {0}, lines[n] \in LineKinds,
           NEW s \in ParserStates, Knows(format, lines, n - 1, s)
    PROVE  Knows(format, lines, n, Parse(format, s, lines[n]))
<1> DEFINE l == lines[n]
           t == Parse(format, s, l)
           D(k) == DeclaredAt(format, lines, k)
           In == Within(lines, n)
<1>0. n - 1 + 1 = n
  OBVIOUS
<1>1. /\ HasUnpinned(s) <=> \E k \in 1 .. n - 1 : D(k)
      /\ format \in {"cargo.toml", "pom.xml"} => (s.inside <=> In)
      /\ format = "pom.xml" /\ s.inside => /\ s.artifact <=> Has(lines, n, "pinned")
                                           /\ s.version <=> Has(lines, n, "version")
      /\ format = "pom.xml" /\ ~s.inside /\ s.artifact /\ ~s.version => HasUnpinned(s)
  BY <1>0 DEF Knows
<1>2. (\E k \in 1 .. n : D(k)) <=> (\E k \in 1 .. n - 1 : D(k)) \/ D(n)
  <2>1. \A k : k \in 1 .. n <=> k \in 1 .. n - 1 \/ k = n
    OBVIOUS
  <2> HIDE DEF D
  <2> QED BY <2>1, Zenon
<1>3. Within(lines, n + 1) <=> l = "open" \/ (l # "close" /\ In)
  BY WithinStep
<1>4. s.inside \in BOOLEAN /\ s.artifact \in BOOLEAN /\ s.version \in BOOLEAN
  BY DEF ParserStates
<1>5. \A b \in BOOLEAN :
          /\ Found(s, b) \in ParserStates
          /\ Found(s, b).inside = s.inside /\ Found(s, b).artifact = s.artifact /\ Found(s, b).version = s.version
          /\ HasUnpinned(Found(s, b)) <=> HasUnpinned(s) \/ ~b
  BY FoundOne
<1>6. \A r \in ParserStates : \A i, a, v \in BOOLEAN :
          /\ [r EXCEPT !.inside = i].inside = i /\ [r EXCEPT !.inside = i].artifact = r.artifact
          /\ [r EXCEPT !.inside = i].version = r.version
          /\ HasUnpinned([r EXCEPT !.inside = i]) <=> HasUnpinned(r)
          /\ HasUnpinned([r EXCEPT !.artifact = a]) <=> HasUnpinned(r)
          /\ HasUnpinned([r EXCEPT !.version = v]) <=> HasUnpinned(r)
          /\ HasUnpinned([r EXCEPT !.inside = i, !.artifact = a, !.version = v]) <=> HasUnpinned(r)
  BY DEF ParserStates, HasUnpinned
<1> SUFFICES /\ HasUnpinned(t) <=> HasUnpinned(s) \/ D(n)
             /\ format \in {"cargo.toml", "pom.xml"} => (t.inside <=> Within(lines, n + 1))
             /\ format = "pom.xml" /\ t.inside => /\ t.artifact <=> Has(lines, n + 1, "pinned")
                                                  /\ t.version <=> Has(lines, n + 1, "version")
             /\ format = "pom.xml" /\ ~t.inside /\ t.artifact /\ ~t.version => HasUnpinned(t)
  BY <1>1, <1>2 DEF Knows
<1>7. CASE format = "go.mod"
  <2>1. t = GoMod(s, l) /\ ~D(n)
    BY <1>7 DEF Parse, DeclaredAt
  <2>2. HasUnpinned(GoMod(s, l)) <=> HasUnpinned(s)
    BY <1>5, <1>6 DEF GoMod
  <2> QED BY <1>7, <2>1, <2>2
<1>8. CASE format = "package.json"
  <2>1. t = PackageJSON(s, l) /\ ~D(n)
    BY <1>8 DEF Parse, DeclaredAt
  <2>2. HasUnpinned(PackageJSON(s, l)) <=> HasUnpinned(s)
    BY <1>5, <1>6 DEF PackageJSON
  <2> QED BY <1>8, <2>1, <2>2
<1>9. CASE format = "requirements.txt"
  <2>1. t = RequirementsTxt(s, l) /\ (D(n) <=> l = "bare")
    BY <1>9 DEF Parse, DeclaredAt
  <2>2. HasUnpinned(RequirementsTxt(s, l)) <=> HasUnpinned(s) \/ l = "bare"
    BY <1>5 DEF RequirementsTxt
  <2> QED BY <1>9, <2>1, <2>2
<1>10. CASE format = "cargo.toml"
  <2>1. t = CargoToml(s, l) /\ (D(n) <=> l = "bare" /\ In)
    BY <1>10 DEF Parse, DeclaredAt
  <2>2. HasUnpinned(CargoToml(s, l)) <=> HasUnpinned(s) \/ (l = "bare" /\ s.inside)
    BY <1>4, <1>5, <1>6 DEF CargoToml
  <2>3. CargoToml(s, l).inside <=> l = "open" \/ (l # "close" /\ s.inside)
    BY <1>4, <1>5, <1>6 DEF CargoToml
  <2> QED BY <1>1, <1>3, <1>10, <2>1, <2>2, <2>3
<1>11. CASE format = "pom.xml"
  <2>1. t = PomXML(s, l) /\ (D(n) <=> l = "close" /\ Has(lines, n, "pinned") /\ ~Has(lines, n, "version"))
    BY <1>11 DEF Parse, DeclaredAt, Has
  <2>2. \A kind \in {"pinned", "version"} :
            /\ Has(lines, n + 1, kind) <=> (l = kind /\ In) \/ (l \notin {"open", "close"} /\ Has(lines, n, kind))
            /\ Has(lines, n, kind) => In
    BY HasStep
  <2>3. s.inside <=> In
    BY <1>1, <1>11
  <2>4. CASE l = "open"
    <3>1. t = [s EXCEPT !.inside = TRUE, !.artifact = FALSE, !.version = FALSE]
      BY <2>1, <2>4 DEF PomXML
    <3>2. t.inside = TRUE /\ t.artifact = FALSE /\ t.version = FALSE /\ t.deps = s.deps
      <4> HIDE DEF t, D, l
      <4> QED BY <3>1 DEF ParserStates
    <3>3. ~Has(lines, n + 1, "pinned") /\ ~Has(lines, n + 1, "version") /\ ~D(n)
      BY <2>1, <2>2, <2>4
    <3>4. HasUnpinned(t) <=> HasUnpinned(s)
      <4> HIDE DEF t
      <4> QED BY <3>2 DEF HasUnpinned
    <3> HIDE DEF t, D, l
    <3> QED BY <1>3, <2>4, <3>2, <3>3, <3>4
  <2>5. CASE l = "close"
    <3>1. PICK r : r = IF s.artifact THEN Found(s, s.version) ELSE s
      OBVIOUS
    <3>2. t = [r EXCEPT !.inside = FALSE]
      BY <2>1, <2>5, <3>1 DEF PomXML
    <3>3. /\ r \in ParserStates /\ r.artifact = s.artifact /\ r.version = s.version
          /\ HasUnpinned(r) <=> HasUnpinned(s) \/ (s.artifact /\ ~s.version)
      BY <1>4, <1>5, <3>1
    <3>4. /\ t.inside = FALSE /\ t.artifact = s.artifact /\ t.version = s.version
          /\ HasUnpinned(t) <=> HasUnpinned(s) \/ (s.artifact /\ ~s.version)
      <4>1. /\ t.inside = FALSE /\ t.artifact = r.artifact /\ t.version = r.version
            /\ HasUnpinned(t) <=> HasUnpinned(r)
        <5> HIDE DEF t
        <5> QED BY <1>6, <3>2, <3>3
      <4> HIDE DEF t
      <4> QED BY <3>3, <4>1
    <3>5. CASE In
      <4>1. (s.artifact <=> Has(lines, n, "pinned")) /\ (s.version <=> Has(lines, n, "version"))
        BY <1>1, <1>11, <2>3, <3>5
      <4>2. D(n) <=> s.artifact /\ ~s.version
        BY <2>1, <2>5, <4>1
      <4> HIDE DEF t, D, l
      <4> QED BY <1>3, <2>5, <3>4, <4>2
    <3>6. CASE ~In
      <4>1. ~D(n)
        BY <2>1, <2>2, <3>6
      <4>2. s.artifact /\ ~s.version => HasUnpinned(s)
        BY <1>1, <1>11, <2>3, <3>6
      <4> HIDE DEF t, D, l
      <4> QED BY <1>3, <2>5, <3>4, <4>1, <4>2
    <3> QED BY <3>5, <3>6
  <2>6. CASE l \in {"pinned", "version"} /\ In
    <3>1. /\ t.inside = s.inside /\ (HasUnpinned(t) <=> HasUnpinned(s))
          /\ t.artifact <=> s.artifact \/ l = "pinned"
          /\ t.version <=> s.version \/ l = "version"
      <4> HIDE DEF t, D, l, In
      <4>1. CASE l = "pinned"
        <5>1. t = [s EXCEPT !.artifact = TRUE]
          BY <2>1, <2>3, <2>6, <4>1 DEF PomXML
        <5>2. t.inside = s.inside /\ t.artifact = TRUE /\ t.version = s.version
          BY <5>1 DEF ParserStates
        <5> QED BY <1>6, <4>1, <5>1, <5>2
      <4>2. CASE l = "version"
        <5>1. t = [s EXCEPT !.version = TRUE]
          BY <2>1, <2>3, <2>6, <4>2 DEF PomXML
        <5>2. t.inside = s.inside /\ t.version = TRUE /\ t.artifact = s.artifact
          BY <5>1 DEF ParserStates
        <5> QED BY <1>6, <4>2, <5>1, <5>2
      <4> QED BY <2>6, <4>1, <4>2
    <3>2. (s.artifact <=> Has(lines, n, "pinned")) /\ (s.version <=> Has(lines, n, "version"))
      BY <1>1, <1>11, <2>3, <2>6
    <3>3. /\ Has(lines, n + 1, "pinned") <=> l = "pinned" \/ Has(lines, n, "pinned")
          /\ Has(lines, n + 1, "version") <=> l = "version" \/ Has(lines, n, "version")
          /\ ~D(n)
      BY <2>1, <2>2, <2>6
    <3> HIDE DEF t, D, l
    <3> QED BY <1>3, <2>3, <2>6, <3>1, <3>2, <3>3
  <2>7. CASE l \notin {"open", "close"} /\ ~(l \in {"pinned", "version"} /\ In)
    <3>1. t = s
      BY <2>1, <2>3, <2>7 DEF PomXML
    <3>2. ~D(n) /\ (Within(lines, n + 1) <=> In)
      BY <1>3, <2>1, <2>7
    <3>3. In => /\ Has(lines, n + 1, "pinned") <=> Has(lines, n, "pinned")
                /\ Has(lines, n + 1, "version") <=> Has(lines, n, "version")
      BY <2>2, <2>7
    <3> HIDE DEF t, D, l
    <3> QED BY <1>1, <1>11, <2>3, <3>1, <3>2, <3>3
  <2> QED BY <2>4, <2>5, <2>6, <2>7
<1>12. CASE format = "none"
  <2>1. t = s /\ ~D(n)
    BY <1>12 DEF Parse, DeclaredAt
  <2> QED BY <1>12, <2>1
<1> QED BY <1>7, <1>8, <1>9, <1>10, <1>11, <1>12 DEF Formats

(* A manifest has a finding exactly when it declares a dependency without  *)
(* a version in what is scanned of it.                                     *)
LEMMA DepsFind ==
    ASSUME NEW m \in Manifests
    PROVE  /\ ScanFile(m) \in Seq(BOOLEAN)
           /\ (\E i \in DOMAIN ScanFile(m) : ~ScanFile(m)[i]) <=> DeclaresUnpinned(m)
<1> DEFINE format == m.format
           lines == m.lines
           long == {i \in DOMAIN lines : lines[i] = "long"}
           scanned == Scanned(lines, long)
           f == ParsedAfter(format, scanned)
<1>0. format \in Formats /\ lines \in Seq(LineKinds)
  BY DEF Manifests
<1>1. ScanFile(m) = f[Len(scanned)].deps
  BY DEF ScanFile
<1>2. DeclaresUnpinned(m) <=>
          \E n \in DOMAIN lines : (\A k \in 1 .. n : lines[k] # "long") /\ DeclaredAt(format, lines, n)
  BY DEF DeclaresUnpinned, DeclaredAt
<1> HIDE DEF format, lines
<1>3. /\ Len(lines) \in Nat /\ DOMAIN lines = 1 .. Len(lines) /\ long \subseteq DOMAIN lines
      /\ \A n \in 1 .. Len(lines) : lines[n] \in LineKinds
  BY <1>0
<1>4. \A n \in 1 .. Len(lines) : n \in long <=> lines[n] = "long"
  BY <1>3
<1> HIDE DEF long
<1>5. PICK end \in 0 .. Len(lines) :
          /\ scanned \in Seq(LineKinds) /\ Len(scanned) = end
          /\ \A n \in 1 .. end : scanned[n] = lines[n]
          /\ \A n \in 1 .. Len(lines) : n <= end <=> \A k \in 1 .. n : k \notin long
  BY <1>0, <1>3, ScannedPart
<1> HIDE DEF scanned
<1>6. end \in Nat /\ \A n \in 1 .. end : n \in 1 .. Len(lines) /\ n \in Nat \ {0} /\ n \in 0 .. end /\ n - 1 \in 0 .. end
  BY <1>3, <1>5
<1>7. /\ f \in [0 .. end -> ParserStates] /\ f[0] = Start
      /\ \A n \in 1 .. end : f[n] = Parse(format, f[n - 1], scanned[n])
  BY <1>0, <1>5, ParsedAfterEach
<1> HIDE DEF f
<1> DEFINE G == {n \in 0 .. end : Knows(format, lines, n, f[n])}
<1>8. \A n \in 0 .. end : n \in G
  <2>1. 0 \in G
    <3>1. Knows(format, lines, 0, f[0])
      BY <1>0, <1>7, KnowsAtStart
    <3> QED BY <1>6, <3>1
  <2>2. ASSUME NEW n \in 1 .. end, n - 1 \in G PROVE n \in G
    <3>1. f[n] = Parse(format, f[n - 1], lines[n])
      BY <1>5, <1>7, Zenon
    <3>2. f[n - 1] \in ParserStates /\ lines[n] \in LineKinds /\ n \in Nat \ {0}
      BY <1>3, <1>6, <1>7, Zenon
    <3>3. Knows(format, lines, n - 1, f[n - 1])
      BY <2>2, Zenon
    <3>4. Knows(format, lines, n, Parse(format, f[n - 1], lines[n]))
      BY <1>0, <3>2, <3>3, KnowsNext
    <3>5. n \in 0 .. end
      BY <1>6, Zenon
    <3> QED BY <3>1, <3>4, <3>5, Zenon
  <2> HIDE DEF G
  <2> QED BY <1>6, <2>1, <2>2, Climbs
<1>9. HasUnpinned(f[end]) <=> \E k \in 1 .. end : DeclaredAt(format, lines, k)
  <2>1. end \in 0 .. end
    BY <1>6
  <2>2. Knows(format, lines, end, f[end])
    BY <1>8, <2>1, Zenon
  <2> QED BY <2>2 DEF Knows
<1>10. \A n \in 1 .. Len(lines) : n \in 1 .. end <=> \A k \in 1 .. n : lines[k] # "long"
  <2>1. ASSUME NEW n \in 1 .. Len(lines) PROVE n \in 1 .. end <=> \A k \in 1 .. n : lines[k] # "long"
    <3>1. n \in 1 .. end <=> n <= end
      BY <1>3, <1>5
    <3>2. \A k \in 1 .. n : k \in 1 .. Len(lines)
      BY <1>3
    <3> QED BY <1>4, <1>5, <3>1, <3>2, Zenon
  <2> QED BY <2>1
<1>11. (\E k \in 1 .. end : DeclaredAt(format, lines, k)) <=> DeclaresUnpinned(m)
  BY <1>2, <1>3, <1>6, <1>10, Zenon
<1>12. f[end] \in ParserStates
  BY <1>6, <1>7
<1>13. f[end].deps \in Seq(BOOLEAN)
  BY <1>12 DEF ParserStates
<1> QED BY <1>1, <1>5, <1>9, <1>11, <1>13, Zenon DEF HasUnpinned

(***************************************************************************)
(* The command.  What each analyser is to find in a file:                  *)
(***************************************************************************)
Sev(fs) == {fs[i].severity : i \in DOMAIN fs}

RuleIssues(x) == IF scene.rules[Merged.rules] = "ok" THEN {Info(x).rule[i] : i \in DOMAIN Info(x).rule} ELSE {}

EntropyIssues(x) ==
    IF ~Merged.noEntropy /\ HasSecret(Info(x).lines, Least(Merged.threshold)) THEN {"high"} ELSE {}

DepIssues(x) == IF ~Merged.noDeps /\ DeclaresUnpinned(Info(x).manifest) THEN {"medium"} ELSE {}

(* The findings the analysers make, and the steps of the command. *)
Reports == [path : Paths, by : {"rule", "entropy", "deps"}, severity : Severities]

Before == {"parse", "merge", "rules", "collect", "exclude"}
Loops == {"evaluate", "entropy", "deps", "limit"}
Finish == {"print", "exit", "exited"}

TypeInv ==
    /\ args \in Lines /\ cfg \in Configs /\ scene \in Scenes
    /\ IsFlags(flags)
    /\ pc \in Before \cup Loops \cup Finish \cup {"usage"}
    /\ loaded \in BOOLEAN
    /\ files \in Seq(Paths) /\ next \in Nat \ {0}
    /\ findings \in Seq(Reports)

(* The flags are those before the directory and the options the merged     *)
(* ones; an exit before the end is a 2.                                    *)
OptionsInv ==
    /\ pc \notin {"parse", "usage"} => flags = Given
    /\ pc \notin {"parse", "usage", "merge"} => opt = Merged
    /\ pc \notin {"usage", "exited"} => exit = 0
    /\ pc \notin {"parse", "usage", "merge", "rules"} /\ exit # 2 => loaded = (scene.rules[Merged.rules] = "ok")

Chosen(x) == IF flags.changed /\ GitWorks THEN x \in Changed ELSE Walked(x)

Listed(x) == \E i \in DOMAIN files : files[i] = x

(* First the chosen files are listed, then those in scope. *)
FilesInv ==
    /\ pc = "exclude" => \A x : Listed(x) <=> x \in Paths /\ Chosen(x)
    /\ pc \in Loops \cup Finish /\ exit # 2 => \A x : Listed(x) <=> x \in Paths /\ InScope(x)

(* Has the loop of an analyser done the i-th file? *)
Passed(loop, after, i) == (pc = loop /\ i < next) \/ pc \in after

FoundIn(i) ==
    (IF Passed("evaluate", {"entropy", "deps", "limit"}, i) THEN RuleIssues(files[i]) ELSE {})
    \cup (IF Passed("entropy", {"deps", "limit"}, i) THEN EntropyIssues(files[i]) ELSE {})
    \cup (IF Passed("deps", {"limit"}, i) THEN DepIssues(files[i]) ELSE {})

(* The severities of the findings are those of the issues in the files the *)
(* loops have done, as far as the limit lets them.                         *)
FoundInv ==
    /\ pc \in Before => findings = <<>>
    /\ pc \in Loops => \A v : v \in Sev(findings) <=> \E i \in DOMAIN files : v \in FoundIn(i)
    /\ pc \in Finish /\ exit # 2 =>
           /\ Sev(findings) \subseteq Issues
           /\ Sev(findings) = Issues \/ (Given.max > 0 /\ Len(findings) = Given.max)
           /\ summary = NewSummary(findings)

ReportInv ==
    /\ pc \in {"exit", "exited"} /\ exit # 2 =>
           printed = [i \in DOMAIN findings |-> [level |-> Level(findings[i].severity), path |-> findings[i].path]]
    /\ pc = "exited" /\ exit # 2 => exit = ExitCode(summary, opt.failOn)

CommandInv == TypeInv /\ OptionsInv /\ FilesInv /\ FoundInv /\ ReportInv

-----------------------------------------------------------------------------
(* What the lemmas take from the assumption on the inputs. *)
LEMMA Inputs ==
    ASSUME TypeInv
    PROVE  /\ flags.max \in Int /\ flags.threshold \in Int /\ cfg.threshold \in Int
           /\ flags.exclude \subseteq Prefixes \cup {NoPrefix} /\ cfg.exclude \subseteq Prefixes \cup {NoPrefix}
           /\ cfg.noEntropy \in BOOLEAN /\ cfg.noDeps \in BOOLEAN
           /\ \A x \in Paths : /\ Info(x).prefixes \subseteq Prefixes
                               /\ Info(x).rule \in Seq(Severities)
                               /\ Info(x).lines \in Seq(EntropyLines)
                               /\ Info(x).manifest \in Manifests
<1>1. IsFlags(flags) /\ cfg \in Configs /\ scene \in Scenes
  BY DEF TypeInv
<1>2. flags.max \in Int /\ flags.threshold \in Int /\ flags.exclude \subseteq Prefixes \cup {NoPrefix}
  BY <1>1, Zenon DEF IsFlags
<1>3. /\ cfg.threshold \in Int /\ cfg.exclude \subseteq Prefixes \cup {NoPrefix}
      /\ cfg.noEntropy \in BOOLEAN /\ cfg.noDeps \in BOOLEAN
  BY <1>1, CheckAssumption, Zenon
<1>4. \A x \in Paths : /\ Info(x).prefixes \subseteq Prefixes /\ Info(x).rule \in Seq(Severities)
                       /\ Info(x).lines \in Seq(EntropyLines) /\ Info(x).manifest \in Manifests
  BY <1>1, CheckAssumption, Zenon DEF Info
<1> QED BY <1>2, <1>3, <1>4, Zenon

(* The merge gives the value that is wanted. *)
LEMMA OrIsWanted ==
    ASSUME NEW flag, NEW config, NEW default
    PROVE  /\ Or(flag, config, default) = Wanted(flag, config, default, Unset)
           /\ OrNumber(flag, config, default) = Wanted(flag, config, default, 0)
  BY DEF Or, OrNumber, Wanted, Unset

LEMMA ReportSeverities ==
    ASSUME NEW fs \in Seq(Reports)
    PROVE  \A i \in DOMAIN fs : fs[i].severity \in Severities
<1>1. \A i \in DOMAIN fs : fs[i] \in Reports
  OBVIOUS
<1>2. \A r \in Reports : r.severity \in Severities
  BY DEF Reports
<1> QED BY <1>1, <1>2

LEMMA SevConcat ==
    ASSUME NEW fs \in Seq(Reports), NEW gs \in Seq(Reports)
    PROVE  /\ fs \o gs \in Seq(Reports)
           /\ \A v : v \in Sev(fs \o gs) <=> v \in Sev(fs) \/ v \in Sev(gs)
<1>1. fs \o gs \in Seq(Reports)
  OBVIOUS
<1>2. ASSUME NEW i \in DOMAIN fs
      PROVE  i \in DOMAIN (fs \o gs) /\ (fs \o gs)[i] = fs[i]
  OBVIOUS
<1>3. ASSUME NEW i \in DOMAIN gs
      PROVE  Len(fs) + i \in DOMAIN (fs \o gs) /\ (fs \o gs)[Len(fs) + i] = gs[i]
  OBVIOUS
<1>4. ASSUME NEW i \in DOMAIN (fs \o gs)
      PROVE  \/ i \in DOMAIN fs /\ (fs \o gs)[i] = fs[i]
             \/ i - Len(fs) \in DOMAIN gs /\ (fs \o gs)[i] = gs[i - Len(fs)]
  OBVIOUS
<1>5. \A v : v \in Sev(fs) \/ v \in Sev(gs) => v \in Sev(fs \o gs)
  BY <1>2, <1>3, Zenon DEF Sev
<1>6. \A v : v \in Sev(fs \o gs) => v \in Sev(fs) \/ v \in Sev(gs)
  BY <1>4, Zenon DEF Sev
<1> QED BY <1>1, <1>5, <1>6

LEMMA OfReports ==
    ASSUME NEW x \in Paths, NEW by \in {"rule", "entropy", "deps"}, NEW sevs \in Seq(Severities)
    PROVE  /\ Of(x, by, sevs) \in Seq(Reports)
           /\ Sev(Of(x, by, sevs)) = {sevs[i] : i \in DOMAIN sevs}
<1>1. Len(sevs) \in Nat /\ DOMAIN sevs = 1 .. Len(sevs) /\ \A i \in 1 .. Len(sevs) : sevs[i] \in Severities
  OBVIOUS
<1>2. DOMAIN Of(x, by, sevs) = 1 .. Len(sevs)
      /\ \A i \in 1 .. Len(sevs) : /\ Of(x, by, sevs)[i] \in Reports
                                   /\ Of(x, by, sevs)[i].severity = sevs[i]
  BY <1>1 DEF Of, Reports
<1>3. Of(x, by, sevs) \in [1 .. Len(sevs) -> Reports]
  BY <1>1 DEF Of, Reports
<1>4. Of(x, by, sevs) \in Seq(Reports)
  BY <1>1, <1>3
<1> QED BY <1>1, <1>2, <1>4 DEF Sev

LEMMA TimesHas ==
    ASSUME NEW n \in Nat, NEW v \in Severities
    PROVE  /\ Times(n, v) \in Seq(Severities)
           /\ {Times(n, v)[i] : i \in DOMAIN Times(n, v)} = IF n > 0 THEN {v} ELSE {}
<1>1. Times(n, v) \in Seq(Severities)
  BY DEF Times
<1>2. CASE n > 0
  <2>1. 1 \in 1 .. n
    BY <1>2
  <2> QED BY <1>1, <1>2, <2>1 DEF Times
<1>3. CASE n = 0
  BY <1>1, <1>3 DEF Times
<1> QED BY <1>2, <1>3

(* Each analyser reports the issues of a file, in levels. *)
LEMMA RulesFind ==
    ASSUME TypeInv, loaded = (scene.rules[Merged.rules] = "ok"), NEW x \in Paths
    PROVE  RuleFindings(x) \in Seq(Reports) /\ Sev(RuleFindings(x)) = RuleIssues(x)
<1>1. Info(x).rule \in Seq(Severities)
  BY Inputs
<1>2. CASE loaded
  BY <1>1, <1>2, OfReports DEF RuleFindings, RuleIssues
<1>3. CASE ~loaded
  <2>1. RuleFindings(x) = <<>> /\ RuleIssues(x) = {}
    BY <1>3 DEF RuleFindings, RuleIssues
  <2>2. <<>> \in Seq(Reports) /\ Sev(<<>>) = {}
    BY DEF Sev
  <2> QED BY <2>1, <2>2
<1> QED BY <1>2, <1>3

LEMMA EntropyFinds ==
    ASSUME TypeInv, opt = Merged, ~opt.noEntropy, NEW x \in Paths
    PROVE  EntropyFindings(x) \in Seq(Reports) /\ Sev(EntropyFindings(x)) = EntropyIssues(x)
<1> DEFINE found == Scan(Info(x).lines, opt.threshold)
<1>1. Info(x).lines \in Seq(EntropyLines) /\ opt.threshold = Merged.threshold /\ opt.threshold \in Int
  <2>1. Merged.threshold \in Int
    BY Inputs, EntropyAssumption DEF Merged, OrNumber
  <2> QED BY <2>1, Inputs
<1>2. found \in Seq(Strings) /\ (found # <<>> <=> HasSecret(Info(x).lines, Least(Merged.threshold)))
  BY <1>1, ScanFinds
<1> HIDE DEF found
<1>3. Len(found) \in Nat /\ (Len(found) > 0 <=> found # <<>>)
  BY <1>2
<1>4. "high" \in Severities /\ "entropy" \in {"rule", "entropy", "deps"}
  BY DEF Severities
<1>5. /\ Times(Len(found), "high") \in Seq(Severities)
      /\ {Times(Len(found), "high")[i] : i \in DOMAIN Times(Len(found), "high")}
             = IF Len(found) > 0 THEN {"high"} ELSE {}
  BY <1>3, <1>4, TimesHas
<1>6. /\ Of(x, "entropy", Times(Len(found), "high")) \in Seq(Reports)
      /\ Sev(Of(x, "entropy", Times(Len(found), "high"))) = IF Len(found) > 0 THEN {"high"} ELSE {}
  BY <1>4, <1>5, OfReports
<1>7. EntropyFindings(x) = Of(x, "entropy", Times(Len(found), "high"))
  BY DEF EntropyFindings, found
<1>8. EntropyIssues(x) = IF Len(found) > 0 THEN {"high"} ELSE {}
  BY <1>2, <1>3 DEF EntropyIssues
<1> QED BY <1>6, <1>7, <1>8

LEMMA DepsFinds ==
    ASSUME TypeInv, opt = Merged, ~opt.noDeps, NEW x \in Paths
    PROVE  DepFindings(x) \in Seq(Reports) /\ Sev(DepFindings(x)) = DepIssues(x)
<1> DEFINE pinned == ScanFile(Info(x).manifest)
           S == {i \in DOMAIN pinned : ~pinned[i]}
           n == Cardinality(S)
<1>1. /\ pinned \in Seq(BOOLEAN)
      /\ (\E i \in DOMAIN pinned : ~pinned[i]) <=> DeclaresUnpinned(Info(x).manifest)
  BY Inputs, DepsFind
<1>2. DepFindings(x) = Of(x, "deps", Times(n, "medium"))
  BY DEF DepFindings
<1> HIDE DEF pinned
<1>3. n \in Nat /\ (n > 0 <=> S # {})
  <2>1. IsFiniteSet(1 .. Len(pinned)) /\ DOMAIN pinned = 1 .. Len(pinned)
    BY <1>1, FS_Interval
  <2>2. IsFiniteSet(S)
    BY <2>1, FS_Subset
  <2> HIDE DEF S
  <2>3. n \in Nat /\ (n = 0 <=> S = {})
    BY <2>2, FS_CardinalityType, FS_EmptySet
  <2> QED BY <2>3
<1>4. S # {} <=> DeclaresUnpinned(Info(x).manifest)
  BY <1>1
<1> HIDE DEF n, S
<1>5. "medium" \in Severities /\ "deps" \in {"rule", "entropy", "deps"}
  BY DEF Severities
<1>6. /\ Times(n, "medium") \in Seq(Severities)
      /\ {Times(n, "medium")[i] : i \in DOMAIN Times(n, "medium")} = IF n > 0 THEN {"medium"} ELSE {}
  BY <1>3, <1>5, TimesHas
<1>7. /\ Of(x, "deps", Times(n, "medium")) \in Seq(Reports)
      /\ Sev(Of(x, "deps", Times(n, "medium"))) = IF n > 0 THEN {"medium"} ELSE {}
  BY <1>5, <1>6, OfReports
<1>8. DepIssues(x) = IF n > 0 THEN {"medium"} ELSE {}
  BY <1>3, <1>4 DEF DepIssues
<1> QED BY <1>2, <1>7, <1>8

(* Issues, by file and analyser. *)
LEMMA IssuesAre ==
    ASSUME TypeInv, flags = Given
    PROVE  \A v : v \in Issues <=>
               \E x \in Paths : /\ InScope(x)
                                /\ v \in RuleIssues(x) \cup EntropyIssues(x) \cup DepIssues(x)
<1>1. /\ Merged.rules = Wanted(Given.rules, cfg.rules, "default", Unset)
      /\ Merged.threshold = Wanted(Given.threshold, cfg.threshold, DefaultThreshold, 0)
      /\ Merged.noEntropy <=> ~(~cfg.noEntropy /\ Given.noEntropy # "true")
      /\ Merged.noDeps <=> ~(~cfg.noDeps /\ Given.noDeps # "true")
  BY OrIsWanted, Inputs DEF Merged
<1>2. Threshold = Least(Merged.threshold)
  BY <1>1 DEF Threshold, Least
<1> DEFINE R(x) == IF scene.rules[Wanted(Given.rules, cfg.rules, "default", Unset)] = "ok"
                   THEN {Info(x).rule[i] : i \in DOMAIN Info(x).rule} ELSE {}
           E(x) == IF ~cfg.noEntropy /\ Given.noEntropy # "true" /\ HasSecret(Info(x).lines, Threshold)
                   THEN {"high"} ELSE {}
           D(x) == IF ~cfg.noDeps /\ Given.noDeps # "true" /\ DeclaresUnpinned(Info(x).manifest)
                   THEN {"medium"} ELSE {}
<1>3. Issues = UNION {R(x) \cup E(x) \cup D(x) : x \in {y \in Paths : InScope(y)}}
  BY DEF Issues
<1>4. \A x : R(x) = RuleIssues(x) /\ E(x) = EntropyIssues(x) /\ D(x) = DepIssues(x)
  <2> HIDE DEF Merged
  <2>1. \A x : R(x) = RuleIssues(x)
    BY <1>1 DEF RuleIssues
  <2>2. \A x : E(x) = EntropyIssues(x)
    BY <1>1, <1>2 DEF EntropyIssues
  <2>3. \A x : D(x) = DepIssues(x)
    BY <1>1 DEF DepIssues
  <2> QED BY <2>1, <2>2, <2>3
<1> HIDE DEF R, E, D
<1>5. Issues = UNION {RuleIssues(x) \cup EntropyIssues(x) \cup DepIssues(x) : x \in {y \in Paths : InScope(y)}}
  BY <1>3, <1>4
<1> QED BY <1>5, Zenon

(* What depends on the input and the flags alone. *)
LEMMA InputFrame ==
    ASSUME UNCHANGED <<input, flags>>
    PROVE  /\ UNCHANGED <<args, cfg, scene, flags, Given, Merged, Issues, FailOn>>
           /\ \A x : /\ RuleIssues(x)' = RuleIssues(x)
                     /\ EntropyIssues(x)' = EntropyIssues(x)
                     /\ DepIssues(x)' = DepIssues(x)
                     /\ Chosen(x)' = Chosen(x)
                     /\ InScope(x)' = InScope(x)
<1>1. args' = args /\ flags' = flags /\ cfg' = cfg /\ scene' = scene
  BY DEF input
<1>0. Given' = Given
  BY <1>1 DEF Given
<1>2. Merged' = Merged
  BY <1>1, Zenon DEF Merged
<1>3. Issues' = Issues
  <2>1. Threshold' = Threshold
    BY <1>0, <1>1 DEF Threshold
  <2>2. {y \in Paths : InScope(y)}' = {y \in Paths : InScope(y)}
    BY <1>0, <1>1, Zenon DEF InScope, Info, GitWorks, Changed, Walked
  <2> QED BY <1>0, <1>1, <2>1, <2>2 DEF Issues, Info
<1>4. FailOn' = FailOn
  BY <1>0, <1>1, Zenon DEF FailOn
<1>5. \A x : RuleIssues(x)' = RuleIssues(x)
  BY <1>1, <1>2, Zenon DEF RuleIssues, Info
<1>6. \A x : EntropyIssues(x)' = EntropyIssues(x)
  BY <1>1, <1>2, Zenon DEF EntropyIssues, Info
<1>7. \A x : DepIssues(x)' = DepIssues(x)
  BY <1>1, <1>2, Zenon DEF DepIssues, Info
<1>8. \A x : Chosen(x)' = Chosen(x)
  BY <1>1, Zenon DEF Chosen, Info, GitWorks, Changed, Walked
<1>9. \A x : InScope(x)' = InScope(x)
  BY <1>0, <1>1, Zenon DEF InScope, Info, GitWorks, Changed, Walked
<1> QED BY <1>0, <1>1, <1>2, <1>3, <1>4, <1>5, <1>6, <1>7, <1>8, <1>9

(* A file in scope is a chosen one that no prefix excludes. *)
LEMMA KeptInScope ==
    ASSUME TypeInv, flags = Given, opt = Merged, NEW x \in Paths
    PROVE  InScope(x) <=> Chosen(x) /\ Kept(x)
<1>1. opt.exclude = cfg.exclude \cup flags.exclude
  BY DEF Merged
<1>2. Info(x).prefixes \subseteq Prefixes /\ NoPrefix \notin Prefixes
  BY Inputs, CheckAssumption
<1>3. Kept(x) <=> Info(x).prefixes \cap (Given.exclude \cup cfg.exclude) = {}
  BY <1>1, <1>2 DEF Kept, Matches
<1> QED BY <1>3 DEF InScope, Chosen

LEMMA CommandInit == Init => CommandInv
<1> SUFFICES ASSUME Init PROVE CommandInv
  OBVIOUS
<1>1. <<>> \in Seq(Paths) /\ <<>> \in Seq(Reports) /\ 1 \in Nat \ {0}
  OBVIOUS
<1>2. TypeInv
  <2>1. IsFlags(NoFlags)
    BY DEF IsFlags, NoFlags, Unset
  <2> QED BY <1>1, <2>1 DEF Init, TypeInv, Before
<1> QED BY <1>2 DEF Init, CommandInv, OptionsInv, FilesInv, FoundInv, ReportInv, Before, Loops, Finish

LEMMA InputKept ==
    ASSUME \/ ParseExits \/ Merge \/ LoadRules \/ CompileFails \/ WalkFiles \/ ChangedFiles \/ Exclude
           \/ EvaluateFile \/ EvaluateDone \/ EntropyFile \/ EntropyDone \/ DepsFile \/ DepsDone
           \/ ApplyLimit \/ Report \/ Exit
    PROVE  UNCHANGED <<input, flags>>
  BY DEF ParseExits, Merge, LoadRules, CompileFails, WalkFiles, ChangedFiles, Collected, Exclude,
         EvaluateFile, EvaluateDone, EntropyFile, EntropyDone, DepsFile, DepsDone, Loop, LoopDone,
         ApplyLimit, Report, Exit

(* The command line. *)
LEMMA ParseNext ==
    ASSUME CommandInv, ParseArgs
    PROVE  CommandInv'
<1>1. /\ pc = "parse" /\ pc' = "merge" /\ flags' = args.before
      /\ UNCHANGED <<args, cfg, scene, opt, loaded, files, next, findings, summary, printed, exit>>
  BY DEF ParseArgs, input
<1>2. IsFlags(flags')
  <2>1. IsFlags(args.before)
    BY CheckAssumption, Zenon DEF CommandInv, TypeInv
  <2> QED BY <1>1, <2>1
<1>3. TypeInv'
  BY <1>1, <1>2 DEF CommandInv, TypeInv, IsFlags, Before
<1>4. OptionsInv'
  BY <1>1 DEF CommandInv, OptionsInv, Given
<1>5. FilesInv' /\ ReportInv'
  BY <1>1 DEF FilesInv, ReportInv, Loops, Finish
<1>6. FoundInv'
  BY <1>1 DEF CommandInv, FoundInv, Before, Loops, Finish
<1> QED BY <1>3, <1>4, <1>5, <1>6 DEF CommandInv

(* The steps before the files are scanned. *)
LEMMA BeforeNext ==
    ASSUME CommandInv, ParseExits \/ Merge \/ LoadRules \/ CompileFails
    PROVE  CommandInv'
<1>1. UNCHANGED <<args, cfg, scene, flags, Given, Merged>>
  BY InputKept, InputFrame
<1>2. TypeInv'
  BY <1>1 DEF CommandInv, TypeInv, IsFlags, ParseExits, Merge, LoadRules, CompileFails, Before, Loops, Finish
<1>3. OptionsInv'
  BY <1>1 DEF CommandInv, OptionsInv, ParseExits, Merge, LoadRules, CompileFails
<1>4. FilesInv' /\ ReportInv'
  BY DEF CommandInv, FilesInv, ReportInv, ParseExits, Merge, LoadRules, CompileFails, Before, Loops, Finish
<1>5. FoundInv'
  BY DEF CommandInv, FoundInv, ParseExits, Merge, LoadRules, CompileFails, Before, Loops, Finish
<1> QED BY <1>2, <1>3, <1>4, <1>5 DEF CommandInv

(* The choice of the files: in either case the chosen ones, each of them. *)
LEMMA CollectNext ==
    ASSUME CommandInv, WalkFiles \/ ChangedFiles
    PROVE  CommandInv'
<1>1. /\ UNCHANGED <<args, cfg, scene, flags, Given, Merged>>
      /\ \A x : Chosen(x)' = Chosen(x)
  BY InputKept, InputFrame
<1>2. IsFiniteSet(Paths) /\ Cardinality(Paths) \in Nat
  BY CheckAssumption, FS_CardinalityType
<1>3. PICK fs \in Seq(Paths) : Collected(fs) /\ \A x : (\E i \in DOMAIN fs : fs[i] = x) <=> x \in Paths /\ Chosen(x)
  <2>1. CASE WalkFiles
    <3> DEFINE S == {i \in DOMAIN WalkOrder : Walked(WalkOrder[i])}
               fs == Sublist(WalkOrder, S)
    <3>1. /\ WalkOrder \in Seq(Paths) /\ S \subseteq DOMAIN WalkOrder
          /\ \A x \in Paths : \E i \in DOMAIN WalkOrder : WalkOrder[i] = x
          /\ \A i \in DOMAIN WalkOrder : WalkOrder[i] \in Paths
      <4>1. WalkOrder \in [1 .. Cardinality(Paths) -> Paths]
        BY CheckAssumption
      <4>2. WalkOrder \in Seq(Paths)
        BY <1>2, <4>1
      <4> QED BY <4>1, <4>2, CheckAssumption
    <3>2. \A i \in DOMAIN WalkOrder : i \in S <=> Walked(WalkOrder[i])
      OBVIOUS
    <3> HIDE DEF S
    <3>3. /\ Cardinality(S) \in Nat /\ fs \in Seq(Paths) /\ Len(fs) = Cardinality(S)
          /\ \A j \in 1 .. Cardinality(S) : Ascending(S)[j] \in S /\ fs[j] = WalkOrder[Ascending(S)[j]]
          /\ \A i \in S : \E j \in 1 .. Cardinality(S) : Ascending(S)[j] = i /\ fs[j] = WalkOrder[i]
      BY <3>1, SublistHas
    <3>4. Collected(fs) /\ ~(flags.changed /\ GitWorks)
      BY <2>1 DEF WalkFiles, S
    <3> HIDE DEF fs
    <3>5. DOMAIN fs = 1 .. Cardinality(S)
      BY <3>3
    <3>6. \A x : Chosen(x) <=> Walked(x)
      BY <3>4 DEF Chosen
    <3>7. ASSUME NEW i \in DOMAIN fs PROVE fs[i] \in Paths /\ Walked(fs[i])
      BY <3>1, <3>2, <3>3, <3>5, Zenon
    <3>8. ASSUME NEW x \in Paths, Walked(x) PROVE \E i \in DOMAIN fs : fs[i] = x
      <4>1. PICK i \in DOMAIN WalkOrder : WalkOrder[i] = x
        BY <3>1
      <4>2. i \in S
        BY <3>2, <3>8, <4>1
      <4> QED BY <3>3, <3>5, <4>1, <4>2
    <3>9. \A x : (\E i \in DOMAIN fs : fs[i] = x) <=> x \in Paths /\ Chosen(x)
      BY <3>6, <3>7, <3>8, Zenon
    <3> QED BY <3>3, <3>4, <3>9
  <2>2. CASE ChangedFiles
    <3>1. PICK fs \in Orders(Changed) : Collected(fs)
      BY <2>2 DEF ChangedFiles
    <3>2. Changed \subseteq Paths
      BY DEF Changed
    <3>3. Cardinality(Changed) \in Nat
      BY <1>2, <3>2, FS_Subset, FS_CardinalityType
    <3>4. /\ fs \in [1 .. Cardinality(Changed) -> Changed]
          /\ \A x \in Changed : \E i \in DOMAIN fs : fs[i] = x
      BY <3>1, Zenon DEF Orders
    <3>5. fs \in Seq(Paths)
      BY <3>2, <3>3, <3>4
    <3>6. \A x : Chosen(x) <=> x \in Changed
      BY <2>2 DEF ChangedFiles, Chosen
    <3>7. \A x : (\E i \in DOMAIN fs : fs[i] = x) <=> x \in Paths /\ Chosen(x)
      BY <3>2, <3>4, <3>6
    <3> QED BY <3>1, <3>5, <3>7
  <2> QED BY <2>1, <2>2
<1>4. pc = "collect" /\ pc' = "exclude" /\ files' = fs
      /\ UNCHANGED <<opt, loaded, next, findings, summary, printed, exit>>
  BY <1>3 DEF WalkFiles, ChangedFiles, Collected
<1>5. TypeInv'
  BY <1>1, <1>3, <1>4 DEF CommandInv, TypeInv, IsFlags, Before
<1>6. OptionsInv'
  BY <1>1, <1>4 DEF CommandInv, OptionsInv
<1>7. FilesInv'
  <2>1. \A x : Listed(x)' <=> x \in Paths /\ Chosen(x)'
    BY <1>1, <1>3, <1>4 DEF Listed
  <2> QED BY <1>4, <2>1 DEF FilesInv, Loops, Finish
<1>8. FoundInv' /\ ReportInv'
  BY <1>4 DEF CommandInv, FoundInv, ReportInv, Before, Loops, Finish
<1> QED BY <1>5, <1>6, <1>7, <1>8 DEF CommandInv

LEMMA ExcludeNext ==
    ASSUME CommandInv, Exclude
    PROVE  CommandInv'
<1> DEFINE S == {i \in DOMAIN files : Kept(files[i])}
           fs == Sublist(files, S)
<1>1. /\ UNCHANGED <<args, cfg, scene, flags, Given, Merged>>
      /\ \A x : InScope(x)' = InScope(x)
  BY InputKept, InputFrame
<1>2. /\ pc = "exclude" /\ files' = fs /\ next' = 1 /\ pc' = "evaluate"
      /\ UNCHANGED <<opt, loaded, findings, summary, printed, exit>>
  BY DEF Exclude
<1>3. files \in Seq(Paths) /\ S \subseteq DOMAIN files /\ \A i \in DOMAIN files : i \in S <=> Kept(files[i])
  BY DEF CommandInv, TypeInv
<1> HIDE DEF S
<1>4. /\ Cardinality(S) \in Nat /\ fs \in Seq(Paths) /\ Len(fs) = Cardinality(S)
      /\ \A j \in 1 .. Cardinality(S) : Ascending(S)[j] \in S /\ fs[j] = files[Ascending(S)[j]]
      /\ \A i \in S : \E j \in 1 .. Cardinality(S) : Ascending(S)[j] = i /\ fs[j] = files[i]
  BY <1>3, SublistHas, SMTT(30)
<1> HIDE DEF fs
<1>5. DOMAIN fs = 1 .. Cardinality(S)
  BY <1>4
<1>6. TypeInv'
  BY <1>1, <1>2, <1>4 DEF CommandInv, TypeInv, IsFlags, Loops
<1>7. OptionsInv'
  BY <1>1, <1>2 DEF CommandInv, OptionsInv
<1>8. flags = Given /\ opt = Merged /\ \A x : Listed(x) <=> x \in Paths /\ Chosen(x)
  BY <1>2 DEF CommandInv, OptionsInv, FilesInv
<1>9. \A x : (\E j \in DOMAIN fs : fs[j] = x) <=> Listed(x) /\ Kept(x)
  <2>1. ASSUME NEW j \in DOMAIN fs PROVE Listed(fs[j]) /\ Kept(fs[j])
    <3>1. PICK i \in S : fs[j] = files[i]
      BY <1>4, <1>5
    <3> QED BY <1>3, <3>1 DEF Listed
  <2>2. ASSUME NEW x, Listed(x), Kept(x) PROVE \E j \in DOMAIN fs : fs[j] = x
    <3>1. PICK i \in DOMAIN files : files[i] = x
      BY <2>2 DEF Listed
    <3>2. i \in S
      BY <1>3, <2>2, <3>1
    <3> QED BY <1>4, <1>5, <3>1, <3>2
  <2> QED BY <2>1, <2>2
<1>10. \A x \in Paths : InScope(x) <=> Chosen(x) /\ Kept(x)
  BY <1>8, KeptInScope DEF CommandInv
<1>11. FilesInv'
  <2>1. \A x : Listed(x)' <=> x \in Paths /\ InScope(x)'
    BY <1>1, <1>2, <1>8, <1>9, <1>10, Zenon DEF Listed
  <2> QED BY <1>2, <2>1 DEF FilesInv
<1>12. FoundInv'
  <2>1. findings' = <<>> /\ Sev(findings') = {}
    BY <1>2 DEF CommandInv, FoundInv, Before, Sev
  <2>2. DOMAIN fs \subseteq Nat \ {0}
    BY <1>4, <1>5
  <2>3. \A i \in DOMAIN files' : FoundIn(i)' = {}
    BY <1>2, <2>2 DEF FoundIn, Passed
  <2> QED BY <1>2, <2>1, <2>3 DEF FoundInv, Before, Loops, Finish, Sev
<1>13. ReportInv'
  BY <1>2 DEF ReportInv
<1> QED BY <1>6, <1>7, <1>11, <1>12, <1>13 DEF CommandInv

(* One file of a loop: its issues join those of the files before it. *)
LEMMA LoopNext ==
    ASSUME CommandInv, EvaluateFile \/ EntropyFile \/ DepsFile
    PROVE  CommandInv'
<1> DEFINE x == files[next]
<1>1. /\ UNCHANGED <<args, cfg, scene, flags, Given, Merged>>
      /\ \A y : /\ RuleIssues(y)' = RuleIssues(y) /\ EntropyIssues(y)' = EntropyIssues(y)
                /\ DepIssues(y)' = DepIssues(y) /\ InScope(y)' = InScope(y)
  BY InputKept, InputFrame
<1>2. /\ pc \in {"evaluate", "entropy", "deps"} /\ next <= Len(files) /\ next' = next + 1
      /\ UNCHANGED <<opt, loaded, files, summary, printed, exit, pc>>
  BY DEF EvaluateFile, EntropyFile, DepsFile, Loop
<1>3. TypeInv /\ opt = Merged /\ loaded = (scene.rules[Merged.rules] = "ok")
  BY <1>2 DEF CommandInv, OptionsInv
<1>4. x \in Paths /\ next \in DOMAIN files /\ next \in Nat \ {0} /\ DOMAIN files \subseteq Nat
  <2>1. files \in Seq(Paths) /\ next \in Nat \ {0}
    BY <1>3 DEF TypeInv
  <2> QED BY <1>2, <2>1
<1>5. PICK new \in Seq(Reports) :
          /\ findings' = findings \o new
          /\ \/ pc = "evaluate" /\ Sev(new) = RuleIssues(x)
             \/ pc = "entropy" /\ Sev(new) = EntropyIssues(x)
             \/ pc = "deps" /\ Sev(new) = DepIssues(x)
  <2> HIDE DEF x
  <2>1. CASE EvaluateFile
    <3>1. pc = "evaluate" /\ findings' = findings \o RuleFindings(x)
      BY <2>1 DEF EvaluateFile, Loop, x
    <3>2. RuleFindings(x) \in Seq(Reports) /\ Sev(RuleFindings(x)) = RuleIssues(x)
      BY <1>3, <1>4, RulesFind
    <3> QED BY <3>1, <3>2
  <2>2. CASE EntropyFile
    <3>1. pc = "entropy" /\ findings' = findings \o EntropyFindings(x) /\ ~opt.noEntropy
      BY <2>2 DEF EntropyFile, Loop, x
    <3>2. EntropyFindings(x) \in Seq(Reports) /\ Sev(EntropyFindings(x)) = EntropyIssues(x)
      BY <1>3, <1>4, <3>1, EntropyFinds
    <3> QED BY <3>1, <3>2
  <2>3. CASE DepsFile
    <3>1. pc = "deps" /\ findings' = findings \o DepFindings(x) /\ ~opt.noDeps
      BY <2>3 DEF DepsFile, Loop, x
    <3>2. DepFindings(x) \in Seq(Reports) /\ Sev(DepFindings(x)) = DepIssues(x)
      BY <1>3, <1>4, <3>1, DepsFinds
    <3> QED BY <3>1, <3>2
  <2> QED BY <2>1, <2>2, <2>3
<1>6. findings' \in Seq(Reports) /\ \A v : v \in Sev(findings)' <=> v \in Sev(findings) \/ v \in Sev(new)
  <2>1. findings \in Seq(Reports) /\ Sev(findings)' = Sev(findings')
    BY <1>3 DEF TypeInv, Sev
  <2> QED BY <1>5, <2>1, SevConcat
<1>7. TypeInv'
  BY <1>1, <1>2, <1>3, <1>4, <1>6 DEF TypeInv, IsFlags
<1>8. OptionsInv' /\ ReportInv'
  BY <1>1, <1>2 DEF CommandInv, OptionsInv, ReportInv
<1>9. FilesInv'
  <2>1. \A y : Listed(y)' <=> Listed(y)
    BY <1>2 DEF Listed
  <2> QED BY <1>1, <1>2, <2>1 DEF CommandInv, FilesInv, Loops, Finish
<1>10. FoundInv'
  <2>1. \A i \in DOMAIN files : i < next + 1 <=> i < next \/ i = next
    BY <1>4
  <2>2. ASSUME NEW i \in DOMAIN files, NEW v
        PROVE  v \in FoundIn(i)' <=> v \in FoundIn(i) \/ (i = next /\ v \in Sev(new))
    <3>1. CASE pc = "evaluate"
      <4>1. v \in FoundIn(i)' <=> (i < next \/ i = next) /\ v \in RuleIssues(files[i])
        BY <1>1, <1>2, <2>1, <3>1 DEF FoundIn, Passed
      <4>2. v \in FoundIn(i) <=> i < next /\ v \in RuleIssues(files[i])
        BY <3>1 DEF FoundIn, Passed
      <4>3. Sev(new) = RuleIssues(files[next])
        BY <1>5, <3>1
      <4> QED BY <4>1, <4>2, <4>3, Zenon
    <3>2. CASE pc = "entropy"
      <4>1. v \in FoundIn(i)' <=> v \in RuleIssues(files[i]) \/ ((i < next \/ i = next) /\ v \in EntropyIssues(files[i]))
        BY <1>1, <1>2, <2>1, <3>2 DEF FoundIn, Passed
      <4>2. v \in FoundIn(i) <=> v \in RuleIssues(files[i]) \/ (i < next /\ v \in EntropyIssues(files[i]))
        BY <3>2 DEF FoundIn, Passed
      <4>3. Sev(new) = EntropyIssues(files[next])
        BY <1>5, <3>2
      <4> QED BY <4>1, <4>2, <4>3, Zenon
    <3>3. CASE pc = "deps"
      <4>1. v \in FoundIn(i)' <=> \/ v \in RuleIssues(files[i]) \cup EntropyIssues(files[i])
                                  \/ (i < next \/ i = next) /\ v \in DepIssues(files[i])
        BY <1>1, <1>2, <2>1, <3>3 DEF FoundIn, Passed
      <4>2. v \in FoundIn(i) <=> \/ v \in RuleIssues(files[i]) \cup EntropyIssues(files[i])
                                 \/ i < next /\ v \in DepIssues(files[i])
        BY <3>3 DEF FoundIn, Passed
      <4>3. Sev(new) = DepIssues(files[next])
        BY <1>5, <3>3
      <4> QED BY <4>1, <4>2, <4>3, Zenon
    <3> QED BY <1>2, <3>1, <3>2, <3>3
  <2>3. \A v : v \in Sev(findings) <=> \E i \in DOMAIN files : v \in FoundIn(i)
    BY <1>2 DEF CommandInv, FoundInv, Loops
  <2>4. \A v : v \in Sev(findings)' <=> \E i \in DOMAIN files : v \in FoundIn(i)'
    BY <1>4, <1>6, <2>2, <2>3, Zenon
  <2> QED BY <1>2, <2>4 DEF FoundInv, Before, Loops, Finish
<1> QED BY <1>7, <1>8, <1>9, <1>10 DEF CommandInv

(* The end of a loop: every file is done, or the analyser is off and has   *)
(* no issues.                                                              *)
LEMMA LoopDoneNext ==
    ASSUME CommandInv, EvaluateDone \/ EntropyDone \/ DepsDone
    PROVE  CommandInv'
<1>1. /\ UNCHANGED <<args, cfg, scene, flags, Given, Merged>>
      /\ \A y : /\ RuleIssues(y)' = RuleIssues(y) /\ EntropyIssues(y)' = EntropyIssues(y)
                /\ DepIssues(y)' = DepIssues(y) /\ InScope(y)' = InScope(y)
  BY InputKept, InputFrame
<1>2. /\ \/ pc = "evaluate" /\ pc' = "entropy" /\ next > Len(files)
         \/ pc = "entropy" /\ pc' = "deps" /\ (next > Len(files) \/ opt.noEntropy)
         \/ pc = "deps" /\ pc' = "limit" /\ (next > Len(files) \/ opt.noDeps)
      /\ next' = 1
      /\ UNCHANGED <<opt, loaded, files, findings, summary, printed, exit>>
  BY DEF EvaluateDone, EntropyDone, DepsDone, LoopDone
<1>3. TypeInv /\ opt = Merged
  BY <1>2 DEF CommandInv, OptionsInv
<1>4. \A i \in DOMAIN files : i \in Nat \ {0} /\ (next > Len(files) => i < next)
  <2>1. files \in Seq(Paths) /\ next \in Nat \ {0}
    BY <1>3 DEF TypeInv
  <2> QED BY <2>1
<1>5. TypeInv'
  BY <1>1, <1>2, <1>3 DEF TypeInv, IsFlags, Loops
<1>6. OptionsInv' /\ ReportInv'
  BY <1>1, <1>2 DEF CommandInv, OptionsInv, ReportInv
<1>7. FilesInv'
  <2>1. \A y : Listed(y)' <=> Listed(y)
    BY <1>2 DEF Listed
  <2> QED BY <1>1, <1>2, <2>1 DEF CommandInv, FilesInv, Loops, Finish
<1>8. FoundInv'
  <2>1. \A y : /\ opt.noEntropy => EntropyIssues(y) = {}
               /\ opt.noDeps => DepIssues(y) = {}
    BY <1>3 DEF EntropyIssues, DepIssues
  <2>2. ASSUME NEW i \in DOMAIN files PROVE FoundIn(i)' = FoundIn(i)
    <3>0. i \in Nat \ {0} /\ ~(i < 1) /\ (next > Len(files) => i < next)
      BY <1>4
    <3>1. CASE pc = "evaluate"
      BY <1>1, <1>2, <3>0, <3>1 DEF FoundIn, Passed
    <3>2. CASE pc = "entropy"
      BY <1>1, <1>2, <2>1, <3>0, <3>2 DEF FoundIn, Passed
    <3>3. CASE pc = "deps"
      BY <1>1, <1>2, <2>1, <3>0, <3>3 DEF FoundIn, Passed
    <3> QED BY <1>2, <3>1, <3>2, <3>3
  <2>3. \A v : v \in Sev(findings) <=> \E i \in DOMAIN files : v \in FoundIn(i)
    BY <1>2 DEF CommandInv, FoundInv, Loops
  <2>4. \A v : v \in Sev(findings)' <=> \E i \in DOMAIN files : v \in FoundIn(i)'
    BY <1>2, <2>2, <2>3 DEF Sev
  <2> QED BY <1>2, <2>4 DEF FoundInv, Before, Loops, Finish
<1> QED BY <1>5, <1>6, <1>7, <1>8 DEF CommandInv

(* After the loops the findings have the severities of all issues; the     *)
(* limit can only take some away.                                          *)
LEMMA LimitNext ==
    ASSUME CommandInv, ApplyLimit
    PROVE  CommandInv'
<1>1. UNCHANGED <<args, cfg, scene, flags, Given, Merged, Issues>> /\ \A y : InScope(y)' = InScope(y)
  BY InputKept, InputFrame
<1>2. /\ pc = "limit" /\ pc' = "print" /\ summary' = NewSummary(findings')
      /\ findings' = IF Limited THEN SubSeq(findings, 1, flags.max) ELSE findings
      /\ UNCHANGED <<opt, loaded, files, next, printed, exit>>
  BY DEF ApplyLimit
<1>3. /\ TypeInv /\ findings \in Seq(Reports) /\ files \in Seq(Paths)
      /\ flags = Given /\ flags.max \in Int /\ exit = 0
  BY <1>2, Inputs DEF CommandInv, TypeInv, OptionsInv
<1>4. \A v : v \in Sev(findings) <=> v \in Issues
  <2>1. \A v : v \in Sev(findings) <=> \E i \in DOMAIN files : v \in FoundIn(i)
    BY <1>2 DEF CommandInv, FoundInv, Loops
  <2>2. \A i : FoundIn(i) = RuleIssues(files[i]) \cup EntropyIssues(files[i]) \cup DepIssues(files[i])
    BY <1>2 DEF FoundIn, Passed
  <2>3. \A x : (\E i \in DOMAIN files : files[i] = x) <=> x \in Paths /\ InScope(x)
    BY <1>2, <1>3 DEF CommandInv, FilesInv, Loops, Listed
  <2>4. \A v : v \in Issues <=>
            \E x \in Paths : InScope(x) /\ v \in RuleIssues(x) \cup EntropyIssues(x) \cup DepIssues(x)
    BY <1>3, IssuesAre
  <2>5. \A v : v \in Sev(findings) <=>
            \E i \in DOMAIN files : v \in RuleIssues(files[i]) \cup EntropyIssues(files[i]) \cup DepIssues(files[i])
    BY <2>1, <2>2
  <2>6. ASSUME NEW v, v \in Sev(findings) PROVE v \in Issues
    <3>1. PICK i \in DOMAIN files : v \in RuleIssues(files[i]) \cup EntropyIssues(files[i]) \cup DepIssues(files[i])
      BY <2>5, <2>6
    <3>2. files[i] \in Paths /\ InScope(files[i])
      BY <2>3
    <3> QED BY <2>4, <3>1, <3>2
  <2>7. ASSUME NEW v, v \in Issues PROVE v \in Sev(findings)
    <3>1. PICK x \in Paths : InScope(x) /\ v \in RuleIssues(x) \cup EntropyIssues(x) \cup DepIssues(x)
      BY <2>4, <2>7
    <3>2. PICK i \in DOMAIN files : files[i] = x
      BY <2>3, <3>1
    <3> QED BY <2>5, <3>1, <3>2
  <2> QED BY <2>6, <2>7
<1>5. /\ findings' \in Seq(Reports) /\ Sev(findings)' \subseteq Sev(findings)
      /\ findings' = findings \/ (Given.max > 0 /\ Len(findings') = Given.max)
  <2>1. CASE Limited
    <3>1. flags.max <= Len(findings) /\ flags.max > 0 /\ findings' = SubSeq(findings, 1, flags.max)
      BY <1>2, <1>3, <2>1 DEF Limited
    <3>2. /\ SubSeq(findings, 1, flags.max) \in Seq(Reports)
          /\ Len(SubSeq(findings, 1, flags.max)) = flags.max
          /\ \A i \in 1 .. flags.max : i \in DOMAIN findings /\ SubSeq(findings, 1, flags.max)[i] = findings[i]
      BY <1>3, <3>1
    <3>3. findings' \in Seq(Reports) /\ DOMAIN findings' = 1 .. flags.max
      BY <3>1, <3>2
    <3> QED BY <1>3, <3>1, <3>2, <3>3 DEF Sev
  <2>2. CASE ~Limited
    BY <1>2, <1>3, <2>2 DEF Sev
  <2> QED BY <2>1, <2>2
<1>6. TypeInv'
  BY <1>1, <1>2, <1>3, <1>5 DEF TypeInv, IsFlags, Finish
<1>7. OptionsInv' /\ ReportInv'
  BY <1>1, <1>2 DEF CommandInv, OptionsInv, ReportInv
<1>8. FilesInv'
  <2>1. \A y : Listed(y)' <=> Listed(y)
    BY <1>2 DEF Listed
  <2> QED BY <1>1, <1>2, <2>1 DEF CommandInv, FilesInv, Loops, Finish
<1>9. FoundInv'
  <2>1. Sev(findings)' \subseteq Issues'
    BY <1>1, <1>4, <1>5
  <2>2. Sev(findings)' = Issues' \/ (Given'.max > 0 /\ Len(findings') = Given'.max)
    <3>1. Sev(findings) = Issues
      BY <1>4
    <3>2. findings' = findings => Sev(findings)' = Sev(findings)
      BY DEF Sev
    <3> QED BY <1>1, <1>5, <3>1, <3>2
  <2>3. summary' = NewSummary(findings)'
    BY <1>2 DEF NewSummary, Count, Score
  <2> QED BY <1>2, <2>1, <2>2, <2>3 DEF FoundInv, Before, Loops, Finish
<1> QED BY <1>6, <1>7, <1>8, <1>9 DEF CommandInv

LEMMA EndNext ==
    ASSUME CommandInv, Report \/ Exit
    PROVE  CommandInv'
<1>1. UNCHANGED <<args, cfg, scene, flags, Given, Merged, Issues>> /\ \A y : InScope(y)' = InScope(y)
  BY InputKept, InputFrame
<1>2. /\ pc \in {"print", "exit"} /\ pc' \in {"exit", "exited"}
      /\ UNCHANGED <<opt, loaded, files, next, findings, summary>>
  BY DEF Report, Exit
<1>3. exit = 0
  BY <1>2 DEF CommandInv, OptionsInv
<1>4. \A v : Level(v)' = Level(v)
  BY <1>2 DEF Level
<1>5. TypeInv'
  BY <1>1, <1>2 DEF CommandInv, TypeInv, IsFlags, Finish
<1>6. OptionsInv'
  BY <1>1, <1>2, <1>3 DEF CommandInv, OptionsInv, Report, Exit
<1>7. FilesInv'
  <2>1. \A y : Listed(y)' <=> Listed(y)
    BY <1>2 DEF Listed
  <2> QED BY <1>1, <1>2, <1>3, <2>1 DEF CommandInv, FilesInv, Loops, Finish
<1>8. FoundInv'
  <2>1. Sev(findings)' = Sev(findings) /\ NewSummary(findings)' = NewSummary(findings)
    BY <1>2 DEF Sev, NewSummary, Count, Score
  <2> QED BY <1>1, <1>2, <1>3, <2>1 DEF CommandInv, FoundInv, Before, Loops, Finish
<1>9. ReportInv'
  <2>1. CASE Report
    BY <1>2, <1>3, <1>4, <2>1 DEF ReportInv, Report
  <2>2. CASE Exit
    <3>1. /\ printed' = printed /\ exit' = ExitCode(summary, opt.failOn) /\ pc = "exit"
          /\ printed = [i \in DOMAIN findings |-> [level |-> Level(findings[i].severity), path |-> findings[i].path]]
      BY <1>3, <2>2 DEF CommandInv, ReportInv, Exit
    <3>2. ExitCode(summary, opt.failOn)' = ExitCode(summary, opt.failOn)
      BY <1>2 DEF ExitCode
    <3> QED BY <1>2, <1>4, <3>1, <3>2 DEF ReportInv
  <2> QED BY <2>1, <2>2
<1> QED BY <1>5, <1>6, <1>7, <1>8, <1>9 DEF CommandInv

LEMMA CommandStutter ==
    ASSUME CommandInv, UNCHANGED vars
    PROVE  CommandInv'
<1>1. UNCHANGED <<input, flags>> /\ UNCHANGED <<opt, loaded, files, next, findings, summary, printed, exit, pc>>
  BY DEF vars
<1>2. /\ UNCHANGED <<args, cfg, scene, flags, Given, Merged, Issues>>
      /\ \A y : /\ RuleIssues(y)' = RuleIssues(y) /\ EntropyIssues(y)' = EntropyIssues(y)
                /\ DepIssues(y)' = DepIssues(y) /\ Chosen(y)' = Chosen(y) /\ InScope(y)' = InScope(y)
  BY <1>1, InputFrame
<1>3. TypeInv' /\ OptionsInv'
  BY <1>1, <1>2 DEF CommandInv, TypeInv, IsFlags, OptionsInv
<1>4. FilesInv'
  <2>1. \A y : Listed(y)' <=> Listed(y)
    BY <1>1 DEF Listed
  <2> QED BY <1>1, <1>2, <2>1 DEF CommandInv, FilesInv
<1>5. FoundInv'
  <2>1. Sev(findings)' = Sev(findings) /\ NewSummary(findings)' = NewSummary(findings)
    BY <1>1 DEF Sev, NewSummary, Count, Score
  <2>2. \A i : FoundIn(i)' = FoundIn(i)
    BY <1>1, <1>2 DEF FoundIn, Passed
  <2> QED BY <1>1, <1>2, <2>1, <2>2 DEF CommandInv, FoundInv
<1>6. ReportInv'
  <2>1. \A v : Level(v)' = Level(v)
    BY <1>1 DEF Level
  <2>2. ExitCode(summary, opt.failOn)' = ExitCode(summary, opt.failOn)
    BY <1>1 DEF ExitCode
  <2> QED BY <1>1, <2>1, <2>2 DEF CommandInv, ReportInv
<1> QED BY <1>3, <1>4, <1>5, <1>6 DEF CommandInv

(* The invariant of the command holds of every run. *)
THEOREM CommandCorrect == Spec => []CommandInv
<1>1. CommandInv /\ [Next]_vars => CommandInv'
  BY ParseNext, BeforeNext, CollectNext, ExcludeNext, LoopNext, LoopDoneNext, LimitNext, EndNext, CommandStutter DEF Next
<1> QED BY <1>1, CommandInit, PTL DEF Spec

(***************************************************************************)
(* The summary and the exit code say what the findings are.                *)
(***************************************************************************)
LEMMA Counted ==
    ASSUME NEW fs \in Seq(Reports), NEW v
    PROVE  Count(fs, v) \in Nat /\ (Count(fs, v) > 0 <=> v \in Sev(fs))
<1> DEFINE S == {i \in DOMAIN fs : fs[i].severity = v}
<1>1. IsFiniteSet(DOMAIN fs)
  <2>1. DOMAIN fs = 1 .. Len(fs) /\ Len(fs) \in Nat
    OBVIOUS
  <2> QED BY <2>1, FS_Interval
<1>2. IsFiniteSet(S)
  BY <1>1, FS_Subset
<1>3. S # {} <=> v \in Sev(fs)
  BY DEF Sev
<1>4. Count(fs, v) = Cardinality(S)
  BY DEF Count
<1> HIDE DEF S
<1>5. Cardinality(S) \in Nat /\ (Cardinality(S) = 0 <=> S = {})
  BY <1>2, FS_CardinalityType, FS_EmptySet
<1> QED BY <1>3, <1>4, <1>5

LEMMA ExitCodeSays ==
    ASSUME NEW fs \in Seq(Reports), NEW failOn
    PROVE  ExitCode(NewSummary(fs), failOn) = IF Sev(fs) \cap Gate(failOn) # {} THEN 1 ELSE 0
<1> DEFINE s == NewSummary(fs)
<1>1. \A v : Count(fs, v) \in Nat /\ (Count(fs, v) > 0 <=> v \in Sev(fs))
  BY Counted
<1>2. /\ s.total = Len(fs) /\ s.by["critical"] = Count(fs, "critical")
      /\ s.by["high"] = Count(fs, "high") /\ s.by["medium"] = Count(fs, "medium")
  BY DEF NewSummary, Severities
<1>3. Len(fs) > 0 <=> Sev(fs) \cap Severities # {}
  <2>1. Len(fs) \in Nat /\ DOMAIN fs = 1 .. Len(fs) /\ \A i \in 1 .. Len(fs) : fs[i].severity \in Severities
    BY ReportSeverities
  <2>2. ASSUME Len(fs) > 0 PROVE Sev(fs) \cap Severities # {}
    <3>1. 1 \in 1 .. Len(fs)
      BY <2>1, <2>2
    <3> QED BY <2>1, <3>1 DEF Sev
  <2>3. ASSUME Sev(fs) \cap Severities # {} PROVE Len(fs) > 0
    BY <2>1, <2>3 DEF Sev
  <2> QED BY <2>2, <2>3
<1> HIDE DEF s
<1>4. CASE failOn = "critical"
  BY <1>1, <1>2, <1>4 DEF ExitCode, Gate, s
<1>5. CASE failOn = "high"
  <2>1. s.by["critical"] + s.by["high"] > 0 <=> "critical" \in Sev(fs) \/ "high" \in Sev(fs)
    BY <1>1, <1>2
  <2> QED BY <1>5, <2>1 DEF ExitCode, Gate, s
<1>6. CASE failOn = "medium"
  <2>1. s.by["critical"] + s.by["high"] + s.by["medium"] > 0
            <=> "critical" \in Sev(fs) \/ "high" \in Sev(fs) \/ "medium" \in Sev(fs)
    BY <1>1, <1>2
  <2> QED BY <1>6, <2>1 DEF ExitCode, Gate, s
<1>7. CASE failOn = "low"
  BY <1>2, <1>3, <1>7 DEF ExitCode, Gate, s
<1>8. CASE failOn \notin {"critical", "high", "medium", "low"}
  BY <1>8 DEF ExitCode, Gate
<1> QED BY <1>4, <1>5, <1>6, <1>7, <1>8

(* What the invariant says at the end. *)
LEMMA AtTheEnd ==
    ASSUME CommandInv, Ended
    PROVE  /\ findings \in Seq(Reports)
           /\ Sev(findings) \subseteq Issues
           /\ Sev(findings) = Issues \/ (Given.max > 0 /\ Len(findings) = Given.max)
           /\ exit = IF Sev(findings) \cap Gate(FailOn) # {} THEN 1 ELSE 0
           /\ summary = NewSummary(findings)
           /\ printed = [i \in DOMAIN findings |-> [level |-> Level(findings[i].severity), path |-> findings[i].path]]
<1>1. opt.failOn = FailOn
  <2>1. flags = Given /\ opt = Merged
    BY DEF CommandInv, OptionsInv, Ended
  <2>2. Merged.failOn = FailOn
    BY <2>1, OrIsWanted DEF Merged, FailOn
  <2> QED BY <2>1, <2>2
<1>2. /\ findings \in Seq(Reports) /\ Sev(findings) \subseteq Issues
      /\ Sev(findings) = Issues \/ (Given.max > 0 /\ Len(findings) = Given.max)
      /\ summary = NewSummary(findings)
  BY DEF CommandInv, TypeInv, FoundInv, Ended, Finish
<1>3. /\ exit = ExitCode(summary, opt.failOn)
      /\ printed = [i \in DOMAIN findings |-> [level |-> Level(findings[i].severity), path |-> findings[i].path]]
  BY DEF CommandInv, ReportInv, Ended
<1> QED BY <1>1, <1>2, <1>3, ExitCodeSays

(* For any command lines, configs and trees: without --max-findings the    *)
(* exit code is 1 exactly when a file in scope has an issue of a level     *)
(* --fail-on asks for, where the flags are those before the directory.     *)
THEOREM ExitIsRight == Spec => []ExitRight
<1>1. CommandInv => ExitRight
  <2> SUFFICES ASSUME CommandInv, Ended, Given.max <= 0 PROVE exit = ExpectedExit
    BY DEF ExitRight
  <2>1. Given.max \in Int
    BY Inputs DEF CommandInv, OptionsInv, Ended
  <2>2. Sev(findings) = Issues
    BY <2>1, AtTheEnd
  <2> QED BY <2>2, AtTheEnd DEF ExpectedExit
<1> QED BY <1>1, CommandCorrect, PTL

(* With any limit the exit code is that of the report, 1 has a reason      *)
(* among the issues, and a failing issue is missed only in a report that   *)
(* is full.                                                                *)
THEOREM ExitIsExplained == Spec => []ExitExplained
<1>1. CommandInv => ExitExplained
  <2> SUFFICES ASSUME CommandInv, Ended PROVE ExitExplained
    BY DEF ExitExplained
  <2>1. /\ exit = IF Sev(findings) \cap Gate(FailOn) # {} THEN 1 ELSE 0
        /\ Sev(findings) \subseteq Issues
        /\ Sev(findings) = Issues \/ (Given.max > 0 /\ Len(findings) = Given.max)
    BY AtTheEnd
  <2>2. exit = 1 <=> \E i \in DOMAIN findings : findings[i].severity \in Gate(FailOn)
    BY <2>1 DEF Sev
  <2>3. exit = 1 => ExpectedExit = 1
    BY <2>1 DEF ExpectedExit
  <2>4. exit # ExpectedExit => Given.max > 0 /\ Len(findings) = Given.max
    BY <2>1 DEF ExpectedExit
  <2>5. Len(printed) = Len(findings)
    <3>1. findings \in Seq(Reports) /\ DOMAIN printed = DOMAIN findings
      BY AtTheEnd
    <3>2. DOMAIN printed = 1 .. Len(findings) /\ Len(findings) \in Nat
      BY <3>1
    <3>3. printed = [i \in 1 .. Len(findings) |-> printed[i]]
      BY <3>2, AtTheEnd
    <3> QED BY <3>2, <3>3
  <2> QED BY <2>2, <2>3, <2>4, <2>5 DEF ExitExplained
<1> QED BY <1>1, CommandCorrect, PTL

(* Annotations and SARIF hold an error exactly when the summary says that  *)
(* the check did not pass.                                                 *)
THEOREM ErrorsAreVerdict == Spec => []ErrorsMatchVerdict
<1>1. CommandInv => ErrorsMatchVerdict
  <2> SUFFICES ASSUME CommandInv, Ended, opt.format \in {"gh", "sarif"}
               PROVE  summary.passed <=> \A i \in DOMAIN printed : printed[i].level # "error"
    BY DEF ErrorsMatchVerdict
  <2>1. /\ findings \in Seq(Reports) /\ summary = NewSummary(findings)
        /\ printed = [i \in DOMAIN findings |-> [level |-> Level(findings[i].severity), path |-> findings[i].path]]
    BY AtTheEnd
  <2>2. ASSUME NEW v \in Severities PROVE Level(v) = "error" <=> v \in {"critical", "high"}
    <3>1. v \in {"critical", "high"} => Level(v) = "error"
      BY DEF Level
    <3>2. v \notin {"critical", "high"} => Level(v) \in {"notice", "note", "warning"}
      BY DEF Level
    <3> QED BY <3>1, <3>2
  <2>3. \A i \in DOMAIN findings : findings[i].severity \in Severities
    BY <2>1, ReportSeverities
  <2>4. (\A i \in DOMAIN printed : printed[i].level # "error")
            <=> \A i \in DOMAIN findings : findings[i].severity \notin {"critical", "high"}
    BY <2>1, <2>2, <2>3
  <2>5. summary.passed <=> ~("critical" \in Sev(findings)) /\ ~("high" \in Sev(findings))
    <3>1. summary.passed <=> Count(findings, "critical") = 0 /\ Count(findings, "high") = 0
      BY <2>1 DEF NewSummary
    <3>2. \A v : Count(findings, v) \in Nat /\ (Count(findings, v) > 0 <=> v \in Sev(findings))
      BY <2>1, Counted
    <3> QED BY <3>1, <3>2
  <2> QED BY <2>4, <2>5 DEF Sev
<1> QED BY <1>1, CommandCorrect, PTL
=============================================================================
