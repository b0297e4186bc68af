------------------------------- MODULE Entropy -------------------------------
(***************************************************************************)
(* pkg/entropy/entropy.go: the search for strings that look like secrets.  *)
(* A line is its kind and the strings it assigns, each with its alphabet   *)
(* and its Shannon entropy, of which only the order is used.               *)
(***************************************************************************)
EXTENDS LineScanner

CONSTANT DefaultThreshold

ASSUME EntropyAssumption == DefaultThreshold \in Nat \ {0}

EntropyLines == [kind : {"code", "comment", "long"},
                 strings : Seq([alphabet : {"token", "other"}, entropy : Nat])]

IsEntropyCandidate(v) == v.alphabet = "token"

(* The strings of a line that are reported; comments are passed over. *)
Secrets(line, least) ==
    Sublist(line.strings, {i \in DOMAIN line.strings : /\ line.kind # "comment"
                                                       /\ IsEntropyCandidate(line.strings[i])
                                                       /\ line.strings[i].entropy >= least})

(* What is found after each line. *)
FoundAfter(lines, least) ==
    LET found[n \in 0 .. Len(lines)] ==
            IF n = 0 THEN <<>> ELSE found[n - 1] \o Secrets(lines[n], least)
    IN  found

(* The candidates at or over the threshold, line by line. *)
Scan(lines, threshold) ==
    LET least == IF threshold <= 0 THEN DefaultThreshold ELSE threshold
        scanned == Scanned(lines, {i \in DOMAIN lines : lines[i].kind = "long"})
    IN  FoundAfter(scanned, least)[Len(scanned)]

(* Is there a secret in what is scanned? *)
HasSecret(lines, least) ==
    \E n \in DOMAIN lines :
        /\ lines[n].kind = "code"
        /\ \A k \in 1 .. n : lines[k].kind # "long"
        /\ \E i \in DOMAIN lines[n].strings :
               lines[n].strings[i].alphabet = "token" /\ lines[n].strings[i].entropy >= least
=============================================================================
