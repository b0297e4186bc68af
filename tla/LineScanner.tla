----------------------------- MODULE LineScanner -----------------------------
(***************************************************************************)
(* bufio.Scanner as pkg/entropy and pkg/deps use it: the lines of a text   *)
(* in order, up to the first that is longer than the scanner's buffer.     *)
(* Neither package asks the scanner for its error.                         *)
(***************************************************************************)
EXTENDS Lists

(* long: the positions of the lines that do not fit. *)
Scanned(lines, long) ==
    LET ScannedTo(n) == /\ \A i \in 1 .. n : i \notin long
                        /\ n = Len(lines) \/ n + 1 \in long
    IN  SubSeq(lines, 1, CHOOSE n \in 0 .. Len(lines) : ScannedTo(n))
=============================================================================
