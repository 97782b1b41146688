----------------------------- MODULE StringUtils -----------------------------
(***************************************************************************)
(* StringUtils.hpp, for strings as sequences of characters: how the code   *)
(* splits what it has read, and what a peer writes for it to split.        *)
(***************************************************************************)
EXTENDS Integers, Sequences, SequencesExt

(* The first n parts, one after the other, for each n. *)
Concats(parts) ==
  LET first[n \in 0 .. Len(parts)] == IF n = 0 THEN <<>> ELSE first[n - 1] \o parts[n]
  IN  first
Concat(parts) == Concats(parts)[Len(parts)]

(* The parts with a delimiter behind each, and behind each but the last. *)
Ended(parts, delimiter) == [i \in DOMAIN parts |-> Append(parts[i], delimiter)]
Join(parts, delimiter) == Front(Concat(Ended(parts, delimiter)))
-------------------------------------------------------------------------------
(* The strings that end with a delimiter, and what follows the last one,   *)
(* as the loop collects them.                                              *)
CutBy(collected, character, delimiter) ==
  IF character = delimiter
  THEN [strings |-> Append(collected.strings, collected.buf), buf |-> <<>>]
  ELSE [collected EXCEPT !.buf = Append(@, character)]
Collected(text, delimiter) ==
  LET collected[n \in 0 .. Len(text)] ==
        IF n = 0 THEN [strings |-> <<>>, buf |-> <<>>]
        ELSE CutBy(collected[n - 1], text[n], delimiter)
  IN  collected
Cut(text, delimiter) == Collected(text, delimiter)[Len(text)]

(* What follows the last delimiter is a string unless it is empty. *)
Split(text, delimiter) ==
  LET end == Cut(text, delimiter)
  IN  IF end.buf = <<>> THEN end.strings ELSE Append(end.strings, end.buf)
===============================================================================
