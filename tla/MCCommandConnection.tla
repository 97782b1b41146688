------------------------- MODULE MCCommandConnection -------------------------
EXTENDS CommandConnection

CONSTANTS a, b, c, n, verb, blank

MCIntent == <<c, Cr>>
MCName == <<a, b>>
MCSubscribe == <<verb>>
MCSubscriberName == <<n>>
MCSubs == {<<a>>, <<a, b>>}
MCTypes == {<<a>>, <<a, b>>}
MCBlanks == {blank}
MCCharacters == {a, b, c, n, verb, Cr, Bar, Comma, blank, Plus, Minus} \cup 0 .. 9
(* A subscription for longer than the command for the same name asks.      *)
MCTaken == <<[sub |-> <<a>>, timeout |-> 2]>>
(* Two names at once with a timeout of -7, which is 1, and a command       *)
(* without a field; then, in a batch of its own, one with a separator too  *)
(* many at its end and at that of its names, and a timeout beyond the      *)
(* clock.                                                                  *)
MCCommands == <<
  << <<n>>, <<verb>>, <<a, Comma, a, b>>, <<blank, Minus, 7>> >>,
  << <<n>>, <<verb>>, <<a>>, <<>> >>,
  << <<n>>, <<verb>>, <<a, Comma>>, <<9>>, <<>> >> >>
MCBatchEnds == <<2, 3>>
===============================================================================
