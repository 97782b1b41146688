------------------------------- MODULE MCBroker -------------------------------
EXTENDS Broker

CONSTANTS c1, c2, n1, n2, t1, t2, s1, s2

(* c1 gives its name in one read; the first read of c2's name, cut short,  *)
(* is c1's.                                                                *)
MCNameReads == (c1 :> <<n1>> @@ c2 :> <<n1, n2>>)
MCOneName == (c1 :> <<n1>>)
MCTwoReads == (c1 :> <<n1, n2>>)
MCStartsWith == {<<s1, t1>>}
===============================================================================
