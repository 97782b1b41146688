------------------------------ MODULE MCPublisher ------------------------------
EXTENDS PublisherHandler

CONSTANTS a, b, bar

MCCharacters == {0, 1, a, b, bar}
MCNoType == <<>>
(* The empty type is among them. *)
MCTypes == {<<>>, <<a>>, <<a, b>>}
MCOneType == {<<a>>}
(* One with a leading zero. *)
MCNumerals == {<<0>>, <<1>>, <<0, 1>>, <<1, 0>>}
(* Without content, with a bar in it, and long enough for two digits.      *)
MCContents == {<<>>, <<bar>>, <<b, bar>>}
MCOneContent == {<<b>>}
===============================================================================
