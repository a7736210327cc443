----------------------------- MODULE MC_TypeText -----------------------------
(* Two layouts that share one letter, three characters in neither.          *)
EXTENDS TypeText

MCTexts == {<<"a", "b", "x">>, <<"x", "y", "x", "z", "a">>, <<"u">>}
MCLayouts == {"us", "de"}
MCLayoutChars == [us |-> {"a", "b"}, de |-> {"a", "u"}]
==============================================================================
