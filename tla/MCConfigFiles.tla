--------------------------- MODULE MCConfigFiles ----------------------------
(***************************************************************************)
(* ConfigFiles for TLC: arrays of five, four and four characters, and      *)
(* lines up to the longest that fit them, some of which look like answers. *)
(***************************************************************************)
EXTENDS ConfigFiles

SomeAnswers == {<<>>, <<"s">>, <<"n">>}
SomeKeys == {<<>>, <<"n">>, <<"k", "y">>}
SomeUrls == {<<>>, <<"u">>}
SomePorts == {<<"n">>, <<"8">>}

(* Empty, short, and too long for any of the arrays.                       *)
SomeGarbage == {<<>>, <<"?">>, <<"?", "?", "?", "?", "?", "?">>}

ASSUME OperatorAssumption == LinesFit
=============================================================================
