------------------------------ MODULE MCParser ------------------------------
(***************************************************************************)
(* Inputs that begin in front of each construct of the grammar.            *)
(***************************************************************************)
EXTENDS ASTDump

From(script, lexicon, free) ==
    [script |-> script, lexicon |-> lexicon, max |-> Len(script) + free]

Main == <<"def", "f", "(", ")", "{">>

Ids == {"f", "S", "x", "print"}

Inputs ==
    { From(<<"def">>, {"f", "(", ")", ",", "{", "}"}, 8),
      From(<<"def">>, {"struct", "S", "{", "}", ";"}, 6),
      From(<<"struct">>, {"S", "var", "{", "}", ";"}, 9),
      From(Main, {"x", "num", "+", "*", "(", ")", ";", "}"}, 8),
      From(Main \o <<"x">>, {"x", "-", "+", "*", ".", ";", "}"}, 9),
      From(Main, {"print", "f", "(", ")", ",", ";", "}"}, 9),
      From(Main \o <<"return">>, {"num", "[", "]", ",", ";", "}"}, 12),
      From(Main, {"var", "x", "<", "num", ",", ">", "=", ";", "}"}, 9),
      From(Main, {"return", "x", "num", "(", ";", "}"}, 7),
      From(<<"struct", "S", "{", "var", "x", ";", "}">> \o Main \o <<"S">>,
             {"x", "=", "{", "}", "num", ",", ";"}, 9),
      From(<<"struct", "S", "{">> \o Main, {"S", "x", "=", "num", ";", "}"}, 8),
      From(Main \o <<"S", ";", "}", "struct", "S", "{", "var", "x", ";", "}">> \o Main,
             {"S", "x", "=", "num", ";", "}"}, 7) }
=============================================================================
