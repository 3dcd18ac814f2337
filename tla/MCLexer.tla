------------------------------ MODULE MCLexer ------------------------------
(***************************************************************************)
(* Texts for the lexer, put together from pieces that touch each other in  *)
(* every order.                                                            *)
(***************************************************************************)
EXTENDS Lexer

MCLetters == {"r", "e", "t", "u", "n", "d", "f", "v", "a", "s", "c"}
MCDigits == {"0", "1"}

Chars == {"a", "1", ".", "#", " ", "nl", "_"}

Pieces ==
    {<<c>> : c \in Chars \cup {"cr", "nul", "ff", "ce", "cd", ";"}}
    \cup {Keywords[k] : k \in DOMAIN Keywords}

(* Three of all pieces, and five characters of which the first two begin a *)
(* comment, a number or an identifier.                                     *)
MCTexts ==
    { p \o q \o r : p \in Pieces \cup {<< >>}, q \in Pieces, r \in Pieces }
    \cup { p \o <<b, c, d>> : p \in {<<"a", "#">>, <<"1", ".">>, <<"nl", "a">>},
                            b \in Chars, c \in Chars, d \in Chars }
=============================================================================
