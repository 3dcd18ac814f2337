------------------------------- MODULE Lexer -------------------------------
(***************************************************************************)
(* The lexer of src/inc/Lexer.h on a buffer in memory.  A character is a   *)
(* string: itself, "nl", "cr", "nul" (also the terminator behind the       *)
(* buffer) or the two hexadecimal digits of a byte above 127.  Such a byte *)
(* is a negative char, and the token of the same number is what it is for  *)
(* the lexer.                                                              *)
(*                                                                         *)
(* A step is one iteration of a loop of getTok.                            *)
(***************************************************************************)
EXTENDS Integers, SequencesExt

CONSTANTS Texts, Letters, Digits

VARIABLES
    text,            \* the buffer
    current,         \* the first character that is not in a line yet
    curLineBuffer,   \* what is left of the line
    lastChar,        \* the character read ahead, as a Token
    identifierStr,
    numStr,          \* the characters of the last number, and
    numVal,          \* what strtod made of them
    curTok,
    lastLocation,
    curLineNum,
    curCol,
    in,              \* "idle", or the loop getTok is in
    out              \* the tokens returned so far

vars == <<text, current, curLineBuffer, lastChar, identifierStr, numStr, numVal,
          curTok, lastLocation, curLineNum, curCol, in, out>>

-----------------------------------------------------------------------------
(* Characters.                                                             *)

Space == {" ", "nl", "cr"}
WordChars == Letters \cup Digits \cup {"_"}
NumberChars == Digits \cup {"."}

Keywords ==
    [return |-> <<"r", "e", "t", "u", "r", "n">>, def |-> <<"d", "e", "f">>,
     var |-> <<"v", "a", "r">>, struct |-> <<"s", "t", "r", "u", "c", "t">>]

(* The tokens whose numbers are those of bytes: 0xFF is -1, and so on.     *)
NegativeTokens ==
    [ff |-> "eof", fe |-> "return", fd |-> "var", fc |-> "def", fb |-> "struct",
     ce |-> "identifier", cd |-> "number"]

TokenNames == {NegativeTokens[c] : c \in DOMAIN NegativeTokens}

(* A character is of one kind, and no name of a token.                     *)
ASSUME CharactersAreDistinct ==
    /\ Letters \cap Digits = {}
    /\ (Letters \cup Digits)
       \cap (Space \cup {"_", ".", "#", "nul"} \cup DOMAIN NegativeTokens \cup TokenNames) = {}

ASSUME TextsAreOfCharacters ==
    \A t \in Texts : t \in Seq(ToSet(t)) /\ ToSet(t) \cap TokenNames = {}

TokenOf(c) == IF c \in DOMAIN NegativeTokens THEN NegativeTokens[c] ELSE c

KeywordOr(other, word) ==
    IF \E k \in DOMAIN Keywords : Keywords[k] = word
    THEN CHOOSE k \in DOMAIN Keywords : Keywords[k] = word ELSE other

(* strtod reads no further than to a second point.                         *)
Strtod(s) ==
    LET second == {n \in DOMAIN s : s[n] = "." /\ \E m \in 1 .. n - 1 : s[m] = "."}
    IN  IF second = {} THEN s ELSE SubSeq(s, 1, Min(second) - 1)

-----------------------------------------------------------------------------
(* The buffer.                                                             *)

(* readNextLine stops behind a newline, and in front of a NUL wherever it  *)
(* is.                                                                     *)
ReadNextLine ==
    LET stops == {n \in current .. Len(text) : text[n] \in {"nl", "nul"}}
    IN  IF stops = {} THEN SubSeq(text, current, Len(text))
        ELSE IF text[Min(stops)] = "nul" THEN SubSeq(text, current, Min(stops) - 1)
        ELSE SubSeq(text, current, Min(stops))

(* Faulty variant: the column goes on over the end of the line.            *)
NextColumnRunning(c) == curCol + 1

NextColumn(c) == IF c = "nl" THEN 0 ELSE curCol + 1

(* lastChar = Token(getNextChar()).                                        *)
Advance ==
    \/ /\ curLineBuffer = << >>
       /\ lastChar' = "eof"
       /\ UNCHANGED <<text, current, curLineBuffer, curLineNum, curCol>>
    \/ /\ curLineBuffer # << >>
       /\ LET c == Head(curLineBuffer)
              line == IF Len(curLineBuffer) = 1 THEN ReadNextLine ELSE << >>
          IN  /\ lastChar' = TokenOf(c)
              /\ curLineBuffer' = Tail(curLineBuffer) \o line
              /\ current' = current + Len(line)
              /\ curLineNum' = curLineNum + (IF c = "nl" THEN 1 ELSE 0)
              /\ curCol' = NextColumn(c)
       /\ text' = text

Reading == <<text, current, curLineBuffer, lastChar, curLineNum, curCol>>
Strings == <<identifierStr, numStr, numVal>>

-----------------------------------------------------------------------------
(* getTok.                                                                 *)

Ended == out # << >> /\ Last(out).tok = "eof"

(* A call after the end of the file is not recorded.                       *)
Give(tok, id, num, location) ==
    /\ curTok' = tok /\ in' = "idle"
    /\ out' = IF Ended THEN out
              ELSE Append(out, [tok |-> tok, id |-> id, num |-> num, location |-> location])

GetNextToken ==
    /\ in = "idle" /\ in' = "skip"
    /\ UNCHANGED <<Reading, Strings, curTok, lastLocation, out>>

SkipSpace ==
    /\ in = "skip" /\ lastChar \in Space
    /\ Advance
    /\ UNCHANGED <<Strings, curTok, lastLocation, in, out>>

(* Where the token begins.                                                 *)
Locate == in = "skip" /\ lastLocation' = <<curLineNum, curCol>>

(* Faulty variant: the string is not cleared.                              *)
BeginIdentifierOn ==
    /\ Locate /\ lastChar \in Letters
    /\ identifierStr' = Append(identifierStr, lastChar) /\ in' = "identifier"
    /\ UNCHANGED <<Reading, numStr, numVal, curTok, out>>

BeginIdentifier ==
    /\ Locate /\ lastChar \in Letters
    /\ identifierStr' = <<lastChar>> /\ in' = "identifier"
    /\ UNCHANGED <<Reading, numStr, numVal, curTok, out>>

ReadIdentifier ==
    /\ in = "identifier" /\ Advance
    /\ UNCHANGED <<numStr, numVal, lastLocation>>
    /\ \/ /\ lastChar' \in WordChars
          /\ identifierStr' = Append(identifierStr, lastChar')
          /\ UNCHANGED <<curTok, in, out>>
       \/ /\ lastChar' \notin WordChars
          /\ identifierStr' = identifierStr
          /\ Give(KeywordOr("identifier", identifierStr), identifierStr, numVal, lastLocation)

BeginNumber ==
    /\ Locate /\ lastChar \in Digits
    /\ numStr' = <<lastChar>> /\ in' = "number"
    /\ UNCHANGED <<Reading, identifierStr, numVal, curTok, out>>

ReadNumber ==
    /\ in = "number" /\ Advance
    /\ UNCHANGED <<identifierStr, lastLocation>>
    /\ \/ /\ lastChar' \in NumberChars
          /\ numStr' = Append(numStr, lastChar')
          /\ UNCHANGED <<numVal, curTok, in, out>>
       \/ /\ lastChar' \notin NumberChars
          /\ numStr' = numStr /\ numVal' = Strtod(numStr)
          /\ Give("number", identifierStr, numVal', lastLocation)

BeginComment ==
    /\ Locate /\ lastChar = "#" /\ in' = "comment"
    /\ UNCHANGED <<Reading, Strings, curTok, out>>

(* Faulty variants: a carriage return does not end a comment, and the end  *)
(* of the file does not.                                                   *)
CommentEndsNewline == {"eof", "nl"}

CommentEndsInFile == {"nl", "cr"}

CommentEnds == {"eof", "nl", "cr"}

(* Behind a comment getTok calls itself, but not at the end of the file.   *)
ReadComment ==
    /\ in = "comment" /\ Advance
    /\ UNCHANGED <<Strings, lastLocation>>
    /\ \/ lastChar' \notin CommentEnds /\ UNCHANGED <<curTok, in, out>>
       \/ lastChar' \in CommentEnds \ {"eof"} /\ in' = "skip" /\ UNCHANGED <<curTok, out>>
       \/ lastChar' \in CommentEnds \cap {"eof"} /\ Give("eof", identifierStr, numVal, lastLocation)

(* The end of the file is not eaten.                                       *)
ReturnEOF ==
    /\ Locate /\ lastChar = "eof"
    /\ Give("eof", identifierStr, numVal, lastLocation')
    /\ UNCHANGED <<Reading, Strings>>

(* Any other character is a token of its own.                              *)
ReturnCharacter ==
    /\ Locate /\ lastChar \notin Space \cup Letters \cup Digits \cup {"#", "eof"}
    /\ Advance
    /\ Give(lastChar, identifierStr, numVal, lastLocation')
    /\ UNCHANGED Strings

Init ==
    /\ text \in Texts
    /\ current = 1 /\ curLineBuffer = <<"nl">> /\ lastChar = " "
    /\ identifierStr = << >> /\ numStr = << >> /\ numVal = <<"0">>
    /\ curTok = "eof" /\ lastLocation = <<0, 0>> /\ curLineNum = 0 /\ curCol = 0
    /\ in = "idle" /\ out = << >>

Next ==
    \/ GetNextToken \/ SkipSpace
    \/ BeginIdentifier \/ ReadIdentifier \/ BeginNumber \/ ReadNumber
    \/ BeginComment \/ ReadComment \/ ReturnEOF \/ ReturnCharacter

(* The parser asks for tokens until the end of the file, and each call     *)
(* runs to its end.                                                        *)
Spec == Init /\ [][Next]_vars /\ WF_vars(Next)

-----------------------------------------------------------------------------
(* The tokens of a text, by the longest match.                             *)

(* What the lexer gets to see: the text in front of a NUL or a byte 0xFF.  *)
Visible ==
    LET stops == {n \in DOMAIN text : text[n] \in {"nul", "ff"}}
    IN  IF stops = {} THEN text ELSE SubSeq(text, 1, Min(stops) - 1)

(* Whitespace, and what stands behind a # in its line.                     *)
Blank(s, i) ==
    \/ s[i] \in Space
    \/ \E j \in 1 .. i : s[j] = "#" /\ \A k \in j .. i : s[k] \notin {"nl", "cr"}

(* The last position of the token that begins at i.                        *)
End(s, i) ==
    LET more == IF s[i] \in Letters THEN WordChars
                ELSE IF s[i] \in Digits THEN NumberChars ELSE {}
    IN  Max({j \in i .. Len(s) : \A k \in i + 1 .. j : s[k] \in more})

Place(s, i) ==
    LET newlines == {j \in 1 .. i - 1 : s[j] = "nl"}
    IN  <<1 + Cardinality(newlines), i - (IF newlines = {} THEN 0 ELSE Max(newlines))>>

Spans(s) ==
    LET from[i \in 1 .. Len(s) + 1] ==
            IF i > Len(s) THEN << >>
            ELSE IF Blank(s, i) THEN from[i + 1]
            ELSE <<<<i, End(s, i)>>>> \o from[End(s, i) + 1]
    IN  from[1]

TokenAt(s, span) ==
    LET word == SubSeq(s, span[1], span[2])
    IN  IF s[span[1]] \in Letters THEN KeywordOr("identifier", word)
        ELSE IF s[span[1]] \in Digits THEN "number" ELSE TokenOf(s[span[1]])

-----------------------------------------------------------------------------
(* Properties.                                                             *)

(* The place of the lexer is one in the text.                              *)
TypeOK ==
    /\ current \in 1 .. Len(text) + 1
    /\ Len(curLineBuffer) <= Len(text) + 1
    /\ curLineNum \in 0 .. Len(text) + 1 /\ curCol \in 0 .. Len(text)
    /\ in \in {"idle", "skip", "identifier", "number", "comment"}
    /\ Len(out) <= Len(text) + 1

(* The tokens are those of the text by the longest match, each at the line *)
(* and column of its first character, and none is lost or given twice at   *)
(* the end of a line, of a comment or of the file: up to the first byte    *)
(* that is or looks like the end, bytes above 127 included.                *)
TokensExact ==
    LET s == Visible
        spans == Spans(s)
    IN  /\ Len(out) <= Len(spans) + 1
        /\ \A n \in DOMAIN out :
               IF n > Len(spans) THEN out[n].tok = "eof"
               ELSE /\ out[n].tok = TokenAt(s, spans[n])
                    /\ out[n].location = Place(s, spans[n][1])

(* src/inc/Lexer.h:202-206: an identifier or a number comes with its own   *)
(* text, not with one of another token.  Only the bytes 0xCE and 0xCD,     *)
(* which pass for the two tokens, come with an old one.                    *)
ValuesFresh ==
    LET s == Visible
        spans == Spans(s)
    IN  \A n \in DOMAIN out : n <= Len(spans) =>
            LET word == SubSeq(s, spans[n][1], spans[n][2])
            IN  /\ word[1] \in Letters => out[n].id = word
                /\ word[1] \in Digits => out[n].num = Strtod(word)

(* Every text ends in tok_eof, and a call after that gives it again.       *)
EndReached == <>[](Ended /\ curTok = "eof")
=============================================================================
