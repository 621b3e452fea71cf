---------------------------- MODULE CppTokenizer ----------------------------
(***************************************************************************)
(* The C++ tokeniser of pki-openssl-version/parser/cpp/parser.cpp. One     *)
(* character is read ahead; its class chooses a token, and the token reads *)
(* the rest of itself and the character after it.                          *)
(*                                                                         *)
(* Two characters of one class need not be told apart, so a small alphabet *)
(* has a few of each. A token is an object and token_list holds references *)
(* to objects: one object may be in the list twice.                        *)
(***************************************************************************)
EXTENDS Naturals, FiniteSets, Sequences, SequencesExt

CONSTANTS
  Sources   \* the sources tried: sequences of characters

Eof == "EOF"
Newline == "\n"
Backslash == "\\"
Quote == "\""
Apostrophe == "'"

(***************************************************************************)
(* The classes of <cctype>, in the C locale. A control character or a byte *)
(* over 127 ("other") is in none of them.                                  *)
(***************************************************************************)
Letters == {"a", "x", "_"}
Digits  == {"0", "1"}
HexDigits == Digits \union {"a"}
Blank   == {" ", "\t"}

Punct   == {"!", "#", "%", "&", "*", "+", "-", ".", "/", ":", "<", "=", ">", "|",
            "^", ";", Backslash}

Characters == Letters \union Digits \union Blank \union Punct
                \union {Newline, Quote, Apostrophe, "other"}

ASSUME SourcesAssumption == Sources \subseteq Seq(Characters)

KindOf(c) ==
  CASE c \in Letters -> "symbol"
    [] c = Newline   -> "eol"
    [] c \in Blank   -> "whitespace"
    [] c = Quote      -> "literal"
    [] c = Apostrophe -> "const_literal"
    [] c \in Digits  -> "integer"
    [] c \in Punct   -> "punctuation"
    [] OTHER         -> "none"

VARIABLES source, rest, input_char, objects, token, token_list, outcome

tokenizerVars == <<source, rest, input_char, objects, token, token_list, outcome>>

(* stream.peek(), and the stream after n characters are read. *)
Peek(s)    == IF s = <<>> THEN Eof ELSE Head(s)
After(s, n) == SubSeq(s, n + 1, Len(s))

(* The length of the longest prefix of s whose characters are all in S. *)
Run(s, S) == CHOOSE n \in 0 .. Len(s) :
                /\ \A i \in 1 .. n : s[i] \in S
                /\ n < Len(s) => s[n + 1] \notin S

(* Mutant: the third character of an operator is not looked for. *)
FollowOneCharacter(text) ==
  CASE text \in {<<c>> : c \in {"!", "%", "*", "/", "="}} -> {"="}
    [] text \in {<<c>> : c \in {"#", ".", ":"}}           -> {text[1]}
    [] text \in {<<c>> : c \in {"&", "+", "<", ">", "|"}} -> {text[1], "="}
    [] text = <<"-">>                                     -> {"-", "=", ">"}
    [] OTHER                                              -> {}

(***************************************************************************)
(* What may follow the characters already read of a punctuation token, and *)
(* how many characters of s end the token that c begins.                   *)
(***************************************************************************)
Follow(text) ==
  CASE text \in {<<c>> : c \in {"!", "%", "*", "/", "="}} -> {"="}
    [] text \in {<<c>> : c \in {"#", ".", ":"}}           -> {text[1]}
    [] text \in {<<c>> : c \in {"&", "+", "<", ">", "|"}} -> {text[1], "="}
    [] text = <<"-">>                                     -> {"-", "=", ">"}
    [] text = <<"-", ">">>                                -> {"*"}
    [] text = <<".", ".">>                                -> {"."}
    [] text \in {<<"<", "<">>, <<">", ">">>}              -> {"="}
    [] OTHER                                              -> {}

PunctuationLength(c, s) ==
  IF Peek(s) \notin Follow(<<c>>) THEN 0
  ELSE IF Peek(Tail(s)) \in Follow(<<c, Head(s)>>) THEN 2 ELSE 1

IntegerLength(c, s) ==
  IF c = "0" /\ Peek(s) = "x" THEN 1 + Run(Tail(s), HexDigits) ELSE Run(s, Digits)

(***************************************************************************)
(* The text of a quoted literal and the position of the quote q that       *)
(* closes it, 0 if the program ends or reads on for ever instead. A        *)
(* backslash before q or a backslash keeps both; in a literal, before the  *)
(* end of the line, it ends the program; before another character it is    *)
(* left out and that character, only peeked at, is taken twice.            *)
(***************************************************************************)
Quoted(q, s) ==
  LET from[i \in 1 .. Len(s) + 2] ==
        IF i > Len(s) THEN [close |-> 0, text |-> <<>>]
        ELSE LET next == Peek(After(s, i))
                 then(n, front) == [from[i + n] EXCEPT !.text = front \o @]
             IN IF s[i] = q THEN [close |-> i, text |-> <<>>]
                ELSE IF s[i] # Backslash THEN then(1, <<s[i]>>)
                ELSE IF next \in {q, Backslash} THEN then(2, <<Backslash, next>>)
                ELSE IF q = Quote /\ next = Newline THEN [close |-> 0, text |-> <<>>]
                ELSE then(1, <<next>>)
  IN from[1]

(***************************************************************************)
(* parse_token of each class: what the token keeps, how many characters it *)
(* reads, and whether the program goes on. An open literal ends it; an     *)
(* open constant reads the end of the file for ever.                       *)
(***************************************************************************)
Parsed(text, read) == [text |-> text, read |-> read, outcome |-> "tokenising"]
Ended(how) == [text |-> <<>>, read |-> 0, outcome |-> how]

(* Mutant: the character that began the symbol is forgotten. *)
symbol_tokenWithoutFirst(c, s) ==
  LET n == Run(s, Letters \union Digits) IN Parsed(SubSeq(s, 1, n), n)

symbol_token(c, s) ==
  LET n == Run(s, Letters \union Digits) IN Parsed(<<c>> \o SubSeq(s, 1, n), n)

integer_token(c, s) ==
  LET n == IntegerLength(c, s) IN Parsed(<<c>> \o SubSeq(s, 1, n), n)

punctuation_token(c, s) ==
  LET n == PunctuationLength(c, s) IN Parsed(<<c>> \o SubSeq(s, 1, n), n)

whitespace_token(s) == Parsed(<<>>, Run(s, Blank))

eol_token == Parsed(<<>>, 0)

literal_token(s) ==
  LET l == Quoted(Quote, s)
  IN IF l.close = 0 THEN Ended("unterminated") ELSE Parsed(l.text, l.close)

const_literal_token(s) ==
  LET l == Quoted(Apostrophe, s)
  IN IF l.close = 0 THEN Ended("spinning") ELSE Parsed(l.text, l.close)

parse_token(kind, c, s) ==
  CASE kind = "symbol"        -> symbol_token(c, s)
    [] kind = "integer"       -> integer_token(c, s)
    [] kind = "punctuation"   -> punctuation_token(c, s)
    [] kind = "whitespace"    -> whitespace_token(s)
    [] kind = "eol"           -> eol_token
    [] kind = "literal"       -> literal_token(s)
    [] kind = "const_literal" -> const_literal_token(s)

(* Mutant: newlines inside the comment are skipped like its other characters. *)
BlockCommentWithoutLines(s) ==
  LET from[i \in 1 .. Len(s) + 2] ==
        IF i > Len(s) THEN [close |-> 0, eols |-> 0]
        ELSE IF s[i] # "*" THEN from[i + 1]
        ELSE IF Peek(After(s, i)) = "/" THEN [close |-> i + 1, eols |-> 0]
        ELSE from[i + 2]
  IN from[1]

(***************************************************************************)
(* A comment: the position in s of the slash that closes it, 0 if none     *)
(* does, and the newlines read as newlines on the way. The character after *)
(* a star is read with it, whatever it is.                                 *)
(***************************************************************************)
BlockComment(s) ==
  LET from[i \in 1 .. Len(s) + 2] ==
        IF i > Len(s) THEN [close |-> 0, eols |-> 0]
        ELSE IF s[i] = Newline THEN [from[i + 1] EXCEPT !.eols = @ + 1]
        ELSE IF s[i] # "*" THEN from[i + 1]
        ELSE IF Peek(After(s, i)) = "/" THEN [close |-> i + 1, eols |-> 0]
        ELSE from[i + 2]
  IN from[1]

(***************************************************************************)
(* The object o becomes the token just parsed and is added to the list; p  *)
(* is what its parse_token did with the stream s.                          *)
(***************************************************************************)
Push(kind, o, p, s, before) ==
  /\ outcome' = p.outcome
  /\ objects' = [i \in 1 .. (IF o > Len(before) THEN o ELSE Len(before)) |->
                   IF i = o THEN [kind |-> kind, text |-> p.text] ELSE before[i]]
  /\ token' = o
  /\ input_char' = Peek(After(s, p.read))
  /\ rest' = After(s, p.read + 1)
  /\ UNCHANGED source

Tokenising == outcome = "tokenising" /\ input_char # Eof

InLineComment  == input_char = "/" /\ Peek(rest) = "/"
InBlockComment == input_char = "/" /\ Peek(rest) = "*"

LineComment ==
  /\ Tokenising /\ InLineComment
  /\ LET n == Run(rest, {c \in Range(rest) : c # Newline})
         o == Len(objects) + 1
     IN /\ Push("eol", o, eol_token, After(rest, n + 1), objects)
        /\ token_list' = Append(token_list, o)

(* The character after the comment is read, and a blank takes its place. *)
CloseBlockComment ==
  /\ Tokenising /\ InBlockComment
  /\ LET c == BlockComment(rest)
         s == After(rest, c.close + 1)
         eols == [i \in 1 .. c.eols |-> [kind |-> "eol", text |-> <<>>]]
         o == Len(objects) + c.eols + 1
     IN /\ c.close # 0
        /\ Push("whitespace", o, whitespace_token(s), s, objects \o eols)
        /\ token_list' = token_list \o [i \in 1 .. c.eols + 1 |-> Len(objects) + i]

UnterminatedComment ==
  /\ Tokenising /\ InBlockComment
  /\ BlockComment(rest).close = 0
  /\ outcome' = "unterminated"
  /\ UNCHANGED <<source, rest, input_char, objects, token, token_list>>

Token ==
  /\ Tokenising /\ ~InLineComment /\ ~InBlockComment
  /\ KindOf(input_char) # "none"
  /\ LET kind == KindOf(input_char)
         o == Len(objects) + 1
     IN /\ Push(kind, o, parse_token(kind, input_char, rest), rest, objects)
        /\ token_list' = Append(token_list, o)

(* A character of no class is parsed by the token before it, once more. *)
StaleToken ==
  /\ Tokenising /\ KindOf(input_char) = "none" /\ token # 0
  /\ LET kind == objects[token].kind
     IN Push(kind, token, parse_token(kind, input_char, rest), rest, objects)
  /\ token_list' = Append(token_list, token)

RejectFirstCharacter ==
  /\ Tokenising /\ KindOf(input_char) = "none" /\ token = 0
  /\ outcome' = "printed"
  /\ UNCHANGED <<source, rest, input_char, objects, token, token_list>>

EndOfFile ==
  /\ outcome = "tokenising" /\ input_char = Eof
  /\ objects' = Append(objects, [kind |-> "eof", text |-> <<>>])
  /\ token' = Len(objects')
  /\ token_list' = Append(token_list, token')
  /\ outcome' = "printed"
  /\ UNCHANGED <<source, rest, input_char>>

OpenSource ==
  /\ outcome = "idle"
  /\ source' \in Sources
  /\ input_char' = Peek(source')
  /\ rest' = After(source', 1)
  /\ outcome' = "tokenising"
  /\ UNCHANGED <<objects, token, token_list>>

TokenizerInit ==
  /\ source = <<>> /\ rest = <<>> /\ input_char = Eof
  /\ objects = <<>> /\ token = 0 /\ token_list = <<>>
  /\ outcome = "idle"

TokenizerNext ==
  \/ OpenSource \/ LineComment \/ CloseBlockComment \/ UnterminatedComment
  \/ Token \/ StaleToken \/ RejectFirstCharacter \/ EndOfFile

TokenizerSpec == TokenizerInit /\ [][TokenizerNext]_tokenizerVars

-----------------------------------------------------------------------------
(* Properties *)

Comments(s) == \E i \in 1 .. Len(s) - 1 : s[i] = "/" /\ s[i + 1] \in {"/", "*"}

Has(s, S) == \E i \in 1 .. Len(s) : s[i] \in S

Spelled(o) ==
  LET q == CASE o.kind = "literal" -> <<Quote>>
             [] o.kind = "const_literal" -> <<Apostrophe>>
             [] OTHER -> <<>>
  IN IF o.kind = "eol" THEN <<Newline>> ELSE q \o o.text \o q

Spelling == FlattenSeq([i \in 1 .. Len(token_list) |-> Spelled(objects[token_list[i]])])

Unblanked(s) ==
  FlattenSeq([i \in 1 .. Len(s) |-> IF s[i] \in Blank \union {Eof} THEN <<>> ELSE <<s[i]>>])

(***************************************************************************)
(* parser.cpp:5 says of the parser that it "does correctly identify and    *)
(* process C/C++ tokens". Of a source without comments, backslashes and    *)
(* unclassed characters nothing is lost, added or reordered: at each step  *)
(* the tokens listed, then what is still to be read, spell the source up   *)
(* to its blanks.                                                          *)
(***************************************************************************)
TokensSpellSource ==
  outcome \in {"tokenising", "printed"} /\ ~Comments(source)
       /\ ~Has(source, {Backslash, "other"}) =>
     Unblanked(Spelling \o <<input_char>> \o rest) = Unblanked(source)

(* The operators and punctuators of C++ (2011) of several characters.      *)
CppOperators ==
  { <<"!", "=">>, <<"#", "#">>, <<"%", "=">>, <<"&", "&">>, <<"&", "=">>, <<"*", "=">>,
    <<"+", "+">>, <<"+", "=">>, <<"-", "-">>, <<"-", "=">>, <<"-", ">">>, <<"-", ">", "*">>,
    <<".", ".", ".">>, <<"/", "=">>, <<":", ":">>, <<"<", "=">>, <<"<", "<">>,
    <<"<", "<", "=">>, <<"=", "=">>, <<">", "=">>, <<">", ">">>, <<">", ">", "=">>,
    <<"|", "|">>, <<"|", "=">>, <<"^", "=">>, <<".", "*">>,
    <<"<", "%">>, <<"%", ">">>, <<"<", ":">>, <<":", ">">>, <<"%", ":">>, <<"%", ":", "%", ":">> }

(* Those that parser.cpp:164-302 has no case for and reads in pieces: an    *)
(* assignment, a pointer to member, and every digraph.                     *)
SplitOperators ==
  { <<"^", "=">>, <<".", "*">>,
    <<"<", "%">>, <<"%", ">">>, <<"<", ":">>, <<":", ">">>, <<"%", ":">>, <<"%", ":", "%", ":">> }

Operators == CppOperators \ SplitOperators

(***************************************************************************)
(* parser.cpp:5 says that the parser "does correctly identify and process  *)
(* C/C++ tokens". A punctuation token is the longest operator of C++ its   *)
(* characters begin, the split ones excepted: the character read after it  *)
(* does not lengthen it, and two of its characters or more are an operator *)
(* that is not split, or the two dots that parser.cpp:161 leaves to a      *)
(* compiler.                                                               *)
(***************************************************************************)
LongestPunctuation ==
  token # 0 /\ outcome = "tokenising" /\ objects[token].kind = "punctuation" =>
     LET text == objects[token].text
     IN /\ \A op \in Operators : ~IsPrefix(Append(text, input_char), op)
        /\ Len(text) > 1 => text \in Operators \union {<<".", ".">>}

(***************************************************************************)
(* parser.cpp:457: one object is in the list twice only where a character  *)
(* of no class was read, so without such a character no token listed is    *)
(* rewritten by a later one.                                               *)
(***************************************************************************)
TokensShared ==
  ~IsInjective(token_list) => Has(source, {"other"})

(***************************************************************************)
(* The tokens listed are those that were read, once each.                  *)
(***************************************************************************)
TokensRead == TokensSpellSource /\ TokensShared

Newlines(s) == {i \in 1 .. Len(s) : s[i] = Newline}

(* The newlines that follow a star, or the slash after a star. *)
NewlinesAtStar(s) ==
  {i \in Newlines(s) : \/ i > 1 /\ s[i - 1] = "*"
                       \/ i > 2 /\ s[i - 2] = "*" /\ s[i - 1] = "/"}

(***************************************************************************)
(* parser.cpp:381-417: comments take lines away only where a newline       *)
(* follows a star of a comment or the comment itself, and add one only at  *)
(* the end of the file. A source without quotes and unclassed characters   *)
(* that is read to its end has as many EOL tokens as lines, but for those. *)
(***************************************************************************)
LinesKept ==
  outcome = "printed" /\ ~Has(source, {Quote, Apostrophe, "other"}) =>
     LET eols == Cardinality({i \in 1 .. Len(token_list) : objects[token_list[i]].kind = "eol"})
         lines == Cardinality(Newlines(source))
     IN /\ eols <= lines + 1
        /\ eols + Cardinality(NewlinesAtStar(source)) >= lines

(***************************************************************************)
(* Every source is tokenised, refused, or read for ever in a constant that *)
(* is not closed (parser.cpp:132): no other loop of the parser runs on.    *)
(***************************************************************************)
TokenizerEnds == (outcome = "tokenising") ~> (outcome # "tokenising")

=============================================================================
