------------------------------- MODULE Lexer -------------------------------
(***************************************************************************)
(* The lexer (src/lexer.c), one iteration of one of its loops per step.    *)
(* lexer_next is called until it returns TOK_EOF; the source is any text   *)
(* over the characters of an instance.                                     *)
(*                                                                         *)
(* Characters are one-character strings, except "nl" (line feed), "dq" and *)
(* "sq" (quotes) and "bs" (backslash). Positions count from 0 as in the    *)
(* code. An operator token is known by its text; the value of a float      *)
(* literal (strtod) is left out. lexer_peek and lexer_advance, which       *)
(* nothing calls, are left out.                                            *)
(***************************************************************************)
EXTENDS Integers, Sequences, FiniteSets, FiniteSetsExt, SequencesExt

CONSTANTS
  Alphabets,          \* the characters sources are made of, with a bound: how many
  Keywords,           \* the keyword table, as texts
  MAX_COMMENT_DEPTH,  \* 16 in the source
  INT64_MAX

ASSUME LexerAssumption ==
  /\ \A a \in Alphabets : a.len \in Nat
  /\ MAX_COMMENT_DEPTH \in Nat \ {0}
  /\ INT64_MAX \in Nat

VARIABLES
  source,   \* the text
  pos, line, column,
  mode,     \* the loop lexer_next is in; "done" behind TOK_EOF
  start,    \* where the token being read starts: [pos, line, column]
  depth,    \* nesting of the block comment being skipped
  base, is_float,
  tokens,   \* what lexer_next returned so far, without TOK_EOF
  errors    \* the positions of the errors reported, in order

vars == <<source, pos, line, column, mode, start, depth, base, is_float,
          tokens, errors>>
token == <<start, base, is_float, tokens>>

Digits == {"0", "1", "2", "3", "4", "5", "6", "7", "8", "9"}
Letters ==
  {"a", "b", "c", "d", "e", "f", "g", "h", "i", "j", "k", "l", "m",
   "n", "o", "p", "q", "r", "s", "t", "u", "v", "w", "x", "y", "z",
   "A", "B", "C", "D", "E", "F", "G", "H", "I", "J", "K", "L", "M",
   "N", "O", "P", "Q", "R", "S", "T", "U", "V", "W", "X", "Y", "Z"}
is_ident_start(c) == c \in Letters \cup {"_"}
is_ident_char(c) == is_ident_start(c) \/ c \in Digits
is_digit(c) == c \in Digits
is_hex_digit(c) ==
  c \in Digits \cup {"a", "b", "c", "d", "e", "f", "A", "B", "C", "D", "E", "F"}
Whitespace == {" ", "tab", "nl", "cr", "ff", "vt"}

source_len == Len(source)

\* The character at p, or the NUL lexer_peek_char returns behind the end.
Char(p) == IF p < source_len THEN source[p + 1] ELSE "nul"
Text(p, len) == SubSeq(source, p + 1, p + len)

\* Mutant: a line feed does not reset the column.
Advance_no_reset(n) ==
  LET newlines == {k \in 0 .. n - 1 : Char(pos + k) = "nl"}
  IN  /\ pos' = pos + n
      /\ line' = line + Cardinality(newlines)
      /\ column' = column + n

\* lexer_advance_char, n times.
Advance(n) ==
  LET newlines == {k \in 0 .. n - 1 : Char(pos + k) = "nl"}
  IN  /\ pos' = pos + n
      /\ line' = line + Cardinality(newlines)
      /\ column' = IF newlines = {} THEN column + n ELSE n - Max(newlines)

-----------------------------------------------------------------------------
Init ==
  /\ \E a \in Alphabets : source \in BoundedSeq(a.chars, a.len)
  /\ pos = 0 /\ line = 1 /\ column = 1
  /\ mode = "skip"
  /\ start = [pos |-> 0, line |-> 1, column |-> 1]
  /\ depth = 0
  /\ base = 10 /\ is_float = FALSE
  /\ tokens = << >>
  /\ errors = << >>

-----------------------------------------------------------------------------
(* lexer_skip_whitespace *)

SkipSpace ==
  /\ mode = "skip"
  /\ Char(pos) \in Whitespace
  /\ Advance(1)
  /\ UNCHANGED <<source, mode, depth, errors>> /\ UNCHANGED token

\* Up to the line feed, which stays; the column is not moved.
SkipLineComment ==
  /\ mode = "skip"
  /\ Char(pos) = "/" /\ Char(pos + 1) = "/"
  /\ pos' = Min({p \in pos .. source_len : p = source_len \/ Char(p) = "nl"})
  /\ UNCHANGED <<source, line, column, mode, depth, errors>> /\ UNCHANGED token

OpenComment ==
  /\ mode = "skip"
  /\ Char(pos) = "/" /\ Char(pos + 1) = "*"
  /\ pos' = pos + 2
  /\ column' = column + 2
  /\ depth' = 1
  /\ mode' = "comment"
  /\ UNCHANGED <<source, line, errors>> /\ UNCHANGED token

CommentOpener(p) == Char(p) = "/" /\ Char(p + 1) = "*"
CommentCloser(p) == Char(p) = "*" /\ Char(p + 1) = "/"

\* Mutant: line feeds inside comments are not counted.
CommentStep_no_lines ==
  /\ mode = "comment"
  /\ pos < source_len /\ depth > 0
  /\ depth' = IF CommentOpener(pos) THEN depth + 1
              ELSE IF CommentCloser(pos) THEN depth - 1 ELSE depth
  /\ pos' = IF depth' = depth THEN pos + 1 ELSE pos + 2
  /\ column' = IF depth' = depth THEN column + 1 ELSE column
  /\ UNCHANGED line
  /\ IF depth' > MAX_COMMENT_DEPTH
     THEN errors' = Append(errors, pos') /\ mode' = "skip"
     ELSE UNCHANGED <<errors, mode>>
  /\ UNCHANGED source /\ UNCHANGED token

\* One turn of the loop inside a block comment. A nested opener or closer does
\* not move the column. Too deep a comment is reported and its rest is read as
\* program text.
CommentStep ==
  /\ mode = "comment"
  /\ pos < source_len /\ depth > 0
  /\ depth' = IF CommentOpener(pos) THEN depth + 1
              ELSE IF CommentCloser(pos) THEN depth - 1 ELSE depth
  /\ IF depth' # depth
     THEN pos' = pos + 2 /\ UNCHANGED <<line, column>>
     ELSE Advance(1)
  /\ IF depth' > MAX_COMMENT_DEPTH
     THEN errors' = Append(errors, pos') /\ mode' = "skip"
     ELSE UNCHANGED <<errors, mode>>
  /\ UNCHANGED source /\ UNCHANGED token

\* Mutant: only a closer ends a comment.
CommentDone_at_closer ==
  /\ mode = "comment"
  /\ depth = 0
  /\ mode' = "skip"
  /\ UNCHANGED <<source, pos, line, column, depth, errors>> /\ UNCHANGED token

\* The comment is closed, or the source ends inside it, which is not reported.
CommentDone ==
  /\ mode = "comment"
  /\ pos = source_len \/ depth = 0
  /\ mode' = "skip"
  /\ UNCHANGED <<source, pos, line, column, depth, errors>> /\ UNCHANGED token

-----------------------------------------------------------------------------
(* lexer_next *)

\* Nothing left to skip at pos.
AtToken ==
  /\ mode = "skip"
  /\ Char(pos) \notin Whitespace
  /\ ~(Char(pos) = "/" /\ Char(pos + 1) \in {"/", "*"})

EndOfSource ==
  /\ AtToken
  /\ pos >= source_len
  /\ mode' = "done"
  /\ UNCHANGED <<source, pos, line, column, depth, errors>> /\ UNCHANGED token

\* Mutant: the length counts the character behind the token.
Return_one_more(kind, int_value) ==
  /\ tokens' = Append(tokens,
       [kind |-> kind, pos |-> start.pos, len |-> pos - start.pos + 1,
        line |-> start.line, column |-> start.column, int_value |-> int_value])
  /\ mode' = "skip"

\* The token read so far is returned; identifiers and literals are located
\* where they start.
Return(kind, int_value) ==
  /\ tokens' = Append(tokens,
       [kind |-> kind, pos |-> start.pos, len |-> pos - start.pos,
        line |-> start.line, column |-> start.column, int_value |-> int_value])
  /\ mode' = "skip"

\* A new token starts at pos, and its first n characters are read.
Begin(n) ==
  /\ AtToken
  /\ pos < source_len
  /\ start' = [pos |-> pos, line |-> line, column |-> column]
  /\ Advance(n)

BeginIdent ==
  /\ is_ident_start(Char(pos))
  /\ Begin(1)
  /\ mode' = "ident"
  /\ UNCHANGED <<source, depth, base, is_float, tokens, errors>>

IdentChar ==
  /\ mode = "ident"
  /\ is_ident_char(Char(pos))
  /\ Advance(1)
  /\ UNCHANGED <<source, mode, depth, errors>> /\ UNCHANGED token

lookup_keyword(text) == IF text \in Keywords THEN "keyword" ELSE "identifier"

EndIdent ==
  /\ mode = "ident"
  /\ ~is_ident_char(Char(pos))
  /\ Return(lookup_keyword(Text(start.pos, pos - start.pos)), 0)
  /\ UNCHANGED <<source, pos, line, column, start, depth, base, is_float, errors>>

\* The base a literal's prefix announces.
PrefixBase == [c \in {"x", "X", "o", "O", "b", "B"} |->
               CASE c \in {"x", "X"} -> 16 [] c \in {"o", "O"} -> 8 [] OTHER -> 2]

BeginNumber ==
  LET c == Char(pos)
      prefixed == c = "0" /\ Char(pos + 1) \in DOMAIN PrefixBase
  IN
  /\ is_digit(c) \/ (c = "." /\ is_digit(Char(pos + 1)))
  /\ Begin(IF prefixed THEN 2 ELSE 1)
  /\ base' = IF prefixed THEN PrefixBase[Char(pos + 1)] ELSE 10
  /\ is_float' = FALSE
  /\ mode' = "number"
  /\ UNCHANGED <<source, depth, tokens, errors>>

\* What the next turn of the number loop reads: digits of any base but 16 are
\* decimal digits; one point, unless it is the first of "..", and any number of
\* exponents, with a sign, in base 10.
NumberPart ==
  LET ch == Char(pos) IN
  CASE base = 16 /\ is_hex_digit(ch) -> "digit"
    [] base # 16 /\ is_digit(ch) -> "digit"
    [] ch = "." /\ ~is_float /\ base = 10 /\ Char(pos + 1) # "." -> "point"
    [] ch \in {"e", "E"} /\ base = 10 -> "exponent"
    [] OTHER -> "end"

\* Mutant: the character behind an exponent is read unseen.
NumberStep_sign_unseen ==
  /\ mode = "number"
  /\ NumberPart # "end"
  /\ Advance(IF NumberPart = "exponent" THEN 2 ELSE 1)
  /\ is_float' = (is_float \/ NumberPart # "digit")
  /\ UNCHANGED <<source, mode, start, depth, base, tokens, errors>>

NumberStep ==
  /\ mode = "number"
  /\ NumberPart # "end"
  /\ Advance(IF NumberPart = "exponent" /\ Char(pos + 1) \in {"+", "-"} THEN 2 ELSE 1)
  /\ is_float' = (is_float \/ NumberPart # "digit")
  /\ UNCHANGED <<source, mode, start, depth, base, tokens, errors>>

\* The value of a digit, of a text of digits.
DigitValue(c) ==
  CASE c \in {"a", "A"} -> 10 [] c \in {"b", "B"} -> 11 [] c \in {"c", "C"} -> 12
    [] c \in {"d", "D"} -> 13 [] c \in {"e", "E"} -> 14 [] c \in {"f", "F"} -> 15
    [] c = "0" -> 0 [] c = "1" -> 1 [] c = "2" -> 2 [] c = "3" -> 3 [] c = "4" -> 4
    [] c = "5" -> 5 [] c = "6" -> 6 [] c = "7" -> 7 [] c = "8" -> 8 [] c = "9" -> 9
DigitsOf(b) == {c \in Digits \cup Letters : is_hex_digit(c) /\ DigitValue(c) < b}
Value(text, b) ==
  MapThenSumSet(LAMBDA k : DigitValue(text[k]) * b ^ (Len(text) - k), 1 .. Len(text))
Saturated(v) == IF v > INT64_MAX THEN INT64_MAX ELSE v

\* Mutant: the base is not passed on.
strtoll_decimal(text, b) ==
  LET n == Max({k \in 0 .. Len(text) : \A i \in 1 .. k : text[i] \in DigitsOf(10)})
  IN  Saturated(Value(SubSeq(text, 1, n), 10))

\* strtoll on the text of a literal: it reads the longest run of digits of its
\* base, behind a prefix only in base 16, and stops at the largest value.
strtoll(text, b) ==
  LET skip == IF b = 16 THEN 2 ELSE 0
      n == Max({k \in 0 .. Len(text) - skip :
                  \A i \in 1 .. k : text[skip + i] \in DigitsOf(b)})
  IN  Saturated(Value(SubSeq(text, skip + 1, skip + n), b))

EndNumber ==
  /\ mode = "number"
  /\ NumberPart = "end"
  /\ IF is_float THEN Return("float", 0)
     ELSE Return("int", strtoll(Text(start.pos, pos - start.pos), base))
  /\ UNCHANGED <<source, pos, line, column, start, depth, base, is_float, errors>>

BeginString ==
  /\ Char(pos) = "dq"
  /\ Begin(1)
  /\ mode' = "string"
  /\ UNCHANGED <<source, depth, base, is_float, tokens, errors>>

\* A character, or a backslash and whatever follows it, a line feed included.
StringChar ==
  /\ mode = "string"
  /\ pos < source_len
  /\ Char(pos) \notin {"dq", "nl"}
  /\ Advance(IF Char(pos) = "bs" /\ pos + 1 < source_len THEN 2 ELSE 1)
  /\ UNCHANGED <<source, mode, depth, errors>> /\ UNCHANGED token

\* Mutant: a line feed ends the string and is not reported.
EndString_silent ==
  /\ mode = "string"
  /\ pos >= source_len \/ Char(pos) \in {"dq", "nl"}
  /\ Advance(IF Char(pos) = "dq" THEN 1 ELSE 0)
  /\ mode' = "string_read"
  /\ UNCHANGED <<source, depth, errors>> /\ UNCHANGED token

\* A quote closes the string; a line feed is reported; the end of the source is
\* not.
EndString ==
  /\ mode = "string"
  /\ pos >= source_len \/ Char(pos) \in {"dq", "nl"}
  /\ errors' = IF Char(pos) = "nl" THEN Append(errors, pos) ELSE errors
  /\ Advance(IF Char(pos) = "dq" THEN 1 ELSE 0)
  /\ mode' = "string_read"
  /\ UNCHANGED <<source, depth>> /\ UNCHANGED token

\* A character literal is read in one go: at most one character, or a backslash
\* and what follows, then the closing quote, which must be there.
BeginChar ==
  LET c == Char(pos + 1)
      rest == source_len - pos - 1
      body == IF c = "bs" THEN IF rest > 1 THEN 2 ELSE 1
              ELSE IF rest > 0 /\ c # "sq" THEN 1 ELSE 0
      closed == Char(pos + 1 + body) = "sq"
  IN
  /\ Char(pos) = "sq"
  /\ Begin(1 + body + (IF closed THEN 1 ELSE 0))
  /\ errors' = IF closed THEN errors ELSE Append(errors, pos + 1 + body)
  /\ mode' = "char_read"
  /\ UNCHANGED <<source, depth, base, is_float, tokens>>

EndQuoted ==
  /\ mode \in {"string_read", "char_read"}
  /\ Return(IF mode = "string_read" THEN "string" ELSE "char", 0)
  /\ UNCHANGED <<source, pos, line, column, start, depth, base, is_float, errors>>

\* The characters an operator starts with, and those that may follow each; a
\* doubled < or > may be followed by =.
Followers ==
  [c \in {"=", "!", "<", ">", "&", "|", "+", "-", "*", "/", "%", "^", ".", ":"} |->
     CASE c \in {"=", "-"} -> {"=", ">"}
       [] c \in {"<", ">", "&", "|"} -> {"=", c}
       [] c \in {".", ":"} -> {c}
       [] OTHER -> {"="}]
Punctuation == {"(", ")", "[", "]", "{", "}", ",", ";", "?", "~", "#"}

\* Mutant: <<= and >>= are not known.
OperatorLen_two_at_most(p) ==
  IF Char(p) \notin DOMAIN Followers \/ Char(p + 1) \notin Followers[Char(p)] THEN 1
  ELSE 2

\* How many characters the operator at p takes.
OperatorLen(p) ==
  IF Char(p) \notin DOMAIN Followers \/ Char(p + 1) \notin Followers[Char(p)] THEN 1
  ELSE IF /\ Char(p) \in {"<", ">"} /\ Char(p + 1) = Char(p) /\ Char(p + 2) = "="
       THEN 3 ELSE 2

\* An operator, or a character no token starts with, which is reported.
OperatorOrError ==
  LET c == Char(pos)
      known == c \in DOMAIN Followers \cup Punctuation
      n == OperatorLen(pos)
  IN
  /\ ~is_ident_start(c) /\ ~is_digit(c) /\ c \notin {"dq", "sq"}
  /\ ~(c = "." /\ is_digit(Char(pos + 1)))
  /\ Begin(n)
  /\ tokens' = Append(tokens, [kind |-> IF known THEN "op" ELSE "error",
                              pos |-> pos, len |-> n,
                              line |-> line, column |-> column, int_value |-> 0])
  /\ errors' = IF known THEN errors ELSE Append(errors, pos)
  /\ UNCHANGED <<source, mode, depth, base, is_float>>

Next ==
  \/ SkipSpace \/ SkipLineComment
  \/ OpenComment \/ CommentStep \/ CommentDone
  \/ EndOfSource
  \/ BeginIdent \/ IdentChar \/ EndIdent
  \/ BeginNumber \/ NumberStep \/ EndNumber
  \/ BeginString \/ StringChar \/ EndString \/ BeginChar \/ EndQuoted
  \/ OperatorOrError

Spec == Init /\ [][Next]_vars

\* The lexer runs in the one thread of the compiler.
FairSpec == Spec /\ WF_vars(Next)

-----------------------------------------------------------------------------
TypeOK ==
  /\ pos \in 0 .. source_len
  /\ line \in Nat \ {0} /\ column \in Nat \ {0}
  /\ mode \in {"skip", "comment", "ident", "number", "string", "string_read",
              "char_read", "done"}
  /\ start.pos \in 0 .. pos
  /\ depth \in 0 .. MAX_COMMENT_DEPTH + 1
  /\ base \in {2, 8, 10, 16}

\* The tokens follow one another in the source, none empty, none overlapping,
\* each within the text read so far.
TokensInOrder ==
  \A i \in 1 .. Len(tokens) :
    /\ tokens[i].len > 0
    /\ tokens[i].pos + tokens[i].len <= (IF i < Len(tokens) THEN tokens[i + 1].pos ELSE pos)

\* The line feeds in front of p.
Newlines(p) == {q \in 0 .. p - 1 : Char(q) = "nl"}

LineRight(t) == t.line = 1 + Cardinality(Newlines(t.pos))

\* The line of every token is the one it starts on, behind comments and strings
\* of any number of lines.
LinesRight == \A i \in 1 .. Len(tokens) : LineRight(tokens[i])

\* Where the line of p starts.
LineStart(p) == Max({0} \cup {q + 1 : q \in Newlines(p)})

CommentFree(first, p) == \A q \in first .. p - 1 : ~CommentOpener(q) /\ ~CommentCloser(q)

ColumnRight(t) ==
  CommentFree(LineStart(t.pos), t.pos) => t.column = t.pos - LineStart(t.pos) + 1

\* The column of a token counts from the start of its line, as long as no
\* block comment touches that line in front of it.
ColumnsRight == \A i \in 1 .. Len(tokens) : ColumnRight(tokens[i])

\* All operator texts of two and three characters.
LongOperators ==
  {<<"=", "=">>, <<"=", ">">>, <<"!", "=">>, <<"<", "=">>, <<"<", "<">>,
   <<"<", "<", "=">>, <<">", "=">>, <<">", ">">>, <<">", ">", "=">>, <<"&", "&">>,
   <<"&", "=">>, <<"|", "|">>, <<"|", "=">>, <<"+", "=">>, <<"-", "=">>, <<"-", ">">>,
   <<"*", "=">>, <<"/", "=">>, <<"%", "=">>, <<"^", "=">>, <<".", ".">>, <<":", ":">>}

Munched(t) ==
  /\ t.kind = "op" =>
       \A o \in LongOperators :
         (\A k \in 1 .. Len(o) : Char(t.pos + k - 1) = o[k]) => Len(o) <= t.len
  /\ t.kind = "op" /\ t.len > 1 => Text(t.pos, t.len) \in LongOperators
  /\ t.kind \in {"keyword", "identifier"} => ~is_ident_char(Char(t.pos + t.len))

\* Every token is as long as it can be: no operator text longer than an
\* operator token stands at its place, and no identifier is followed by a
\* character it could have taken in.
MaximalMunch == \A i \in 1 .. Len(tokens) : Munched(tokens[i])

StringEnds(from, end) ==
  \/ Char(end - 1) = "dq" /\ end - from > 1
  \/ Char(end) = "nl" /\ \E k \in 1 .. Len(errors) : errors[k] = end
  \/ end = source_len

\* A string token ends in a quote, or at a line feed, which was reported, or at
\* the end of the source.
StringsEnd ==
  \A i \in 1 .. Len(tokens) :
    tokens[i].kind = "string" => StringEnds(tokens[i].pos, tokens[i].pos + tokens[i].len)

\* The lexer reaches the end of every source.
Terminates == <>(mode = "done")

\* The base and the digits of an integer literal as they are written: a prefix
\* and digits of that base.
WrittenBase(t) ==
  IF Char(t.pos) = "0" /\ t.len > 1 /\ Char(t.pos + 1) \in DOMAIN PrefixBase
  THEN PrefixBase[Char(t.pos + 1)] ELSE 10
WrittenFrom(t) == IF WrittenBase(t) = 10 THEN 0 ELSE 2
WellWritten(t) ==
  /\ t.len > WrittenFrom(t)
  /\ \A k \in WrittenFrom(t) .. t.len - 1 : Char(t.pos + k) \in DigitsOf(WrittenBase(t))
LiteralValue(t) ==
  Saturated(Value(Text(t.pos + WrittenFrom(t), t.len - WrittenFrom(t)), WrittenBase(t)))

ValueRight(t) == t.kind = "int" /\ WellWritten(t) => t.int_value = LiteralValue(t)

\* A decimal or hexadecimal integer literal has the value of its digits, or the
\* largest value when it is too large.
DecimalAndHexValues ==
  \A i \in 1 .. Len(tokens) :
    WrittenBase(tokens[i]) \in {10, 16} => ValueRight(tokens[i])

\* The same for every base the lexer knows a prefix of.
IntLiteralValues == \A i \in 1 .. Len(tokens) : ValueRight(tokens[i])
=============================================================================
