---------------------------- MODULE Lexer_proofs ----------------------------
(***************************************************************************)
(* Proofs about the lexer, for every text of every length over any         *)
(* alphabet, every keyword table, comment depth and largest integer.       *)
(***************************************************************************)
EXTENDS Lexer, Extrema_proofs, SequenceTheorems, FunctionTheorems, FiniteSetTheorems, TLAPS

-----------------------------------------------------------------------------
(* The inductive invariant *)

Chars == UNION {a.chars : a \in Alphabets}

\* A token is being read.
Reading == mode \in {"ident", "number", "string", "string_read", "char_read"}

IntValues == {0} \cup {strtoll(text, b) : text \in Seq(Chars), b \in {2, 8, 10, 16}}

Token == [kind : {"keyword", "identifier", "int", "float", "string", "char", "op", "error"},
          pos : Nat, len : Nat, line : Nat, column : Nat, int_value : IntValues]

\* The types the code relies on; a comment being skipped is not too deep, and a
\* token being read is not empty.
Typed ==
  /\ source \in Seq(Chars)
  /\ TypeOK
  /\ start \in [pos : Nat, line : Nat, column : Nat]
  /\ tokens \in Seq(Token) /\ errors \in Seq(Nat)
  /\ mode = "comment" => depth <= MAX_COMMENT_DEPTH
  /\ Reading => start.pos < pos

\* What follows the last token returned is the token being read.
Ordered ==
  \A i \in 1 .. Len(tokens) :
    /\ tokens[i].len > 0
    /\ tokens[i].pos + tokens[i].len <=
         IF i < Len(tokens) THEN tokens[i + 1].pos ELSE IF Reading THEN start.pos ELSE pos

\* first is where the line of p starts.
StartsLine(first, p) ==
  /\ first = 0 \/ Char(first - 1) = "nl"
  /\ \A q \in first .. p - 1 : Char(q) # "nl"

\* The column of p, whatever the start of its line is.
ColumnFits(p, col) ==
  \A first \in 0 .. p : StartsLine(first, p) /\ CommentFree(first, p) => col = p - first + 1

\* The line and the column the lexer is at. Behind a line comment, where nothing is
\* left to read on the line, the column is not right.
Located ==
  /\ line = 1 + Cardinality(Newlines(pos))
  /\ \/ ColumnFits(pos, column)
     \/ mode \in {"skip", "done"} /\ (pos = source_len \/ Char(pos) = "nl")

\* Those of the token being read.
StartLocated == Reading => LineRight(start) /\ ColumnFits(start.pos, start.column)

\* The base of a number comes from its prefix, which has been read.
Prefixed(p) == Char(p) = "0" /\ Char(p + 1) \in DOMAIN PrefixBase
InBase ==
  mode = "number" =>
    IF Prefixed(start.pos) THEN base = PrefixBase[Char(start.pos + 1)] /\ start.pos + 2 <= pos
    ELSE base = 10

\* A string that has been read ends as it should.
InString == mode = "string_read" => StringEnds(start.pos, pos)

\* All that is claimed of a token returned.
TokenRight(t) ==
  /\ LineRight(t)
  /\ ColumnFits(t.pos, t.column)
  /\ Munched(t)
  /\ t.kind = "string" => StringEnds(t.pos, t.pos + t.len)
  /\ WrittenBase(t) \in {10, 16} => ValueRight(t)

TokensRight == \A i \in 1 .. Len(tokens) : TokenRight(tokens[i])

LexerInv ==
  /\ Typed /\ Ordered
  /\ Located /\ StartLocated
  /\ InString /\ InBase
  /\ TokensRight

-----------------------------------------------------------------------------
(* Characters, lines and columns *)

\* Only a position in the text has a character.
LEMMA InText ==
  ASSUME NEW p \in Nat, Char(p) # "nul"
  PROVE  p < source_len
BY DEF Char

\* There are finitely many line feeds in front of a position, and those of the
\* next n characters come on top.
LEMMA LineFeeds ==
  ASSUME NEW p \in Nat, NEW n \in Nat
  PROVE  LET more == {k \in 0 .. n - 1 : Char(p + k) = "nl"}
         IN  /\ Cardinality(Newlines(p)) \in Nat
             /\ Cardinality(more) \in Nat
             /\ more = {} => Cardinality(more) = 0
             /\ Cardinality(Newlines(p + n)) = Cardinality(Newlines(p)) + Cardinality(more)
<1> DEFINE more == {k \in 0 .. n - 1 : Char(p + k) = "nl"}
           moved == {q \in p .. p + n - 1 : Char(q) = "nl"}
<1>1. IsFiniteSet(0 .. p - 1) /\ IsFiniteSet(0 .. n - 1)
  BY FS_Interval
<1>2. IsFiniteSet(Newlines(p)) /\ Cardinality(Newlines(p)) \in Nat
  <2>1. Newlines(p) \in SUBSET (0 .. p - 1)
    BY DEF Newlines
  <2> QED BY <1>1, <2>1, FS_Subset, FS_CardinalityType
<1>3. IsFiniteSet(more) /\ Cardinality(more) \in Nat
  <2>1. more \in SUBSET (0 .. n - 1)
    OBVIOUS
  <2> QED BY <1>1, <2>1, FS_Subset, FS_CardinalityType
<1>4. IsFiniteSet(moved) /\ Cardinality(moved) = Cardinality(more)
  <2> DEFINE f == [k \in more |-> p + k]
  <2>1. f \in [more -> moved]
    OBVIOUS
  <2>2. \A k, l \in more : f[k] = f[l] => k = l
    OBVIOUS
  <2>3. \A q \in moved : \E k \in more : f[k] = q
    <3> TAKE q \in moved
    <3>1. q - p \in 0 .. n - 1 /\ p + (q - p) = q
      OBVIOUS
    <3>2. q - p \in more
      BY <3>1
    <3>3. f[q - p] = q
      BY <3>1, <3>2
    <3> QED BY <3>2, <3>3
  <2>4. f \in Bijection(more, moved)
    BY <2>1, <2>2, <2>3, Fun_IsBij
  <2>5. ExistsBijection(more, moved)
    BY <2>4 DEF ExistsBijection
  <2> QED BY <1>3, <2>5, FS_Bijection
<1>5. Newlines(p + n) = Newlines(p) \cup moved
  BY DEF Newlines
<1>6. Newlines(p) \cap moved = {}
  BY DEF Newlines
<1>7. Cardinality(Newlines(p + n)) = Cardinality(Newlines(p)) + Cardinality(moved) - 0
  <2> HIDE DEF moved
  <2> QED BY <1>2, <1>4, <1>5, <1>6, FS_Union, FS_EmptySet
<1> QED BY <1>2, <1>3, <1>4, <1>7, FS_EmptySet

\* The text does not change, so neither does what is said of it.
LEMMA SameText ==
  ASSUME source' = source
  PROVE  /\ source_len' = source_len
         /\ \A p : Char(p)' = Char(p)
         /\ \A p, n : Text(p, n)' = Text(p, n)
         /\ \A p : Newlines(p)' = Newlines(p)
         /\ \A t : LineRight(t)' <=> LineRight(t)
         /\ \A p, col : ColumnFits(p, col)' <=> ColumnFits(p, col)
         /\ \A p : Prefixed(p)' <=> Prefixed(p)
         /\ \A t : Munched(t)' <=> Munched(t)
         /\ \A t : WrittenBase(t)' = WrittenBase(t)
         /\ \A t : ValueRight(t)' <=> ValueRight(t)
<1>1. source_len' = source_len
  BY DEF source_len
<1>2. \A p : Char(p)' = Char(p)
  BY <1>1 DEF Char
<1>3. \A p, n : Text(p, n)' = Text(p, n)
  BY DEF Text
<1>4. \A p : Newlines(p)' = Newlines(p)
  BY <1>2 DEF Newlines
<1>5. \A t : LineRight(t)' <=> LineRight(t)
  BY <1>4 DEF LineRight
<1>6. \A p, q : StartsLine(p, q)' <=> StartsLine(p, q)
  BY <1>2 DEF StartsLine
<1>7. \A p, q : CommentFree(p, q)' <=> CommentFree(p, q)
  BY <1>2 DEF CommentFree, CommentOpener, CommentCloser
<1>8. \A p, col : ColumnFits(p, col)' <=> ColumnFits(p, col)
  BY <1>6, <1>7 DEF ColumnFits
<1>9. \A p : Prefixed(p)' <=> Prefixed(p)
  BY <1>2 DEF Prefixed
<1>10. \A t : Munched(t)' <=> Munched(t)
  BY <1>2, <1>3 DEF Munched
<1>11. \A t : WrittenBase(t)' = WrittenBase(t)
  BY <1>2 DEF WrittenBase
<1>12. \A t : WrittenFrom(t)' = WrittenFrom(t)
  BY <1>11 DEF WrittenFrom
<1>13. \A t : WellWritten(t)' <=> WellWritten(t)
  BY <1>2, <1>11, <1>12 DEF WellWritten
<1>14. \A t : LiteralValue(t)' = LiteralValue(t)
  BY <1>3, <1>11, <1>12 DEF LiteralValue
<1>15. \A t : ValueRight(t)' <=> ValueRight(t)
  BY <1>13, <1>14 DEF ValueRight
<1> QED BY <1>1, <1>2, <1>3, <1>4, <1>5, <1>8, <1>9, <1>10, <1>11, <1>15

\* Characters that are no line feeds move the column with the position.
LEMMA ColumnMoves ==
  ASSUME NEW p \in Nat, NEW n \in Nat, NEW col \in Nat, ColumnFits(p, col),
         \A k \in 0 .. n - 1 : Char(p + k) # "nl"
  PROVE  ColumnFits(p + n, col + n)
<1> SUFFICES ASSUME NEW first \in 0 .. p + n,
                    StartsLine(first, p + n), CommentFree(first, p + n)
             PROVE  col + n = (p + n) - first + 1
  BY DEF ColumnFits
<1>1. first <= p
  <2> SUFFICES ASSUME first > p PROVE FALSE
    OBVIOUS
  <2>1. (first - 1) - p \in 0 .. n - 1 /\ p + ((first - 1) - p) = first - 1
    OBVIOUS
  <2>2. Char(first - 1) # "nl"
    BY <2>1
  <2>3. first # 0
    OBVIOUS
  <2> QED BY <2>2, <2>3 DEF StartsLine
<1>2. StartsLine(first, p) /\ CommentFree(first, p)
  BY DEF StartsLine, CommentFree
<1>3. col = p - first + 1
  BY <1>1, <1>2 DEF ColumnFits
<1> QED BY <1>3

\* Behind the last of some line feeds the column starts anew.
LEMMA ColumnResets ==
  ASSUME NEW p \in Nat, NEW n \in Nat, NEW m \in 0 .. n - 1, Char(p + m) = "nl",
         \A k \in 0 .. n - 1 : Char(p + k) = "nl" => k <= m
  PROVE  ColumnFits(p + n, n - m)
<1> SUFFICES ASSUME NEW first \in 0 .. p + n, StartsLine(first, p + n)
             PROVE  n - m = (p + n) - first + 1
  BY DEF ColumnFits
<1>1. ~(first <= p + m)
  <2> SUFFICES ASSUME first <= p + m PROVE FALSE
    OBVIOUS
  <2>1. p + m \in first .. (p + n) - 1
    OBVIOUS
  <2> QED BY <2>1 DEF StartsLine
<1>2. ~(first > p + m + 1)
  <2> SUFFICES ASSUME first > p + m + 1 PROVE FALSE
    OBVIOUS
  <2>1. /\ (first - 1) - p \in 0 .. n - 1 /\ p + ((first - 1) - p) = first - 1
        /\ ~((first - 1) - p <= m) /\ first # 0
    OBVIOUS
  <2> QED BY <2>1 DEF StartsLine
<1> QED BY <1>1, <1>2

\* lexer_advance_char keeps line and column right.
LEMMA Advanced ==
  ASSUME Typed, source' = source, NEW n \in Nat, pos + n <= source_len, Advance(n)
  PROVE  /\ pos' = pos + n /\ pos' \in 0 .. source_len'
         /\ line' \in Nat \ {0} /\ column' \in Nat \ {0}
         /\ line = 1 + Cardinality(Newlines(pos)) => line' = 1 + Cardinality(Newlines(pos))'
         /\ ColumnFits(pos, column) \/ (n = 1 /\ Char(pos) = "nl") => ColumnFits(pos, column)'
<1> DEFINE more == {k \in 0 .. n - 1 : Char(pos + k) = "nl"}
<1>1. pos \in Nat /\ line \in Nat \ {0} /\ column \in Nat \ {0} /\ source_len \in Nat
  BY DEF Typed, TypeOK, source_len
<1>2. /\ pos' = pos + n
      /\ line' = line + Cardinality(more)
      /\ column' = IF more = {} THEN column + n ELSE n - Max(more)
  BY DEF Advance
<1>3. pos' \in 0 .. source_len'
  BY <1>1, <1>2, SameText
<1>4. /\ Cardinality(Newlines(pos)) \in Nat
      /\ Cardinality(more) \in Nat
      /\ Cardinality(Newlines(pos + n)) = Cardinality(Newlines(pos)) + Cardinality(more)
  BY <1>1, LineFeeds
<1>5. line = 1 + Cardinality(Newlines(pos)) => line' = 1 + Cardinality(Newlines(pos))'
  <2>1. Newlines(pos)' = Newlines(pos + n)
    BY <1>2, SameText
  <2> QED BY <1>1, <1>2, <1>4, <2>1
<1>6. CASE more = {}
  <2>1. column' = column + n
    BY <1>2, <1>6
  <2>2. \A k \in 0 .. n - 1 : Char(pos + k) # "nl"
    BY <1>6
  <2>3. ~(n = 1 /\ Char(pos) = "nl")
    <3>1. n = 1 => Char(pos + 0) # "nl" /\ pos + 0 = pos
      BY <1>1, <2>2
    <3> QED BY <3>1
  <2>4. ColumnFits(pos, column) => ColumnFits(pos + n, column + n)
    BY <1>1, <2>2, ColumnMoves
  <2>5. ColumnFits(pos, column)' <=> ColumnFits(pos + n, column + n)
    BY <1>2, <2>1, SameText
  <2> QED BY <1>1, <1>2, <1>3, <1>4, <1>5, <2>1, <2>3, <2>4, <2>5
<1>7. CASE more # {}
  <2> DEFINE m == Max(more)
  <2>1. m \in more /\ \A k \in more : k <= m
    <3>1. more \in SUBSET (0 .. n)
      OBVIOUS
    <3> QED BY <1>7, <3>1, GreatestNatural
  <2>2. column' = n - m
    BY <1>2, <1>7
  <2> HIDE DEF m
  <2>3. m \in 0 .. n - 1 /\ Char(pos + m) = "nl" /\ n - m \in Nat \ {0}
    BY <2>1
  <2>4. \A k \in 0 .. n - 1 : Char(pos + k) = "nl" => k <= m
    BY <2>1
  <2>5. ColumnFits(pos + n, n - m)
    BY <1>1, <2>3, <2>4, ColumnResets
  <2>6. ColumnFits(pos, column)' <=> ColumnFits(pos + n, n - m)
    BY <1>2, <2>2, SameText
  <2> QED BY <1>1, <1>2, <1>3, <1>4, <1>5, <2>2, <2>3, <2>5, <2>6
<1> QED BY <1>6, <1>7

-----------------------------------------------------------------------------
(* What is common to the steps of one kind *)

\* No error that was reported is taken back.
Reports == errors' = errors \/ \E e \in Nat : errors' = Append(errors, e)

LEMMA StringsStayEnded ==
  ASSUME Typed, source' = source, Reports
  PROVE  /\ errors' \in Seq(Nat)
         /\ \A from, end : StringEnds(from, end) => StringEnds(from, end)'
<1>1. errors \in Seq(Nat)
  BY DEF Typed
<1>2. errors' \in Seq(Nat)
  BY <1>1 DEF Reports
<1>3. \A k \in 1 .. Len(errors) : k \in 1 .. Len(errors') /\ errors'[k] = errors[k]
  BY <1>1 DEF Reports
<1>4. /\ source_len' = source_len
      /\ \A p : Char(p)' = Char(p)
  BY SameText
<1> QED BY <1>2, <1>3, <1>4 DEF StringEnds

LEMMA TokenStaysRight ==
  ASSUME Typed, source' = source, Reports
  PROVE  \A t : TokenRight(t) => TokenRight(t)'
<1>1. \A from, end : StringEnds(from, end) => StringEnds(from, end)'
  BY StringsStayEnded
<1>2. /\ \A t : LineRight(t)' <=> LineRight(t)
      /\ \A p, col : ColumnFits(p, col)' <=> ColumnFits(p, col)
      /\ \A t : Munched(t)' <=> Munched(t)
      /\ \A t : WrittenBase(t)' = WrittenBase(t)
      /\ \A t : ValueRight(t)' <=> ValueRight(t)
  BY SameText
<1> QED BY <1>1, <1>2 DEF TokenRight

\* Skipping: between two tokens nothing but the place changes.
LEMMA SkipPreserves ==
  ASSUME LexerInv, source' = source, tokens' = tokens, start' = start, base' = base, Reports,
         mode \in {"skip", "comment"}, mode' \in {"skip", "comment", "done"},
         pos' \in pos .. source_len, line' \in Nat \ {0}, column' \in Nat \ {0}, Located',
         depth' \in 0 .. MAX_COMMENT_DEPTH + 1,
         mode' = "comment" => depth' <= MAX_COMMENT_DEPTH
  PROVE  LexerInv'
<1>1. ~Reading /\ ~Reading' /\ mode' # "number" /\ mode' # "string_read"
  BY DEF Reading
<1>2. source_len' = source_len /\ source_len \in Nat
  BY SameText DEF source_len, LexerInv, Typed
<1>3. Typed'
  <2>1. errors' \in Seq(Nat)
    BY StringsStayEnded DEF LexerInv
  <2>2. pos' \in 0 .. source_len' /\ start'.pos \in 0 .. pos'
    BY <1>2 DEF LexerInv, Typed, TypeOK
  <2> QED BY <1>1, <2>1, <2>2 DEF LexerInv, Typed, TypeOK
<1>4. Ordered'
  <2> SUFFICES ASSUME NEW i \in 1 .. Len(tokens)
               PROVE  /\ tokens[i].len > 0
                      /\ tokens[i].pos + tokens[i].len <=
                           IF i < Len(tokens) THEN tokens[i + 1].pos ELSE pos'
    BY <1>1 DEF Ordered
  <2>1. tokens \in Seq(Token) /\ pos \in Nat /\ pos' \in Nat /\ pos <= pos'
    BY <1>2 DEF LexerInv, Typed, TypeOK
  <2>2. tokens[i] \in Token
    BY <2>1
  <2>3. tokens[i].pos + tokens[i].len \in Nat
    BY <2>2 DEF Token
  <2>4. /\ tokens[i].len > 0
        /\ tokens[i].pos + tokens[i].len <=
             IF i < Len(tokens) THEN tokens[i + 1].pos ELSE pos
    BY <1>1 DEF LexerInv, Ordered
  <2> QED BY <2>1, <2>3, <2>4
<1>5. TokensRight'
  BY TokenStaysRight DEF LexerInv, TokensRight
<1>6. StartLocated' /\ InString' /\ InBase'
  BY <1>1 DEF StartLocated, InString, InBase
<1> QED BY <1>3, <1>4, <1>5, <1>6 DEF LexerInv

\* A token begins where the lexer is, in line and column.
LEMMA BeginPreserves ==
  ASSUME LexerInv, source' = source, tokens' = tokens, depth' = depth, Reports,
         NEW n \in Nat \ {0}, Begin(n), pos + n <= source_len,
         mode' \in {"ident", "number", "string", "char_read"},
         base' \in {2, 8, 10, 16}, InBase'
  PROVE  LexerInv'
<1>1. /\ mode = "skip" /\ ~Reading /\ Reading' /\ mode' # "comment" /\ mode' # "string_read"
      /\ start' = [pos |-> pos, line |-> line, column |-> column]
      /\ Advance(n)
      /\ pos < source_len /\ Char(pos) \notin Whitespace
  BY DEF Begin, AtToken, Reading
<1>2. Typed /\ Located
  BY DEF LexerInv
<1>3. pos \in Nat /\ source_len \in Nat /\ line \in Nat /\ column \in Nat
  BY <1>2 DEF Typed, TypeOK, source_len
<1>4. LineRight(start') /\ ColumnFits(start'.pos, start'.column)
  <2>1. Char(pos) # "nl"
    BY <1>1 DEF Whitespace
  <2>2. pos # source_len
    BY <1>1, <1>3
  <2>3. ColumnFits(pos, column) /\ line = 1 + Cardinality(Newlines(pos))
    BY <1>2, <2>1, <2>2 DEF Located
  <2> QED BY <1>1, <2>3 DEF LineRight
<1>5. /\ pos' = pos + n /\ pos' \in 0 .. source_len'
      /\ line' \in Nat \ {0} /\ column' \in Nat \ {0}
      /\ line' = 1 + Cardinality(Newlines(pos))'
      /\ ColumnFits(pos, column)'
  <2>1. ColumnFits(pos, column) /\ line = 1 + Cardinality(Newlines(pos))
    BY <1>1, <1>2, <1>4 DEF Located
  <2> QED BY <1>1, <1>2, <2>1, Advanced
<1>6. Typed'
  <2>1. errors' \in Seq(Nat)
    BY <1>2, StringsStayEnded
  <2>2. start'.pos \in 0 .. pos' /\ start'.pos < pos'
    BY <1>1, <1>3, <1>5
  <2>3. start' \in [pos : Nat, line : Nat, column : Nat]
    BY <1>1, <1>3
  <2> QED BY <1>1, <1>2, <1>5, <2>1, <2>2, <2>3 DEF Typed, TypeOK
<1>7. Ordered'
  BY <1>1 DEF LexerInv, Ordered
<1>8. Located'
  BY <1>5 DEF Located
<1>9. StartLocated'
  <2>1. LineRight(start)' /\ ColumnFits(start.pos, start.column)'
    BY <1>4, SameText
  <2> QED BY <2>1 DEF StartLocated
<1>10. InString'
  BY <1>1 DEF InString
<1>11. TokensRight'
  BY <1>2, TokenStaysRight DEF LexerInv, TokensRight
<1> QED BY <1>6, <1>7, <1>8, <1>9, <1>10, <1>11 DEF LexerInv

\* The characters of a token that has begun.
LEMMA ReadPreserves ==
  ASSUME LexerInv, source' = source, tokens' = tokens, start' = start, depth' = depth,
         base' = base, Reports, Reading, Reading',
         NEW n \in Nat, pos + n <= source_len, Advance(n),
         mode' = "number" => mode = "number", InString'
  PROVE  LexerInv'
<1>1. Typed /\ Located
  BY DEF LexerInv
<1>2. mode \notin {"skip", "done", "comment"} /\ mode' \notin {"skip", "done", "comment"}
  BY DEF Reading
<1>3. /\ pos' = pos + n /\ pos' \in 0 .. source_len'
      /\ line' \in Nat \ {0} /\ column' \in Nat \ {0}
      /\ line' = 1 + Cardinality(Newlines(pos))'
      /\ ColumnFits(pos, column)'
  BY <1>1, <1>2, Advanced DEF Located
<1>4. pos \in Nat /\ start.pos \in Nat /\ start.pos < pos
  BY <1>1 DEF Typed, TypeOK
<1>5. Typed'
  <2>1. errors' \in Seq(Nat)
    BY <1>1, StringsStayEnded
  <2>2. start'.pos \in 0 .. pos' /\ start'.pos < pos'
    BY <1>3, <1>4
  <2>3. mode' \in {"skip", "comment", "ident", "number", "string", "string_read",
                   "char_read", "done"}
    BY DEF Reading
  <2> QED BY <1>1, <1>2, <1>3, <2>1, <2>2, <2>3 DEF Typed, TypeOK
<1>6. Ordered'
  BY DEF LexerInv, Ordered
<1>7. Located'
  BY <1>3 DEF Located
<1>8. StartLocated'
  <2>1. LineRight(start) /\ ColumnFits(start.pos, start.column)
    BY DEF LexerInv, StartLocated
  <2>2. LineRight(start)' /\ ColumnFits(start.pos, start.column)'
    BY <2>1, SameText
  <2> QED BY <2>2 DEF StartLocated
<1>9. InBase'
  <2> SUFFICES ASSUME mode' = "number" PROVE InBase'
    BY DEF InBase
  <2>1. /\ Prefixed(start.pos)' <=> Prefixed(start.pos)
        /\ Char(start.pos + 1)' = Char(start.pos + 1)
    BY SameText
  <2>2. start.pos + 2 <= pos => start.pos + 2 <= pos'
    BY <1>3, <1>4
  <2> QED BY <2>1, <2>2 DEF LexerInv, InBase
<1>10. TokensRight'
  BY <1>1, TokenStaysRight DEF LexerInv, TokensRight
<1> QED BY <1>5, <1>6, <1>7, <1>8, <1>9, <1>10 DEF LexerInv

\* A token is returned, right behind which the lexer goes on.
LEMMA TokenAdded ==
  ASSUME LexerInv, source' = source, Reports, ~Reading',
         NEW t \in Token, tokens' = Append(tokens, t), TokenRight(t),
         t.len > 0, t.pos = IF Reading THEN start.pos ELSE pos, pos' = t.pos + t.len
  PROVE  tokens' \in Seq(Token) /\ Ordered' /\ TokensRight'
<1>1. Typed /\ tokens \in Seq(Token) /\ Len(tokens) \in Nat
  BY DEF LexerInv, Typed
<1>2. /\ tokens' \in Seq(Token) /\ Len(tokens') = Len(tokens) + 1
      /\ \A i \in 1 .. Len(tokens) : tokens'[i] = tokens[i]
      /\ tokens'[Len(tokens) + 1] = t
  BY <1>1
<1>3. TokensRight'
  <2>1. \A i \in 1 .. Len(tokens') : TokenRight(tokens'[i])
    BY <1>1, <1>2 DEF LexerInv, TokensRight
  <2>2. \A u : TokenRight(u) => TokenRight(u)'
    BY <1>1, TokenStaysRight
  <2> QED BY <2>1, <2>2 DEF TokensRight
<1>4. Ordered'
  <2> SUFFICES ASSUME NEW i \in 1 .. Len(tokens')
               PROVE  /\ tokens'[i].len > 0
                      /\ tokens'[i].pos + tokens'[i].len <=
                           IF i < Len(tokens') THEN tokens'[i + 1].pos ELSE pos'
    BY DEF Ordered
  <2>1. CASE i = Len(tokens) + 1
    <3>1. t.pos + t.len \in Nat
      BY DEF Token
    <3> QED BY <1>1, <1>2, <2>1, <3>1
  <2>2. CASE i \in 1 .. Len(tokens)
    <3>1. /\ tokens[i].len > 0
          /\ tokens[i].pos + tokens[i].len <=
               IF i < Len(tokens) THEN tokens[i + 1].pos ELSE t.pos
      BY <2>2 DEF LexerInv, Ordered
    <3>2. tokens'[i] = tokens[i]
      BY <1>2, <2>2
    <3>3. CASE i < Len(tokens)
      <4>1. i + 1 \in 1 .. Len(tokens)
        BY <1>1, <3>3
      <4>2. tokens'[i + 1] = tokens[i + 1]
        BY <1>2, <4>1
      <4> QED BY <1>1, <1>2, <3>1, <3>2, <3>3, <4>2
    <3>4. CASE i = Len(tokens)
      <4>1. tokens'[i + 1] = t /\ i < Len(tokens') /\ ~(i < Len(tokens))
        BY <1>1, <1>2, <3>4
      <4> QED BY <3>1, <3>2, <4>1
    <3> QED BY <1>1, <2>2, <3>3, <3>4
  <2> QED BY <1>1, <1>2, <2>1, <2>2
<1> QED BY <1>2, <1>3, <1>4

\* make_token of a token that has been read.
LEMMA ReturnPreserves ==
  ASSUME LexerInv, UNCHANGED <<source, pos, line, column, start, depth, base, errors>>, Reading,
         NEW kind \in {"keyword", "identifier", "int", "float", "string", "char"},
         NEW v \in IntValues, Return(kind, v),
         kind \in {"keyword", "identifier"} => ~is_ident_char(Char(pos)),
         kind = "string" => mode = "string_read",
         \A t \in Token :
           /\ t.kind = "int" /\ kind = "int"
           /\ t.pos = start.pos /\ t.len = pos - start.pos /\ t.int_value = v
           /\ WrittenBase(t) \in {10, 16}
           => ValueRight(t)
  PROVE  LexerInv'
<1> DEFINE t == [kind |-> kind, pos |-> start.pos, len |-> pos - start.pos,
                 line |-> start.line, column |-> start.column, int_value |-> v]
<1>1. Typed /\ Located /\ StartLocated
  BY DEF LexerInv
<1>2. /\ start \in [pos : Nat, line : Nat, column : Nat]
      /\ pos \in Nat /\ start.pos \in Nat /\ start.pos < pos
      /\ mode \notin {"skip", "done", "comment"}
  BY <1>1 DEF Typed, TypeOK, Reading
<1>3. tokens' = Append(tokens, t) /\ mode' = "skip"
  BY DEF Return
<1>4. /\ t.kind = kind /\ t.pos = start.pos /\ t.len = pos - start.pos
      /\ t.line = start.line /\ t.column = start.column /\ t.int_value = v
  OBVIOUS
<1>5. t \in Token /\ t.len > 0 /\ t.pos + t.len = pos
  BY <1>2 DEF Token
<1>6. TokenRight(t)
  <2>1. LineRight(t)
    BY <1>1, <1>4 DEF StartLocated, LineRight
  <2>2. ColumnFits(t.pos, t.column)
    BY <1>1, <1>4 DEF StartLocated
  <2>3. Munched(t)
    BY <1>4, <1>5 DEF Munched
  <2>4. t.kind = "string" => StringEnds(t.pos, t.pos + t.len)
    BY <1>4, <1>5 DEF LexerInv, InString
  <2>5. WrittenBase(t) \in {10, 16} => ValueRight(t)
    BY <1>4, <1>5 DEF ValueRight
  <2> QED BY <2>1, <2>2, <2>3, <2>4, <2>5 DEF TokenRight
<1> HIDE DEF t
<1>7. Reports /\ source' = source /\ ~Reading'
  BY <1>3 DEF Reports, Reading
<1>8. tokens' \in Seq(Token) /\ Ordered' /\ TokensRight'
  BY <1>3, <1>4, <1>5, <1>6, <1>7, TokenAdded
<1>9. Typed'
  BY <1>1, <1>3, <1>7, <1>8 DEF Typed, TypeOK, source_len
<1>10. Located'
  <2>1. line' = 1 + Cardinality(Newlines(pos))'
    BY <1>1, SameText DEF Located
  <2>2. ColumnFits(pos, column)
    BY <1>1, <1>2 DEF Located
  <2>3. ColumnFits(pos, column)'
    BY <2>2, SameText
  <2> QED BY <2>1, <2>3 DEF Located
<1>11. StartLocated' /\ InString' /\ InBase'
  BY <1>3, <1>7 DEF StartLocated, InString, InBase
<1> QED BY <1>8, <1>9, <1>10, <1>11 DEF LexerInv

-----------------------------------------------------------------------------
(* The steps *)

LEMMA InitEstablishes == Init => LexerInv
<1> SUFFICES ASSUME Init PROVE LexerInv
  OBVIOUS
<1>1. source \in Seq(Chars)
  <2>1. PICK a \in Alphabets : source \in BoundedSeq(a.chars, a.len)
    BY DEF Init
  <2>2. PICK m \in 0 .. a.len : source \in [1 .. m -> a.chars]
    BY <2>1 DEF BoundedSeq, SeqOf
  <2>3. a.len \in Nat /\ a.chars \subseteq Chars
    BY LexerAssumption DEF Chars
  <2>4. m \in Nat /\ source \in [1 .. m -> Chars]
    BY <2>2, <2>3
  <2> QED BY <2>4
<1>2. source_len \in Nat
  BY <1>1 DEF source_len
<1>3. ~Reading /\ mode = "skip" /\ tokens = << >> /\ errors = << >>
  BY DEF Init, Reading
<1>4. Typed
  <2>1. MAX_COMMENT_DEPTH \in Nat
    BY LexerAssumption
  <2>2. start = [pos |-> 0, line |-> 1, column |-> 1] /\ start.pos = 0
    BY DEF Init
  <2> QED BY <1>1, <1>2, <1>3, <2>1, <2>2 DEF Init, Typed, TypeOK
<1>5. Ordered /\ TokensRight
  BY <1>3 DEF Ordered, TokensRight
<1>6. Located
  <2>1. pos = 0 /\ line = 1 /\ column = 1
    BY DEF Init
  <2>2. Newlines(0) = {}
    BY DEF Newlines
  <2>3. ColumnFits(0, 1)
    BY DEF ColumnFits
  <2> QED BY <2>1, <2>2, <2>3, FS_EmptySet DEF Located
<1>7. StartLocated /\ InString /\ InBase
  BY <1>3 DEF StartLocated, InString, InBase
<1> QED BY <1>4, <1>5, <1>6, <1>7 DEF LexerInv

\* What the other lemmas take from the invariant.
LEMMA Places ==
  ASSUME LexerInv
  PROVE  /\ Typed /\ Located
         /\ pos \in Nat /\ source_len \in Nat /\ pos <= source_len
         /\ line \in Nat \ {0} /\ column \in Nat \ {0}
         /\ depth \in 0 .. MAX_COMMENT_DEPTH + 1 /\ MAX_COMMENT_DEPTH \in Nat \ {0}
         /\ mode = "comment" => depth <= MAX_COMMENT_DEPTH
BY LexerAssumption DEF LexerInv, Typed, TypeOK, source_len

\* Characters that are no line feeds leave the line as it is.
LEMMA SamePlace ==
  ASSUME Typed, source' = source, NEW n \in Nat, pos' = pos + n, line' = line,
         line = 1 + Cardinality(Newlines(pos)),
         \A k \in 0 .. n - 1 : Char(pos + k) # "nl"
  PROVE  line' = 1 + Cardinality(Newlines(pos))'
<1>1. pos \in Nat
  BY DEF Typed, TypeOK
<1> DEFINE more == {k \in 0 .. n - 1 : Char(pos + k) = "nl"}
<1>2. more = {}
  OBVIOUS
<1>3. Cardinality(Newlines(pos + n)) = Cardinality(Newlines(pos))
  <2>1. /\ Cardinality(Newlines(pos)) \in Nat
        /\ more = {} => Cardinality(more) = 0
        /\ Cardinality(Newlines(pos + n)) = Cardinality(Newlines(pos)) + Cardinality(more)
    BY <1>1, LineFeeds
  <2> HIDE DEF more
  <2> QED BY <1>2, <2>1
<1>4. Newlines(pos)' = Newlines(pos + n)
  BY SameText
<1> QED BY <1>3, <1>4

LEMMA SkipSpacePreserves == LexerInv /\ SkipSpace => LexerInv'
<1> SUFFICES ASSUME LexerInv, SkipSpace PROVE LexerInv'
  OBVIOUS
<1>1. /\ source' = source /\ mode = "skip" /\ mode' = mode /\ depth' = depth /\ errors' = errors
      /\ tokens' = tokens /\ start' = start /\ base' = base
      /\ Char(pos) \in Whitespace /\ Advance(1)
  BY DEF SkipSpace, token
<1>2. pos < source_len
  <2>1. Char(pos) # "nul"
    BY <1>1 DEF Whitespace
  <2> QED BY <2>1, InText, Places
<1>3. ColumnFits(pos, column) \/ Char(pos) = "nl"
  BY <1>2, Places DEF Located
<1>4. /\ pos' = pos + 1 /\ line' \in Nat \ {0} /\ column' \in Nat \ {0}
      /\ line' = 1 + Cardinality(Newlines(pos))'
      /\ ColumnFits(pos, column)'
  <2>1. line = 1 + Cardinality(Newlines(pos))
    BY Places DEF Located
  <2>2. pos + 1 <= source_len
    BY <1>2, Places
  <2> QED BY <1>1, <1>3, <2>1, <2>2, Places, Advanced
<1>5. Located'
  BY <1>4 DEF Located
<1> QED BY <1>1, <1>2, <1>4, <1>5, Places, SkipPreserves DEF Reports

LEMMA SkipLineCommentPreserves == LexerInv /\ SkipLineComment => LexerInv'
<1> SUFFICES ASSUME LexerInv, SkipLineComment PROVE LexerInv'
  OBVIOUS
<1> DEFINE ends == {p \in pos .. source_len : p = source_len \/ Char(p) = "nl"}
<1>1. /\ source' = source /\ mode = "skip" /\ mode' = mode /\ depth' = depth /\ errors' = errors
      /\ tokens' = tokens /\ start' = start /\ base' = base /\ line' = line /\ column' = column
      /\ pos' = Min(ends)
  BY DEF SkipLineComment, token
<1>2. pos' \in ends /\ \A p \in ends : pos' <= p
  <2>1. ends \in SUBSET Nat /\ source_len \in ends
    BY Places
  <2> HIDE DEF ends
  <2> QED BY <1>1, <2>1, LeastNatural
<1>3. pos' \in pos .. source_len /\ (pos' = source_len \/ Char(pos') = "nl")
  BY <1>2
<1>4. line' = 1 + Cardinality(Newlines(pos))'
  <2> DEFINE n == pos' - pos
  <2>1. n \in Nat /\ pos' = pos + n
    BY <1>3, Places
  <2>2. \A k \in 0 .. n - 1 : Char(pos + k) # "nl"
    <3> SUFFICES ASSUME NEW k \in 0 .. n - 1, Char(pos + k) = "nl" PROVE FALSE
      OBVIOUS
    <3>1. pos + k \in ends /\ pos + k < pos'
      BY <1>3, Places
    <3> QED BY <1>2, <1>3, <3>1, Places
  <2>3. line = 1 + Cardinality(Newlines(pos))
    BY Places DEF Located
  <2> HIDE DEF n
  <2> QED BY <1>1, <2>1, <2>2, <2>3, Places, SamePlace
<1>5. Located'
  <2>1. (pos = source_len \/ Char(pos) = "nl")'
    BY <1>1, <1>3, SameText
  <2> QED BY <1>1, <1>4, <2>1 DEF Located
<1> QED BY <1>1, <1>3, <1>5, Places, SkipPreserves DEF Reports

LEMMA OpenCommentPreserves == LexerInv /\ OpenComment => LexerInv'
<1> SUFFICES ASSUME LexerInv, OpenComment PROVE LexerInv'
  OBVIOUS
<1>1. /\ source' = source /\ mode = "skip" /\ mode' = "comment" /\ depth' = 1 /\ errors' = errors
      /\ tokens' = tokens /\ start' = start /\ base' = base /\ line' = line
      /\ column' = column + 2 /\ pos' = pos + 2
      /\ Char(pos) = "/" /\ Char(pos + 1) = "*"
  BY DEF OpenComment, token
<1>2. pos + 1 < source_len
  <2>1. pos + 1 \in Nat /\ Char(pos + 1) # "nul"
    BY <1>1, Places
  <2> QED BY <2>1, InText
<1>3. \A k \in 0 .. 2 - 1 : Char(pos + k) # "nl"
  <2> SUFFICES ASSUME NEW k \in 0 .. 2 - 1 PROVE Char(pos + k) # "nl"
    OBVIOUS
  <2>1. (k = 0 /\ pos + k = pos) \/ k = 1
    BY Places
  <2> QED BY <1>1, <2>1
<1>4. line' = 1 + Cardinality(Newlines(pos))'
  <2>1. line = 1 + Cardinality(Newlines(pos))
    BY Places DEF Located
  <2> QED BY <1>1, <1>3, <2>1, Places, SamePlace
<1>5. ColumnFits(pos, column)'
  <2>1. ColumnFits(pos, column)
    BY <1>1, <1>2, Places DEF Located
  <2>2. ColumnFits(pos + 2, column + 2)
    BY <1>3, <2>1, Places, ColumnMoves
  <2> QED BY <1>1, <2>2, SameText
<1>6. Located'
  BY <1>4, <1>5 DEF Located
<1>7. pos' \in pos .. source_len /\ column' \in Nat \ {0} /\ line' \in Nat \ {0}
  BY <1>1, <1>2, Places
<1>8. depth' \in 0 .. MAX_COMMENT_DEPTH + 1 /\ depth' <= MAX_COMMENT_DEPTH
  BY <1>1, Places
<1> QED BY <1>1, <1>6, <1>7, <1>8, SkipPreserves DEF Reports

LEMMA CommentStepPreserves == LexerInv /\ CommentStep => LexerInv'
<1> SUFFICES ASSUME LexerInv, CommentStep PROVE LexerInv'
  OBVIOUS
<1>1. /\ source' = source /\ mode = "comment" /\ pos < source_len /\ depth > 0
      /\ tokens' = tokens /\ start' = start /\ base' = base
      /\ depth' = IF CommentOpener(pos) THEN depth + 1
                  ELSE IF CommentCloser(pos) THEN depth - 1 ELSE depth
      /\ IF depth' # depth
         THEN pos' = pos + 2 /\ line' = line /\ column' = column
         ELSE Advance(1)
      /\ IF depth' > MAX_COMMENT_DEPTH
         THEN errors' = Append(errors, pos') /\ mode' = "skip"
         ELSE errors' = errors /\ mode' = mode
  BY DEF CommentStep, token
<1>2. line = 1 + Cardinality(Newlines(pos)) /\ ColumnFits(pos, column)
  BY <1>1, Places DEF Located
<1>3. /\ pos' \in pos .. source_len /\ column' \in Nat \ {0} /\ line' \in Nat \ {0}
      /\ line' = 1 + Cardinality(Newlines(pos))' /\ ColumnFits(pos, column)'
  <2>1. CASE depth' # depth
    <3>1. CommentOpener(pos) \/ CommentCloser(pos)
      BY <1>1, <2>1
    <3>2. /\ Char(pos) # "nl" /\ Char(pos + 1) # "nl"
          /\ Char(pos + 1) # "nul"
      BY <3>1 DEF CommentOpener, CommentCloser
    <3>3. pos + 1 < source_len
      BY <3>2, Places, InText
    <3>4. \A k \in 0 .. 2 - 1 : Char(pos + k) # "nl"
      <4> SUFFICES ASSUME NEW k \in 0 .. 2 - 1 PROVE Char(pos + k) # "nl"
        OBVIOUS
      <4>1. (k = 0 /\ pos + k = pos) \/ k = 1
        BY Places
      <4> QED BY <3>2, <4>1
    <3>5. pos' = pos + 2 /\ line' = line /\ column' = column
      BY <1>1, <2>1
    <3>6. line' = 1 + Cardinality(Newlines(pos))'
      BY <1>1, <1>2, <3>4, <3>5, Places, SamePlace
    <3>7. ColumnFits(pos + 2, column)
      <4> SUFFICES ASSUME NEW first \in 0 .. pos + 2,
                          StartsLine(first, pos + 2), CommentFree(first, pos + 2)
                   PROVE  FALSE
        BY DEF ColumnFits
      <4>1. ~(first <= pos)
        <5> SUFFICES ASSUME first <= pos PROVE FALSE
          OBVIOUS
        <5>1. pos \in first .. (pos + 2) - 1
          BY Places
        <5> QED BY <3>1, <5>1 DEF CommentFree
      <4>2. first - 1 = pos \/ first - 1 = pos + 1
        BY <4>1, Places
      <4> QED BY <3>2, <4>1, <4>2, Places DEF StartsLine
    <3> QED BY <1>1, <3>3, <3>5, <3>6, <3>7, Places, SameText
  <2>2. CASE depth' = depth
    <3>1. Advance(1) /\ pos + 1 <= source_len
      BY <1>1, <2>2, Places
    <3> QED BY <1>1, <1>2, <3>1, Places, Advanced
  <2> QED BY <2>1, <2>2
<1>4. depth' \in 0 .. MAX_COMMENT_DEPTH + 1 /\ (mode' = "comment" => depth' <= MAX_COMMENT_DEPTH)
  BY <1>1, Places
<1>5. mode' \in {"skip", "comment"} /\ Reports
  BY <1>1, <1>3, Places DEF Reports
<1>6. Located'
  BY <1>3 DEF Located
<1> QED BY <1>1, <1>3, <1>4, <1>5, <1>6, SkipPreserves

LEMMA CommentDonePreserves == LexerInv /\ CommentDone => LexerInv'
<1> SUFFICES ASSUME LexerInv, CommentDone PROVE LexerInv'
  OBVIOUS
<1>1. /\ UNCHANGED <<source, pos, line, column, depth, errors, tokens, start, base>>
      /\ mode = "comment" /\ mode' = "skip"
  BY DEF CommentDone, token
<1>2. Located'
  <2>1. line = 1 + Cardinality(Newlines(pos)) /\ ColumnFits(pos, column)
    BY <1>1, Places DEF Located
  <2> QED BY <1>1, <2>1, SameText DEF Located
<1> QED BY <1>1, <1>2, Places, SkipPreserves DEF Reports

LEMMA EndOfSourcePreserves == LexerInv /\ EndOfSource => LexerInv'
<1> SUFFICES ASSUME LexerInv, EndOfSource PROVE LexerInv'
  OBVIOUS
<1>1. /\ UNCHANGED <<source, pos, line, column, depth, errors, tokens, start, base>>
      /\ mode = "skip" /\ mode' = "done" /\ pos >= source_len
  BY DEF EndOfSource, AtToken, token
<1>2. Located'
  <2>1. line = 1 + Cardinality(Newlines(pos)) /\ pos = source_len
    BY <1>1, Places DEF Located
  <2> QED BY <1>1, <2>1, SameText DEF Located
<1> QED BY <1>1, <1>2, Places, SkipPreserves DEF Reports

\* A character of one of the classes is in the text.
LEMMA ClassesInText ==
  ASSUME NEW c, is_ident_char(c) \/ is_ident_start(c) \/ is_digit(c) \/ is_hex_digit(c)
  PROVE  c # "nul"
<1>1. "nul" \notin Digits
  BY DEF Digits
<1>2. "nul" \notin Letters \cup {"_"}
  BY DEF Letters
<1> QED BY <1>1, <1>2 DEF is_ident_char, is_ident_start, is_digit, is_hex_digit

LEMMA BeginIdentPreserves == LexerInv /\ BeginIdent => LexerInv'
<1> SUFFICES ASSUME LexerInv, BeginIdent PROVE LexerInv'
  OBVIOUS
<1>1. /\ source' = source /\ tokens' = tokens /\ depth' = depth /\ errors' = errors
      /\ base' = base /\ mode' = "ident" /\ Begin(1) /\ pos < source_len
  BY DEF BeginIdent, Begin
<1>2. InBase' /\ base' \in {2, 8, 10, 16} /\ pos + 1 <= source_len
  BY <1>1, Places DEF InBase, Typed, TypeOK
<1> QED BY <1>1, <1>2, BeginPreserves DEF Reports

LEMMA IdentCharPreserves == LexerInv /\ IdentChar => LexerInv'
<1> SUFFICES ASSUME LexerInv, IdentChar PROVE LexerInv'
  OBVIOUS
<1>1. /\ source' = source /\ tokens' = tokens /\ start' = start /\ depth' = depth
      /\ errors' = errors /\ base' = base /\ mode = "ident" /\ mode' = "ident" /\ Advance(1)
      /\ is_ident_char(Char(pos))
  BY DEF IdentChar, token
<1>2. pos + 1 <= source_len
  BY <1>1, ClassesInText, InText, Places
<1>3. Reading /\ Reading' /\ InString'
  BY <1>1 DEF Reading, InString
<1> QED BY <1>1, <1>2, <1>3, ReadPreserves DEF Reports

LEMMA EndIdentPreserves == LexerInv /\ EndIdent => LexerInv'
<1> SUFFICES ASSUME LexerInv, EndIdent PROVE LexerInv'
  OBVIOUS
<1> DEFINE kind == lookup_keyword(Text(start.pos, pos - start.pos))
<1>1. /\ UNCHANGED <<source, pos, line, column, start, depth, base, errors>>
      /\ mode = "ident" /\ ~is_ident_char(Char(pos)) /\ Return(kind, 0)
  BY DEF EndIdent
<1>2. kind \in {"keyword", "identifier"}
  BY DEF lookup_keyword
<1> HIDE DEF kind
<1>3. Reading /\ 0 \in IntValues
  BY <1>1 DEF Reading, IntValues
<1> QED BY <1>1, <1>2, <1>3, ReturnPreserves

LEMMA BeginNumberPreserves == LexerInv /\ BeginNumber => LexerInv'
<1> SUFFICES ASSUME LexerInv, BeginNumber PROVE LexerInv'
  OBVIOUS
<1> DEFINE n == IF Prefixed(pos) THEN 2 ELSE 1
<1>1. /\ source' = source /\ tokens' = tokens /\ depth' = depth /\ errors' = errors
      /\ base' = IF Prefixed(pos) THEN PrefixBase[Char(pos + 1)] ELSE 10
      /\ mode' = "number" /\ Begin(n)
  BY DEF BeginNumber, Prefixed
<1>2. n \in Nat \ {0} /\ pos + n <= source_len /\ base' \in {2, 8, 10, 16}
  <2>1. CASE Prefixed(pos)
    <3>1. Char(pos + 1) \in {"x", "X", "o", "O", "b", "B"}
      BY <2>1 DEF Prefixed, PrefixBase
    <3>2. PrefixBase[Char(pos + 1)] \in {2, 8, 16}
      BY <3>1 DEF PrefixBase
    <3>3. pos + 1 \in Nat /\ Char(pos + 1) # "nul"
      BY <3>1, Places
    <3>4. pos + 1 < source_len
      BY <3>3, InText
    <3> QED BY <1>1, <2>1, <3>2, <3>4, Places
  <2>2. CASE ~Prefixed(pos)
    <3>1. pos < source_len
      BY <1>1 DEF Begin
    <3> QED BY <1>1, <2>2, <3>1, Places
  <2> QED BY <2>1, <2>2
<1>3. InBase'
  <2>1. start'.pos = pos /\ pos' = pos + n
    BY <1>1 DEF Begin, Advance
  <2>2. /\ Prefixed(start.pos)' <=> Prefixed(pos)
        /\ Char(start.pos + 1)' = Char(pos + 1)
    BY <1>1, <2>1, SameText
  <2>3. Prefixed(pos) => start'.pos + 2 <= pos'
    BY <2>1, Places
  <2> QED BY <1>1, <2>2, <2>3 DEF InBase
<1> HIDE DEF n
<1> QED BY <1>1, <1>2, <1>3, BeginPreserves DEF Reports

LEMMA NumberStepPreserves == LexerInv /\ NumberStep => LexerInv'
<1> SUFFICES ASSUME LexerInv, NumberStep PROVE LexerInv'
  OBVIOUS
<1> DEFINE n == IF NumberPart = "exponent" /\ Char(pos + 1) \in {"+", "-"} THEN 2 ELSE 1
<1>1. /\ source' = source /\ tokens' = tokens /\ start' = start /\ depth' = depth
      /\ errors' = errors /\ base' = base /\ mode = "number" /\ mode' = "number" /\ Advance(n)
      /\ NumberPart # "end"
  BY DEF NumberStep
<1>2. pos + n <= source_len
  <2>1. is_hex_digit(Char(pos)) \/ is_digit(Char(pos)) \/ Char(pos) \in {".", "e", "E"}
    BY <1>1 DEF NumberPart
  <2>2. Char(pos) # "nul"
    BY <2>1, ClassesInText
  <2>3. pos < source_len
    BY <2>2, InText, Places
  <2>4. n = 2 => Char(pos + 1) # "nul"
    OBVIOUS
  <2>5. pos + 1 \in Nat /\ (n = 2 => pos + 1 < source_len)
    BY <2>4, InText, Places
  <2> QED BY <2>3, <2>5, Places
<1>3. Reading /\ Reading' /\ InString' /\ n \in Nat
  BY <1>1 DEF Reading, InString
<1> HIDE DEF n
<1> QED BY <1>1, <1>2, <1>3, ReadPreserves DEF Reports

LEMMA BeginStringPreserves == LexerInv /\ BeginString => LexerInv'
<1> SUFFICES ASSUME LexerInv, BeginString PROVE LexerInv'
  OBVIOUS
<1>1. /\ source' = source /\ tokens' = tokens /\ depth' = depth /\ errors' = errors
      /\ base' = base /\ mode' = "string" /\ Begin(1) /\ pos < source_len
  BY DEF BeginString, Begin
<1>2. InBase' /\ base' \in {2, 8, 10, 16} /\ pos + 1 <= source_len
  BY <1>1, Places DEF InBase, Typed, TypeOK
<1> QED BY <1>1, <1>2, BeginPreserves DEF Reports

LEMMA StringCharPreserves == LexerInv /\ StringChar => LexerInv'
<1> SUFFICES ASSUME LexerInv, StringChar PROVE LexerInv'
  OBVIOUS
<1> DEFINE n == IF Char(pos) = "bs" /\ pos + 1 < source_len THEN 2 ELSE 1
<1>1. /\ source' = source /\ tokens' = tokens /\ start' = start /\ depth' = depth
      /\ errors' = errors /\ base' = base /\ mode = "string" /\ mode' = "string" /\ Advance(n)
      /\ pos < source_len
  BY DEF StringChar, token
<1>2. pos + n <= source_len /\ n \in Nat
  BY <1>1, Places
<1>3. Reading /\ Reading' /\ InString'
  BY <1>1 DEF Reading, InString
<1> HIDE DEF n
<1> QED BY <1>1, <1>2, <1>3, ReadPreserves DEF Reports

LEMMA EndStringPreserves == LexerInv /\ EndString => LexerInv'
<1> SUFFICES ASSUME LexerInv, EndString PROVE LexerInv'
  OBVIOUS
<1> DEFINE n == IF Char(pos) = "dq" THEN 1 ELSE 0
<1>1. /\ source' = source /\ tokens' = tokens /\ start' = start /\ depth' = depth
      /\ errors' = (IF Char(pos) = "nl" THEN Append(errors, pos) ELSE errors)
      /\ base' = base /\ mode = "string" /\ mode' = "string_read" /\ Advance(n)
      /\ pos >= source_len \/ Char(pos) \in {"dq", "nl"}
  BY DEF EndString, token
<1>2. Reading /\ Reading' /\ Reports
  BY <1>1, Places DEF Reading, Reports
<1>3. pos' = pos + n /\ n \in Nat
  BY <1>1 DEF Advance
<1>4. start.pos \in Nat /\ start.pos < pos /\ errors \in Seq(Nat)
  BY <1>2, Places DEF Typed, TypeOK
<1>5. /\ source_len' = source_len
      /\ \A p : Char(p)' = Char(p)
  BY <1>1, SameText
<1>6. pos + n <= source_len /\ InString'
  <2>1. CASE Char(pos) = "dq"
    <3>1. pos < source_len
      BY <2>1, InText, Places
    <3>2. n = 1 /\ pos' - 1 = pos /\ pos' - start.pos > 1
      BY <1>3, <1>4, <2>1, Places
    <3> QED BY <1>1, <1>5, <2>1, <3>1, <3>2, Places DEF InString, StringEnds
  <2>2. CASE Char(pos) = "nl"
    <3>1. n = 0 /\ pos' = pos
      BY <1>3, <2>2, Places
    <3>2. errors' = Append(errors, pos)
      BY <1>1, <2>2
    <3>3. \E k \in 1 .. Len(errors') : errors'[k] = pos
      <4>1. Len(errors') = Len(errors) + 1 /\ errors'[Len(errors) + 1] = pos /\ Len(errors) \in Nat
        BY <1>4, <3>2, Places
      <4> QED BY <4>1
    <3> QED BY <1>1, <1>5, <2>2, <3>1, <3>3, Places DEF InString, StringEnds
  <2>3. CASE Char(pos) \notin {"dq", "nl"}
    <3>1. n = 0 /\ pos' = pos /\ pos = source_len
      BY <1>1, <1>3, <2>3, Places
    <3> QED BY <1>1, <1>5, <3>1, Places DEF InString, StringEnds
  <2> QED BY <2>1, <2>2, <2>3
<1> HIDE DEF n
<1> QED BY <1>1, <1>2, <1>3, <1>6, ReadPreserves

LEMMA BeginCharPreserves == LexerInv /\ BeginChar => LexerInv'
<1> SUFFICES ASSUME LexerInv, BeginChar PROVE LexerInv'
  OBVIOUS
<1> DEFINE c == Char(pos + 1)
           rest == source_len - pos - 1
           body == IF c = "bs" THEN IF rest > 1 THEN 2 ELSE 1
                   ELSE IF rest > 0 /\ c # "sq" THEN 1 ELSE 0
           closed == Char(pos + 1 + body) = "sq"
           n == 1 + body + (IF closed THEN 1 ELSE 0)
<1>1. /\ source' = source /\ tokens' = tokens /\ depth' = depth
      /\ errors' = (IF closed THEN errors ELSE Append(errors, pos + 1 + body))
      /\ base' = base /\ mode' = "char_read" /\ Begin(n)
  BY DEF BeginChar
<1>2. pos < source_len
  BY <1>1 DEF Begin
<1>3. body \in {0, 1, 2} /\ pos + 1 + body <= source_len
  <2>1. c = "bs" => pos + 1 < source_len
    <3>1. pos + 1 \in Nat
      BY Places
    <3> QED BY <3>1, InText
  <2> HIDE DEF c
  <2> QED BY <1>2, <2>1, Places
<1> HIDE DEF body
<1>4. closed => pos + 1 + body < source_len
  <2>1. pos + 1 + body \in Nat
    BY <1>3, Places
  <2> QED BY <2>1, InText
<1>5. n \in Nat \ {0} /\ pos + n <= source_len
  <2> HIDE DEF closed
  <2> QED BY <1>3, <1>4, Places
<1>6. Reports
  <2>1. pos + 1 + body \in Nat
    BY <1>3, Places
  <2> HIDE DEF closed
  <2> QED BY <1>1, <2>1 DEF Reports
<1>7. InBase' /\ base' \in {2, 8, 10, 16}
  BY <1>1, Places DEF InBase, Typed, TypeOK
<1> HIDE DEF n
<1> QED BY <1>1, <1>5, <1>6, <1>7, BeginPreserves

LEMMA EndQuotedPreserves == LexerInv /\ EndQuoted => LexerInv'
<1> SUFFICES ASSUME LexerInv, EndQuoted PROVE LexerInv'
  OBVIOUS
<1> DEFINE kind == IF mode = "string_read" THEN "string" ELSE "char"
<1>1. /\ UNCHANGED <<source, pos, line, column, start, depth, base, errors>>
      /\ mode \in {"string_read", "char_read"} /\ Return(kind, 0)
  BY DEF EndQuoted
<1>2. kind \in {"string", "char"} /\ (kind = "string" => mode = "string_read")
  OBVIOUS
<1> HIDE DEF kind
<1>3. Reading /\ 0 \in IntValues
  BY <1>1 DEF Reading, IntValues
<1> QED BY <1>1, <1>2, <1>3, ReturnPreserves

\* The characters of a piece of the text.
LEMMA TextIs ==
  ASSUME source \in Seq(Chars), NEW p \in Nat, NEW n \in Nat, p + n <= source_len
  PROVE  /\ Text(p, n) \in Seq(Chars) /\ Len(Text(p, n)) = n
         /\ \A i \in 1 .. n : Text(p, n)[i] = Char(p + i - 1)
<1>1. Len(source) \in Nat /\ source_len = Len(source)
  BY DEF source_len
<1>2. Text(p, n) = [i \in 1 .. n |-> source[p + i]]
  <2>1. \A i \in 1 .. n : p + i \in 1 .. Len(source)
    BY <1>1
  <2> QED BY <1>1, <2>1 DEF Text
<1>3. Text(p, n) \in [1 .. n -> Chars]
  BY <1>1, <1>2
<1>4. Text(p, n) \in Seq(Chars) /\ Len(Text(p, n)) = n
  BY <1>3
<1>5. ASSUME NEW i \in 1 .. n
      PROVE  Text(p, n)[i] = Char(p + i - 1)
  <2>1. p + i - 1 < source_len /\ (p + i - 1) + 1 = p + i
    BY <1>1
  <2> QED BY <1>2, <2>1 DEF Char
<1> QED BY <1>4, <1>5

\* A piece of a piece.
LEMMA TextOfText ==
  ASSUME source \in Seq(Chars), NEW p \in Nat, NEW n \in Nat, p + n <= source_len,
         NEW s \in Nat, NEW m \in Nat, s + m <= n
  PROVE  SubSeq(Text(p, n), s + 1, s + m) = Text(p + s, m)
<1> DEFINE whole == Text(p, n)
           piece == Text(p + s, m)
           part == SubSeq(whole, s + 1, s + m)
<1>1. source_len \in Nat
  BY DEF source_len
<1>2. whole \in Seq(Chars) /\ Len(whole) = n /\ \A i \in 1 .. n : whole[i] = Char(p + i - 1)
  BY TextIs
<1>3. /\ piece \in Seq(Chars) /\ Len(piece) = m
      /\ \A i \in 1 .. m : piece[i] = Char((p + s) + i - 1)
  <2>1. p + s \in Nat /\ (p + s) + m <= source_len
    BY <1>1
  <2> QED BY <2>1, TextIs
<1> HIDE DEF whole, piece
<1>4. part = [i \in 1 .. m |-> whole[s + i]]
  BY <1>2
<1>5. \A i \in 1 .. m : whole[s + i] = piece[i]
  <2> TAKE i \in 1 .. m
  <2>1. s + i \in 1 .. n /\ p + (s + i) - 1 = (p + s) + i - 1
    OBVIOUS
  <2> QED BY <1>2, <1>3, <2>1
<1>6. piece = [i \in 1 .. m |-> piece[i]]
  <2>1. piece \in Seq(Chars) /\ Len(piece) = m
    BY <1>3
  <2> QED BY <2>1
<1> HIDE DEF part
<1>7. part = piece
  BY <1>4, <1>5, <1>6
<1> QED BY <1>7 DEF whole, piece, part

\* strtoll of a literal that is written in digits of its base.
LEMMA WrittenValue ==
  ASSUME source \in Seq(Chars), NEW t \in Token, t.pos + t.len <= source_len,
         WrittenBase(t) \in {10, 16}, WellWritten(t),
         t.int_value = strtoll(Text(t.pos, t.len), WrittenBase(t))
  PROVE  t.int_value = LiteralValue(t)
<1> DEFINE text == Text(t.pos, t.len)
           b == WrittenBase(t)
           skip == IF b = 16 THEN 2 ELSE 0
           m == t.len - skip
           run == {k \in 0 .. Len(text) - skip : \A i \in 1 .. k : text[skip + i] \in DigitsOf(b)}
<1>1. t.pos \in Nat /\ t.len \in Nat /\ source_len \in Nat
  BY DEF Token, source_len
<1>2. skip = WrittenFrom(t) /\ skip \in {0, 2} /\ t.len > skip
  BY DEF WrittenFrom, WellWritten
<1>3. \A k \in skip .. t.len - 1 : Char(t.pos + k) \in DigitsOf(b)
  BY <1>2 DEF WellWritten
<1>4. Len(text) = t.len /\ \A i \in 1 .. t.len : text[i] = Char(t.pos + i - 1)
  BY <1>1, TextIs
<1> HIDE DEF text, b, skip
<1>5. m \in Nat /\ skip + m = t.len
  BY <1>1, <1>2
<1>6. m \in run
  <2>1. ASSUME NEW i \in 1 .. m PROVE text[skip + i] \in DigitsOf(b)
    <3>1. /\ skip + i \in 1 .. t.len /\ skip + i - 1 \in skip .. t.len - 1
          /\ t.pos + (skip + i) - 1 = t.pos + (skip + i - 1)
      BY <1>1, <1>2
    <3> QED BY <1>3, <1>4, <3>1
  <2>2. m \in 0 .. Len(text) - skip
    BY <1>4, <1>5
  <2> QED BY <2>1, <2>2
<1>7. run \in SUBSET (0 .. m) /\ m \in Nat
  BY <1>4, <1>5
<1>8. Max(run) = m
  <2> HIDE DEF run, m
  <2>1. Max(run) \in run /\ \A x \in run : x <= Max(run)
    BY <1>6, <1>7, GreatestNatural
  <2>2. Max(run) \in 0 .. m
    BY <1>7, <2>1
  <2>3. m <= Max(run)
    BY <1>6, <2>1
  <2> QED BY <1>7, <2>2, <2>3
<1>9. strtoll(text, b) = Saturated(Value(SubSeq(text, skip + 1, skip + Max(run)), b))
  BY DEF strtoll, skip
<1>10. SubSeq(text, skip + 1, skip + m) = Text(t.pos + skip, m)
  <2> HIDE DEF m
  <2>1. skip \in Nat /\ skip + m <= t.len
    BY <1>1, <1>2, <1>5
  <2> QED BY <1>1, <1>5, <2>1, TextOfText DEF text
<1>11. LiteralValue(t) = Saturated(Value(Text(t.pos + skip, m), b))
  BY <1>2 DEF LiteralValue, b
<1>12. t.int_value = strtoll(text, b)
  BY DEF text, b
<1> HIDE DEF m, run
<1> QED BY <1>8, <1>9, <1>10, <1>11, <1>12

LEMMA EndNumberPreserves == LexerInv /\ EndNumber => LexerInv'
<1> SUFFICES ASSUME LexerInv, EndNumber PROVE LexerInv'
  OBVIOUS
<1> DEFINE text == Text(start.pos, pos - start.pos)
           kind == IF is_float THEN "float" ELSE "int"
           v == IF is_float THEN 0 ELSE strtoll(text, base)
<1>1. /\ UNCHANGED <<source, pos, line, column, start, depth, base, errors>>
      /\ mode = "number" /\ Return(kind, v)
  BY DEF EndNumber
<1>2. Reading
  BY <1>1 DEF Reading
<1>3. /\ source \in Seq(Chars) /\ base \in {2, 8, 10, 16} /\ start.pos \in Nat
      /\ pos \in Nat /\ start.pos < pos /\ pos <= source_len
  BY <1>2, Places DEF Typed, TypeOK
<1>4. v \in IntValues
  <2>1. text \in Seq(Chars)
    <3>1. pos - start.pos \in Nat /\ start.pos + (pos - start.pos) <= source_len
      BY <1>3, Places
    <3> QED BY <1>3, <3>1, TextIs
  <2> HIDE DEF text
  <2> QED BY <1>3, <2>1 DEF IntValues
<1>5. ASSUME NEW t \in Token, t.kind = "int", kind = "int", t.pos = start.pos,
             t.len = pos - start.pos, t.int_value = v, WrittenBase(t) \in {10, 16}
      PROVE  ValueRight(t)
  <2>1. WrittenBase(t) = base
    <3>1. Prefixed(start.pos) => t.len > 1 /\ base = PrefixBase[Char(start.pos + 1)]
      BY <1>1, <1>3, <1>5 DEF LexerInv, InBase
    <3>2. ~Prefixed(start.pos) => base = 10
      BY <1>1 DEF LexerInv, InBase
    <3> QED BY <1>5, <3>1, <3>2 DEF WrittenBase, Prefixed
  <2>2. t.int_value = strtoll(Text(t.pos, t.len), WrittenBase(t))
    BY <1>5, <2>1
  <2>3. t.pos + t.len <= source_len
    BY <1>3, <1>5, Places
  <2>4. WellWritten(t) => t.int_value = LiteralValue(t)
    BY <1>3, <1>5, <2>2, <2>3, WrittenValue
  <2> QED BY <2>4 DEF ValueRight
<1>6. kind \in {"int", "float"}
  OBVIOUS
<1> HIDE DEF kind, v
<1> QED BY <1>1, <1>2, <1>4, <1>5, <1>6, ReturnPreserves

\* The operator the code takes at a place is one of the known ones, and none that
\* is longer stands there.
LEMMA OperatorMunched ==
  ASSUME source \in Seq(Chars), NEW p \in Nat, p < source_len
  PROVE  /\ OperatorLen(p) \in {1, 2, 3} /\ p + OperatorLen(p) <= source_len
         /\ \A o \in LongOperators :
              (\A k \in 1 .. Len(o) : Char(p + k - 1) = o[k]) => Len(o) <= OperatorLen(p)
         /\ OperatorLen(p) > 1 => Text(p, OperatorLen(p)) \in LongOperators
<1> DEFINE n == OperatorLen(p)
           firsts == {"=", "!", "<", ">", "&", "|", "+", "-", "*", "/", "%", "^", ".", ":"}
<1>1. n \in {1, 2, 3}
  BY DEF OperatorLen
<1>2. DOMAIN Followers = firsts
  BY DEF Followers
<1>3. \A c \in firsts :
        Followers[c] = CASE c \in {"=", "-"} -> {"=", ">"}
                         [] c \in {"<", ">", "&", "|"} -> {"=", c}
                         [] c \in {".", ":"} -> {c}
                         [] OTHER -> {"="}
  BY DEF Followers
<1>4. n > 1 => Char(p) \in firsts /\ Char(p + 1) \in Followers[Char(p)]
  BY <1>2 DEF OperatorLen
<1>5. n = 3 => Char(p) \in {"<", ">"} /\ Char(p + 1) = Char(p) /\ Char(p + 2) = "="
  BY DEF OperatorLen
<1>6. n > 1 => Char(p + 1) \in {"=", ">", "<", "&", "|", ".", ":"}
  BY <1>3, <1>4
<1>7. p + n <= source_len
  <2>1. source_len \in Nat /\ p + 1 \in Nat /\ p + 2 \in Nat
    BY DEF source_len
  <2>2. n > 1 => p + 1 < source_len
    <3>1. n > 1 => Char(p + 1) # "nul"
      BY <1>6
    <3> QED BY <2>1, <3>1, InText
  <2>3. n = 3 => p + 2 < source_len
    <3>1. n = 3 => Char(p + 2) # "nul"
      BY <1>5
    <3> QED BY <2>1, <3>1, InText
  <2> QED BY <1>1, <2>1, <2>2, <2>3
<1>8. ASSUME NEW o \in LongOperators, \A k \in 1 .. Len(o) : Char(p + k - 1) = o[k]
      PROVE  Len(o) <= n
  <2>1. Len(o) \in {2, 3} /\ o[2] \in Followers[o[1]] /\ o[1] \in firsts
    BY <1>3 DEF LongOperators
  <2>2. Len(o) = 3 => o[1] \in {"<", ">"} /\ o[2] = o[1] /\ o[3] = "="
    <3>1. Len(o) = 2 \/ o = <<"<", "<", "=">> \/ o = <<">", ">", "=">>
      BY DEF LongOperators
    <3> QED BY <3>1
  <2>3. Char(p) = o[1] /\ Char(p + 1) = o[2]
    <3>1. 1 \in 1 .. Len(o) /\ 2 \in 1 .. Len(o) /\ p + 1 - 1 = p /\ p + 2 - 1 = p + 1
      BY <2>1
    <3> QED BY <1>8, <3>1
  <2>4. Len(o) = 3 => Char(p + 2) = o[3]
    <3>1. Len(o) = 3 => 3 \in 1 .. Len(o) /\ p + 3 - 1 = p + 2
      OBVIOUS
    <3> QED BY <1>8, <3>1
  <2>5. n > 1
    BY <1>2, <2>1, <2>3 DEF OperatorLen
  <2>6. Len(o) = 3 => n = 3
    BY <1>2, <2>1, <2>2, <2>3, <2>4 DEF OperatorLen
  <2> DEFINE m == Len(o)
  <2>7. m \in {2, 3} /\ (m = 3 => n = 3)
    BY <2>1, <2>6
  <2> HIDE DEF m, n
  <2>8. m <= n
    BY <1>1, <2>5, <2>7
  <2> QED BY <2>8 DEF m
<1>9. ASSUME n > 1
      PROVE  Text(p, n) \in LongOperators
  <2>1. /\ Text(p, n) \in Seq(Chars) /\ Len(Text(p, n)) = n
        /\ \A i \in 1 .. n : Text(p, n)[i] = Char(p + i - 1)
    <3>1. n \in Nat
      BY <1>1
    <3> HIDE DEF n
    <3> QED BY <1>7, <3>1, TextIs
  <2>2. Text(p, n)[1] = Char(p) /\ Text(p, n)[2] = Char(p + 1)
    <3>1. 1 \in 1 .. n /\ 2 \in 1 .. n /\ p + 1 - 1 = p /\ p + 2 - 1 = p + 1
      BY <1>1, <1>9
    <3> QED BY <2>1, <3>1
  <2>3. CASE n = 2
    <3>1. Text(p, n) = <<Char(p), Char(p + 1)>>
      BY <2>1, <2>2, <2>3
    <3>2. <<Char(p), Char(p + 1)>> \in LongOperators
      BY <1>3, <1>4, <1>9 DEF LongOperators
    <3> QED BY <3>1, <3>2
  <2>4. CASE n = 3
    <3>1. Text(p, n)[3] = Char(p + 2)
      <4>1. 3 \in 1 .. n /\ p + 3 - 1 = p + 2
        BY <2>4
      <4> QED BY <2>1, <4>1
    <3>2. Text(p, n) = <<Char(p), Char(p + 1), Char(p + 2)>>
      BY <2>1, <2>2, <2>4, <3>1
    <3> QED BY <1>5, <2>4, <3>2 DEF LongOperators
  <2> QED BY <1>1, <1>9, <2>3, <2>4
<1> QED BY <1>1, <1>7, <1>8, <1>9

LEMMA OperatorOrErrorPreserves == LexerInv /\ OperatorOrError => LexerInv'
<1> SUFFICES ASSUME LexerInv, OperatorOrError PROVE LexerInv'
  OBVIOUS
<1> DEFINE known == Char(pos) \in DOMAIN Followers \cup Punctuation
           kind == IF known THEN "op" ELSE "error"
           n == OperatorLen(pos)
           t == [kind |-> kind, pos |-> pos, len |-> n,
                 line |-> line, column |-> column, int_value |-> 0]
<1>1. /\ UNCHANGED <<source, mode, depth, base>>
      /\ tokens' = Append(tokens, t)
      /\ errors' = (IF known THEN errors ELSE Append(errors, pos))
      /\ Begin(n)
  BY DEF OperatorOrError
<1>2. /\ mode = "skip" /\ start' = [pos |-> pos, line |-> line, column |-> column]
      /\ Advance(n) /\ pos < source_len /\ Char(pos) \notin Whitespace
  BY <1>1 DEF Begin, AtToken
<1>3. /\ n \in {1, 2, 3} /\ pos + n <= source_len
      /\ \A o \in LongOperators :
           (\A k \in 1 .. Len(o) : Char(pos + k - 1) = o[k]) => Len(o) <= n
      /\ n > 1 => Text(pos, n) \in LongOperators
  <2>1. source \in Seq(Chars)
    BY Places DEF Typed
  <2> QED BY <1>2, <2>1, Places, OperatorMunched
<1> HIDE DEF n
<1>4. line = 1 + Cardinality(Newlines(pos)) /\ ColumnFits(pos, column)
  <2>1. Char(pos) # "nl"
    BY <1>2 DEF Whitespace
  <2>2. pos # source_len
    BY <1>2, Places
  <2> QED BY <2>1, <2>2, Places DEF Located
<1>5. /\ pos' = pos + n /\ pos' \in 0 .. source_len'
      /\ line' \in Nat \ {0} /\ column' \in Nat \ {0}
      /\ line' = 1 + Cardinality(Newlines(pos))'
      /\ ColumnFits(pos, column)'
  BY <1>1, <1>2, <1>3, <1>4, Places, Advanced
<1>6. kind \in {"op", "error"}
  OBVIOUS
<1>7. Reports /\ ~Reading /\ ~Reading' /\ source' = source
  BY <1>1, <1>2, Places DEF Reports, Reading
<1> HIDE DEF kind, known
<1>8. /\ t.kind = kind /\ t.pos = pos /\ t.len = n
      /\ t.line = line /\ t.column = column
  OBVIOUS
<1>9. t \in Token /\ t.len > 0
  <2>1. 0 \in IntValues
    BY DEF IntValues
  <2> QED BY <1>3, <1>6, <2>1, Places DEF Token
<1> HIDE DEF t
<1>10. TokenRight(t)
  <2>1. LineRight(t) /\ ColumnFits(t.pos, t.column)
    BY <1>4, <1>8 DEF LineRight
  <2>2. Munched(t)
    BY <1>3, <1>6, <1>8 DEF Munched
  <2>3. t.kind # "string" /\ ValueRight(t)
    BY <1>6, <1>8 DEF ValueRight
  <2> QED BY <2>1, <2>2, <2>3 DEF TokenRight
<1>11. tokens' \in Seq(Token) /\ Ordered' /\ TokensRight'
  BY <1>1, <1>5, <1>7, <1>8, <1>9, <1>10, TokenAdded
<1>12. Typed'
  <2>1. errors' \in Seq(Nat)
    BY <1>7, Places, StringsStayEnded
  <2>2. start' \in [pos : Nat, line : Nat, column : Nat] /\ start'.pos \in 0 .. pos'
    BY <1>2, <1>3, <1>5, Places
  <2> QED BY <1>1, <1>2, <1>5, <1>7, <1>11, <2>1, <2>2, Places DEF Typed, TypeOK
<1>13. Located'
  BY <1>5 DEF Located
<1>14. StartLocated' /\ InString' /\ InBase'
  BY <1>1, <1>2, <1>7 DEF StartLocated, InString, InBase
<1> QED BY <1>11, <1>12, <1>13, <1>14 DEF LexerInv

LEMMA StepPreserves == LexerInv /\ [Next]_vars => LexerInv'
<1> SUFFICES ASSUME LexerInv, [Next]_vars PROVE LexerInv'
  OBVIOUS
<1>1. CASE UNCHANGED vars
  <2>1. UNCHANGED <<source, pos, line, column, mode, start, depth, base, tokens, errors>>
    BY <1>1 DEF vars
  <2>2. Typed' /\ Ordered'
    BY <2>1 DEF LexerInv, Typed, TypeOK, Ordered, Reading, source_len
  <2>3. Located' /\ StartLocated'
    BY <2>1, SameText DEF LexerInv, Located, StartLocated, Reading
  <2>4. TokensRight'
    BY <2>1, TokenStaysRight DEF LexerInv, TokensRight, Reports
  <2>5. InString'
    BY <2>1, StringsStayEnded DEF LexerInv, InString, Reports
  <2>6. InBase'
    BY <2>1, SameText DEF LexerInv, InBase
  <2> QED BY <2>2, <2>3, <2>4, <2>5, <2>6 DEF LexerInv
<1>2. CASE Next
  BY <1>2, SkipSpacePreserves, SkipLineCommentPreserves, OpenCommentPreserves,
     CommentStepPreserves, CommentDonePreserves, EndOfSourcePreserves, BeginIdentPreserves,
     IdentCharPreserves, EndIdentPreserves, BeginNumberPreserves, NumberStepPreserves,
     EndNumberPreserves, BeginStringPreserves, StringCharPreserves, EndStringPreserves,
     BeginCharPreserves, EndQuotedPreserves, OperatorOrErrorPreserves DEF Next
<1> QED BY <1>1, <1>2

LEMMA LexerInvariant == Spec => []LexerInv
BY InitEstablishes, StepPreserves, PTL DEF Spec

-----------------------------------------------------------------------------
(* What the code promises *)

\* The start of a line is where the definition with Max puts it.
LEMMA LineStartIs ==
  ASSUME NEW p \in Nat
  PROVE  LineStart(p) \in 0 .. p /\ StartsLine(LineStart(p), p)
<1> DEFINE firsts == {0} \cup {q + 1 : q \in Newlines(p)}
           first == Max(firsts)
<1>1. firsts \in SUBSET (0 .. p) /\ 0 \in firsts
  BY DEF Newlines
<1>2. first \in firsts /\ \A x \in firsts : x <= first
  <2> HIDE DEF firsts
  <2> QED BY <1>1, GreatestNatural
<1>3. first = LineStart(p)
  BY DEF LineStart
<1> HIDE DEF first
<1>4. first \in 0 .. p
  BY <1>1, <1>2
<1>5. first = 0 \/ Char(first - 1) = "nl"
  BY <1>2 DEF Newlines
<1>6. ASSUME NEW q \in first .. p - 1, Char(q) = "nl" PROVE FALSE
  <2>1. q + 1 \in firsts
    BY <1>4, <1>6 DEF Newlines
  <2>2. q + 1 <= first
    BY <1>2, <2>1
  <2> QED BY <1>4, <2>2
<1> QED BY <1>3, <1>4, <1>5, <1>6 DEF StartsLine

LEMMA InvariantImplies ==
  ASSUME LexerInv
  PROVE  /\ TypeOK /\ TokensInOrder
         /\ LinesRight /\ ColumnsRight
         /\ MaximalMunch /\ StringsEnd /\ DecimalAndHexValues
<1>1. TypeOK
  BY DEF LexerInv, Typed
<1>2. tokens \in Seq(Token) /\ \A i \in 1 .. Len(tokens) : tokens[i] \in Token
  BY DEF LexerInv, Typed
<1>3. TokensInOrder
  <2> SUFFICES ASSUME NEW i \in 1 .. Len(tokens)
               PROVE  /\ tokens[i].len > 0
                      /\ tokens[i].pos + tokens[i].len <=
                           IF i < Len(tokens) THEN tokens[i + 1].pos ELSE pos
    BY DEF TokensInOrder
  <2>1. tokens[i].pos + tokens[i].len \in Nat
    BY <1>2 DEF Token
  <2>2. start.pos \in Nat /\ pos \in Nat /\ start.pos <= pos
    BY <1>1 DEF TypeOK
  <2>3. /\ tokens[i].len > 0
        /\ tokens[i].pos + tokens[i].len <=
             IF i < Len(tokens) THEN tokens[i + 1].pos ELSE IF Reading THEN start.pos ELSE pos
    BY DEF LexerInv, Ordered
  <2> QED BY <2>1, <2>2, <2>3
<1>4. LinesRight /\ MaximalMunch /\ StringsEnd /\ DecimalAndHexValues
  BY DEF LexerInv, TokensRight, TokenRight, LinesRight, MaximalMunch, StringsEnd,
         DecimalAndHexValues
<1>5. ColumnsRight
  <2> SUFFICES ASSUME NEW i \in 1 .. Len(tokens) PROVE ColumnRight(tokens[i])
    BY DEF ColumnsRight
  <2> DEFINE p == tokens[i].pos
  <2>1. ColumnFits(p, tokens[i].column) /\ p \in Nat
    BY <1>2 DEF LexerInv, TokensRight, TokenRight, Token
  <2>2. LineStart(p) \in 0 .. p /\ StartsLine(LineStart(p), p)
    BY <2>1, LineStartIs
  <2> QED BY <2>1, <2>2 DEF ColumnRight, ColumnFits
<1> QED BY <1>1, <1>3, <1>4, <1>5

\* The lexer never reads behind the source, and no comment is nested deeper than
\* one level past the limit, where it is reported (lexer_peek_char,
\* lexer_skip_whitespace).
THEOREM LexerTypeCorrect == Spec => []TypeOK
BY LexerInvariant, InvariantImplies, PTL

\* The tokens of any text lie in it in order, apart and not empty (make_token's
\* start and length).
THEOREM LexerOrdered == Spec => []TokensInOrder
BY LexerInvariant, InvariantImplies, PTL

\* Every token of any text carries the line it starts on (lexer_advance_char, and the
\* loops of lexer_skip_whitespace that move the position by hand).
THEOREM LexerLines == Spec => []LinesRight
BY LexerInvariant, InvariantImplies, PTL

\* Every token of any text carries its column unless a block comment stands in front
\* of it on its line (the loops of lexer_skip_whitespace that leave the column alone).
THEOREM LexerColumns == Spec => []ColumnsRight
BY LexerInvariant, InvariantImplies, PTL

\* Operators and identifiers are as long as they can be in any text (the chain of
\* match_char in lexer_next).
THEOREM LexerMunches == Spec => []MaximalMunch
BY LexerInvariant, InvariantImplies, PTL

\* A string token of any text ends in its quote, at a line feed that was reported or
\* at the end of the source (the string loop of lexer_next).
THEOREM LexerEndsStrings == Spec => []StringsEnd
BY LexerInvariant, InvariantImplies, PTL

\* Decimal and hexadecimal literals of any text and any length have the value of
\* their digits or the largest value (the call of strtoll in lexer_next).
THEOREM LexerValues == Spec => []DecimalAndHexValues
BY LexerInvariant, InvariantImplies, PTL
=============================================================================
