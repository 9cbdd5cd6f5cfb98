---------------------------- MODULE Parser_proofs ----------------------------
(***************************************************************************)
(* Proofs about the parser, for every sequence of tokens: it never takes   *)
(* a token that is not there, a function that returns NULL has reported    *)
(* an error, every turn of a loop takes a token or leaves the loop, except *)
(* for the arms of a match, and an accepted program has its brackets in    *)
(* order.                                                                  *)
(*                                                                         *)
(* The first two rest on ParserInv (what is to be done is made of          *)
(* well-formed things), the third on Moving as well (in front of every     *)
(* loop that started its turn at this token stands something that takes    *)
(* the token or leaves the loop), the fourth on ParserInv and Bracketed    *)
(* (what is to be done closes the brackets that are open).                 *)
(***************************************************************************)
EXTENDS Parser, Extrema_proofs, SequenceTheorems, TLAPS

-----------------------------------------------------------------------------
(* Well-formed things *)

Functions ==
  {"expr_bp", "prefix", "primary", "block", "stmt", "pattern", "type", "param",
   "top_level_decl"}

\* s is made of things of S. It may start by taking a token where one is known to
\* be there, and by returning NULL where an error is known to have been reported;
\* further on NULL is returned behind an error only.
FitsAt(s, i, there, failed) ==
  /\ s[i] = Take => i = 1 /\ there
  /\ s[i] = Return("null") => \/ i = 1 /\ failed
                              \/ i > 1 /\ s[i - 1] = Error
Fits(s, S, there, failed) ==
  /\ s \in Seq(S \cup {Take})
  /\ \A i \in 1 .. Len(s) : FitsAt(s, i, there, failed)

Simple(x) ==
  \/ \E K : x = Expect(K) /\ "eof" \notin K
  \/ x \in {Break, Error, End, parse_generic_params}
  \/ \E f \in Functions : \E bp : x = Call(f, bp)
  \/ \E what \in {"node", "null", "same"} : x = Return(what)
  \/ \E bp : x = Infix(bp)

\* x is a thing whose parts are made of things of S. Who matches a token does not
\* match the end of the file, and who checks for one knows whether one is there.
Shape(x, S) ==
  \/ Simple(x)
  \/ \E K, a, b : /\ x = Match(K, a, b)
                  /\ "eof" \notin K
                  /\ Fits(a, S, FALSE, FALSE) /\ Fits(b, S, FALSE, FALSE)
  \/ \E K, a, b : /\ x = Check(K, a, b)
                  /\ "eof" \notin K
                  /\ Fits(a, S, TRUE, FALSE) /\ Fits(b, S, FALSE, FALSE)
  \/ \E K, a, b : /\ x = Check(K, a, b)
                  /\ "eof" \in K
                  /\ Fits(a, S, FALSE, FALSE) /\ Fits(b, S, TRUE, FALSE)
  \/ \E name, K, a, from : /\ x = [Loop(name, K, a) EXCEPT !.from = from]
                           /\ Fits(a, S, FALSE, FALSE)
  \/ \E K, a : x = Again(K, a) /\ "eof" \notin K /\ Fits(a, S, FALSE, FALSE)
  \/ \E a : x = IfNull(a) /\ Fits(a, S, FALSE, TRUE)
  \/ \E a : x = [op |-> "unsafe fn", then |-> a] /\ Fits(a, S, FALSE, FALSE)

\* A set of things closed under taking parts, and the members of such sets.
Closed(S) == \A x \in S : Shape(x, S)
Thing(x) == \E S : x \in S /\ Closed(S)

LEMMA FitsMore ==
  ASSUME NEW s, NEW S, NEW R, S \subseteq R, NEW there, NEW failed, Fits(s, S, there, failed)
  PROVE  Fits(s, R, there, failed)
<1>1. S \cup {Take} \subseteq R \cup {Take}
  OBVIOUS
<1>2. s \in Seq(R \cup {Take})
  BY <1>1 DEF Fits
<1> QED BY <1>2 DEF Fits

LEMMA ShapeMore ==
  ASSUME NEW x, NEW S, NEW R, S \subseteq R, Shape(x, S)
  PROVE  Shape(x, R)
<1>1. \A a, there, failed : Fits(a, S, there, failed) => Fits(a, R, there, failed)
  BY FitsMore
<1> QED BY <1>1, Zenon DEF Shape

\* Things are what things are made of.
LEMMA ThingParts ==
  ASSUME NEW x, Thing(x)
  PROVE  \E S : (\A y \in S : Thing(y)) /\ Shape(x, S)
<1>1. PICK S : x \in S /\ Closed(S)
  BY DEF Thing
<1>2. \A y \in S : Thing(y)
  BY <1>1 DEF Thing
<1> QED BY <1>1, <1>2 DEF Closed

LEMMA ThingMade ==
  ASSUME NEW x, NEW S, \A y \in S : Thing(y), Shape(x, S)
  PROVE  Thing(x)
<1> DEFINE Around(y) == CHOOSE R : y \in R /\ Closed(R)
           All == {x} \cup UNION {Around(y) : y \in S}
<1>1. \A y \in S : y \in Around(y) /\ Closed(Around(y))
  BY DEF Thing
<1> HIDE DEF Around
<1>2. S \subseteq All
  BY <1>1
<1>3. ASSUME NEW z \in All PROVE Shape(z, All)
  <2>1. CASE z = x
    <3> HIDE DEF All
    <3> QED BY <1>2, <2>1, ShapeMore
  <2>2. CASE z # x
    <3>1. PICK y \in S : z \in Around(y)
      BY <2>2
    <3>2. Around(y) \subseteq All
      OBVIOUS
    <3>3. Shape(z, Around(y))
      BY <1>1, <3>1 DEF Closed
    <3> HIDE DEF All
    <3> QED BY <3>2, <3>3, ShapeMore
  <2> QED BY <2>1, <2>2
<1>4. x \in All
  OBVIOUS
<1> QED BY <1>3, <1>4, Zenon DEF Closed, Thing

-----------------------------------------------------------------------------
(* How sequences of things are put together *)

Fitting(s, there, failed) ==
  \E S : (\A y \in S : Thing(y)) /\ Fits(s, S, there, failed)
Plain(s) == Fitting(s, FALSE, FALSE)
\* A thing that may stand anywhere.
Free(x) == Thing(x) /\ x # Return("null")

LEMMA TakeIsNone == \A x : Thing(x) => x # Take
<1> SUFFICES ASSUME Thing(Take) PROVE FALSE
  OBVIOUS
<1>1. PICK S : Shape(Take, S)
  BY ThingParts
<1> QED BY <1>1 DEF Shape, Simple, Take, Expect, Break, Error, End, parse_generic_params,
                    Call, Return, Infix, Match, Check, Loop, Again, IfNull

LEMMA FitsPointwise ==
  ASSUME NEW T, NEW s \in Seq(T), NEW there, NEW failed,
         \A i \in 1 .. Len(s) :
           (Thing(s[i]) \/ s[i] = Take) /\ FitsAt(s, i, there, failed)
  PROVE  Fitting(s, there, failed)
<1> DEFINE S == {s[i] : i \in 1 .. Len(s)} \ {Take}
<1>1. \A y \in S : Thing(y)
  OBVIOUS
<1>2. s \in Seq(S \cup {Take})
  OBVIOUS
<1>3. Fits(s, S, there, failed)
  <2> HIDE DEF S
  <2> QED BY <1>2 DEF Fits
<1> HIDE DEF S
<1> QED BY <1>1, <1>3, Zenon DEF Fitting

LEMMA PointwiseFits ==
  ASSUME NEW s, NEW there, NEW failed, Fitting(s, there, failed)
  PROVE  /\ \E T : s \in Seq(T)
         /\ \A i \in 1 .. Len(s) :
              (Thing(s[i]) \/ s[i] = Take) /\ FitsAt(s, i, there, failed)
<1>1. PICK S : (\A y \in S : Thing(y)) /\ Fits(s, S, there, failed)
  BY DEF Fitting
<1>2. s \in Seq(S \cup {Take})
  BY <1>1 DEF Fits
<1>3. \A i \in 1 .. Len(s) : s[i] \in S \cup {Take}
  BY <1>2
<1> QED BY <1>1, <1>2, <1>3 DEF Fits

LEMMA FreeFits ==
  ASSUME NEW T, NEW s \in Seq(T), \A i \in 1 .. Len(s) : Free(s[i]), NEW there, NEW failed
  PROVE  Fitting(s, there, failed)
<1>1. \A i \in 1 .. Len(s) : Thing(s[i]) /\ s[i] # Take /\ s[i] # Return("null")
  BY TakeIsNone DEF Free
<1>2. \A i \in 1 .. Len(s) : FitsAt(s, i, there, failed)
  BY <1>1 DEF FitsAt
<1> QED BY <1>1, <1>2, FitsPointwise

LEMMA PlainFits ==
  ASSUME NEW s, Plain(s), NEW there, NEW failed
  PROVE  Fitting(s, there, failed)
<1>1. /\ \E T : s \in Seq(T)
      /\ \A i \in 1 .. Len(s) : (Thing(s[i]) \/ s[i] = Take) /\ FitsAt(s, i, FALSE, FALSE)
  BY PointwiseFits DEF Plain
<1>2. PICK T : s \in Seq(T)
  BY <1>1
<1>3. \A i \in 1 .. Len(s) : FitsAt(s, i, there, failed)
  BY <1>1 DEF FitsAt
<1> QED BY <1>1, <1>2, <1>3, FitsPointwise

LEMMA FitsThen ==
  ASSUME NEW a, NEW b, NEW there, NEW failed, Fitting(a, there, failed), Plain(b)
  PROVE  Fitting(a \o b, there, failed)
<1> DEFINE At(s, i, yes, bad) == (Thing(s[i]) \/ s[i] = Take) /\ FitsAt(s, i, yes, bad)
           c == a \o b
<1>1. (\E T : a \in Seq(T)) /\ \A i \in 1 .. Len(a) : At(a, i, there, failed)
  BY PointwiseFits
<1>2. (\E T : b \in Seq(T)) /\ \A i \in 1 .. Len(b) : At(b, i, FALSE, FALSE)
  BY PointwiseFits DEF Plain
<1>3. PICK S, T : a \in Seq(S) /\ b \in Seq(T)
  BY <1>1, <1>2
<1>4. a \in Seq(S \cup T) /\ b \in Seq(S \cup T)
  BY <1>3
<1>5. /\ c \in Seq(S \cup T) /\ Len(a) \in Nat /\ Len(b) \in Nat /\ Len(c) = Len(a) + Len(b)
      /\ \A i \in 1 .. Len(a) : c[i] = a[i]
      /\ \A i \in 1 .. Len(b) : c[Len(a) + i] = b[i]
  BY <1>4
<1> HIDE DEF c
<1>6. ASSUME NEW i \in 1 .. Len(c) PROVE At(c, i, there, failed)
  <2>1. CASE i \in 1 .. Len(a)
    <3>1. c[i] = a[i] /\ (i > 1 => c[i - 1] = a[i - 1])
      BY <1>5, <2>1
    <3> QED BY <1>1, <2>1, <3>1 DEF FitsAt
  <2>2. CASE i \notin 1 .. Len(a)
    <3> DEFINE j == i - Len(a)
    <3>1. j \in 1 .. Len(b) /\ i = Len(a) + j
      BY <1>5, <2>2
    <3>2. c[i] = b[j] /\ (j > 1 => i > 1 /\ c[i - 1] = b[j - 1])
      <4>1. j > 1 => j - 1 \in 1 .. Len(b) /\ i - 1 = Len(a) + (j - 1) /\ i > 1
        BY <1>5, <3>1
      <4> HIDE DEF j
      <4> QED BY <1>5, <3>1, <4>1
    <3> HIDE DEF j
    <3>3. At(b, j, FALSE, FALSE)
      BY <1>2, <3>1
    <3> QED BY <3>1, <3>2, <3>3 DEF FitsAt
  <2> QED BY <2>1, <2>2
<1>7. Fitting(c, there, failed)
  BY <1>5, <1>6, FitsPointwise
<1> QED BY <1>7 DEF c

LEMMA FitsAppend ==
  ASSUME NEW a, NEW x, NEW there, NEW failed, Fitting(a, there, failed), Free(x)
  PROVE  Fitting(Append(a, x), there, failed)
<1>1. <<x>> \in Seq({x}) /\ \A i \in 1 .. Len(<<x>>) : Free(<<x>>[i])
  OBVIOUS
<1>2. Plain(<<x>>)
  BY <1>1, FreeFits DEF Plain
<1>3. PICK T : a \in Seq(T)
  BY PointwiseFits
<1>4. Append(a, x) = a \o <<x>>
  BY <1>3
<1> QED BY <1>2, <1>4, FitsThen

\* What is left when the first thing is done.
LEMMA FitsTail ==
  ASSUME NEW s, NEW there, NEW failed, Fitting(s, there, failed), s # << >>
  PROVE  /\ Head(s) = s[1] /\ (Thing(Head(s)) \/ (Head(s) = Take /\ there))
         /\ Head(s) = Return("null") => failed
         /\ Head(s) = Error => Fitting(Tail(s), FALSE, TRUE)
         /\ Head(s) # Error => Plain(Tail(s))
<1> DEFINE At(i) == (Thing(s[i]) \/ s[i] = Take) /\ FitsAt(s, i, there, failed)
           t == Tail(s)
<1>1. (\E T : s \in Seq(T)) /\ \A i \in 1 .. Len(s) : At(i)
  BY PointwiseFits
<1>2. PICK T : s \in Seq(T)
  BY <1>1
<1>3. /\ t \in Seq(T) /\ Len(t) \in Nat /\ Len(s) = Len(t) + 1 /\ Head(s) = s[1]
      /\ \A i \in 1 .. Len(t) : t[i] = s[i + 1]
  BY <1>2
<1> HIDE DEF t
<1>4. /\ Thing(s[1]) \/ (s[1] = Take /\ there)
      /\ s[1] = Return("null") => failed
  <2>1. At(1)
    BY <1>1, <1>3
  <2> QED BY <2>1 DEF FitsAt
<1>5. \A i \in 1 .. Len(t) : /\ Thing(t[i]) /\ t[i] # Take
                             /\ t[i] = Return("null") => s[i] = Error
                             /\ i > 1 => t[i - 1] = s[i]
  <2> TAKE i \in 1 .. Len(t)
  <2>1. At(i + 1) /\ t[i] = s[i + 1] /\ i + 1 > 1 /\ (i + 1) - 1 = i /\ i + 1 # 1
    BY <1>1, <1>3
  <2>2. i > 1 => i - 1 \in 1 .. Len(t) /\ (i - 1) + 1 = i
    BY <1>3
  <2> QED BY <1>3, <2>1, <2>2 DEF FitsAt
<1>6. ASSUME s[1] = Error PROVE Fitting(t, FALSE, TRUE)
  <2>1. \A i \in 1 .. Len(t) : FitsAt(t, i, FALSE, TRUE)
    BY <1>5, <1>6 DEF FitsAt
  <2> QED BY <1>3, <1>5, <2>1, FitsPointwise
<1>7. ASSUME s[1] # Error PROVE Fitting(t, FALSE, FALSE)
  <2>1. \A i \in 1 .. Len(t) : FitsAt(t, i, FALSE, FALSE)
    BY <1>5, <1>7 DEF FitsAt
  <2> QED BY <1>3, <1>5, <2>1, FitsPointwise
<1> QED BY <1>3, <1>4, <1>6, <1>7 DEF t, Plain

-----------------------------------------------------------------------------
(* How the parse functions are put together *)

LEMMA SimpleThings == \A x : Simple(x) => Thing(x)
<1> SUFFICES ASSUME NEW x, Simple(x) PROVE Thing(x)
  OBVIOUS
<1>1. Shape(x, {}) /\ \A y \in {} : Thing(y)
  BY Zenon DEF Shape
<1> QED BY <1>1, ThingMade

LEMMA FreeSimple ==
  /\ \A K : "eof" \notin K => Free(Expect(K))
  /\ Free(Break) /\ Free(Error) /\ Free(End) /\ Free(parse_generic_params)
  /\ \A f \in Functions : \A bp : Free(Call(f, bp))
  /\ Free(Return("node")) /\ Free(Return("same"))
  /\ \A bp : Free(Infix(bp))
BY SimpleThings DEF Simple, Free, Expect, Break, Error, End, parse_generic_params, Call,
                    Return, Infix

\* Two sequences over one set of things.
LEMMA FitTogether ==
  ASSUME NEW a, NEW b, NEW there, NEW failed, NEW there2, NEW failed2,
         Fitting(a, there, failed), Fitting(b, there2, failed2)
  PROVE  \E S : /\ \A y \in S : Thing(y)
               /\ Fits(a, S, there, failed) /\ Fits(b, S, there2, failed2)
<1>1. PICK R : (\A y \in R : Thing(y)) /\ Fits(a, R, there, failed)
  BY DEF Fitting
<1>2. PICK T : (\A y \in T : Thing(y)) /\ Fits(b, T, there2, failed2)
  BY DEF Fitting
<1> DEFINE S == R \cup T
<1>3. R \subseteq S /\ T \subseteq S /\ \A y \in S : Thing(y)
  BY <1>1, <1>2
<1> HIDE DEF S
<1>4. Fits(a, S, there, failed) /\ Fits(b, S, there2, failed2)
  BY <1>1, <1>2, <1>3, FitsMore
<1> QED BY <1>3, <1>4

LEMMA FreeMatch ==
  ASSUME NEW K, "eof" \notin K, NEW a, NEW b, Plain(a), Plain(b)
  PROVE  Free(Match(K, a, b))
<1>1. PICK S : /\ \A y \in S : Thing(y)
               /\ Fits(a, S, FALSE, FALSE) /\ Fits(b, S, FALSE, FALSE)
  BY FitTogether DEF Plain
<1>2. Shape(Match(K, a, b), S)
  BY <1>1, Zenon DEF Shape
<1>3. Thing(Match(K, a, b))
  BY <1>1, <1>2, ThingMade
<1>4. Match(K, a, b) # Return("null")
  BY DEF Match, Return
<1> QED BY <1>3, <1>4 DEF Free

LEMMA FreeCheck ==
  ASSUME NEW K, NEW a, NEW b
  PROVE  /\ "eof" \notin K /\ Fitting(a, TRUE, FALSE) /\ Plain(b) => Free(Check(K, a, b))
         /\ "eof" \in K /\ Plain(a) /\ Fitting(b, TRUE, FALSE) => Free(Check(K, a, b))
<1> DEFINE x == Check(K, a, b)
<1>1. ASSUME "eof" \notin K, Fitting(a, TRUE, FALSE), Plain(b) PROVE Thing(x)
  <2>1. PICK S : /\ \A y \in S : Thing(y)
                 /\ Fits(a, S, TRUE, FALSE) /\ Fits(b, S, FALSE, FALSE)
    BY <1>1, FitTogether DEF Plain
  <2>2. Shape(x, S)
    BY <1>1, <2>1, Zenon DEF Shape
  <2> HIDE DEF x
  <2> QED BY <2>1, <2>2, ThingMade
<1>2. ASSUME "eof" \in K, Plain(a), Fitting(b, TRUE, FALSE) PROVE Thing(x)
  <2>1. PICK S : /\ \A y \in S : Thing(y)
                 /\ Fits(a, S, FALSE, FALSE) /\ Fits(b, S, TRUE, FALSE)
    BY <1>2, FitTogether DEF Plain
  <2>2. Shape(x, S)
    BY <1>2, <2>1, Zenon DEF Shape
  <2> HIDE DEF x
  <2> QED BY <2>1, <2>2, ThingMade
<1>3. x # Return("null")
  BY DEF Check, Return
<1> QED BY <1>1, <1>2, <1>3 DEF Free

LEMMA FreeLoop ==
  ASSUME NEW name, NEW K, NEW a, NEW from, Plain(a)
  PROVE  Free([Loop(name, K, a) EXCEPT !.from = from])
<1> DEFINE x == [Loop(name, K, a) EXCEPT !.from = from]
<1>1. PICK S : (\A y \in S : Thing(y)) /\ Fits(a, S, FALSE, FALSE)
  BY DEF Plain, Fitting
<1>2. x # Return("null")
  BY DEF Loop, Return
<1>3. Shape(x, S)
  BY <1>1, Zenon DEF Shape
<1> HIDE DEF x
<1>4. Thing(x)
  BY <1>1, <1>3, ThingMade
<1>5. Free(x)
  BY <1>2, <1>4 DEF Free
<1> QED BY <1>5 DEF x

LEMMA FreeFirstLoop ==
  ASSUME NEW name, NEW K, NEW a, Plain(a)
  PROVE  Free(Loop(name, K, a))
<1>1. Loop(name, K, a) = [Loop(name, K, a) EXCEPT !.from = -1]
  BY DEF Loop
<1>2. Free([Loop(name, K, a) EXCEPT !.from = -1])
  BY FreeLoop
<1> QED BY <1>1, <1>2, Zenon

LEMMA FreeAgain ==
  ASSUME NEW K, "eof" \notin K, NEW a, Plain(a)
  PROVE  Free(Again(K, a))
<1>1. PICK S : (\A y \in S : Thing(y)) /\ Fits(a, S, FALSE, FALSE)
  BY DEF Plain, Fitting
<1>2. Shape(Again(K, a), S)
  BY <1>1, Zenon DEF Shape
<1>3. Thing(Again(K, a))
  BY <1>1, <1>2, ThingMade
<1>4. Again(K, a) # Return("null")
  BY DEF Again, Return
<1> QED BY <1>3, <1>4 DEF Free

LEMMA FreeIfNull ==
  ASSUME NEW a, Fitting(a, FALSE, TRUE)
  PROVE  Free(IfNull(a))
<1>1. PICK S : (\A y \in S : Thing(y)) /\ Fits(a, S, FALSE, TRUE)
  BY DEF Fitting
<1>2. Shape(IfNull(a), S)
  BY <1>1, Zenon DEF Shape
<1>3. Thing(IfNull(a))
  BY <1>1, <1>2, ThingMade
<1>4. IfNull(a) # Return("null")
  BY DEF IfNull, Return
<1> QED BY <1>3, <1>4 DEF Free

LEMMA FreeUnsafeFn ==
  ASSUME NEW a, Plain(a)
  PROVE  Free([op |-> "unsafe fn", then |-> a])
<1> DEFINE x == [op |-> "unsafe fn", then |-> a]
<1>1. PICK S : (\A y \in S : Thing(y)) /\ Fits(a, S, FALSE, FALSE)
  BY DEF Plain, Fitting
<1>2. Shape(x, S)
  BY <1>1, Zenon DEF Shape
<1>3. x # Return("null")
  BY DEF Return
<1> HIDE DEF x
<1>4. Thing(x)
  BY <1>1, <1>2, ThingMade
<1>5. Free(x)
  BY <1>3, <1>4 DEF Free
<1> QED BY <1>5 DEF x

\* Short sequences of things that may stand anywhere.
LEMMA PlainTuples ==
  /\ Plain(<< >>)
  /\ \A a : Free(a) => Plain(<<a>>)
  /\ \A a, b : Free(a) /\ Free(b) => Plain(<<a, b>>)
  /\ \A a, b, c : Free(a) /\ Free(b) /\ Free(c) => Plain(<<a, b, c>>)
  /\ \A a, b, c, d : Free(a) /\ Free(b) /\ Free(c) /\ Free(d) => Plain(<<a, b, c, d>>)
  /\ \A a, b, c, d, e : Free(a) /\ Free(b) /\ Free(c) /\ Free(d) /\ Free(e)
       => Plain(<<a, b, c, d, e>>)
  /\ \A a, b, c, d, e, f : Free(a) /\ Free(b) /\ Free(c) /\ Free(d) /\ Free(e) /\ Free(f)
       => Plain(<<a, b, c, d, e, f>>)
  /\ \A a, b, c, d, e, f, g : 
       Free(a) /\ Free(b) /\ Free(c) /\ Free(d) /\ Free(e) /\ Free(f) /\ Free(g)
       => Plain(<<a, b, c, d, e, f, g>>)
<1>1. Plain(<< >>)
  <2>1. << >> \in Seq({}) /\ \A i \in 1 .. Len(<< >>) : Free(<< >>[i])
    OBVIOUS
  <2> QED BY <2>1, FreeFits DEF Plain
<1>2. ASSUME NEW a, Free(a)
      PROVE  Plain(<<a>>)
  <2>1. <<a>> \in Seq({a}) /\ \A i \in 1 .. 1 : Free(<<a>>[i])
    BY <1>2
  <2> QED BY <2>1, FreeFits DEF Plain
<1>3. ASSUME NEW a, NEW b, Free(a), Free(b)
      PROVE  Plain(<<a, b>>)
  <2>1. <<a, b>> \in Seq({a, b}) /\ \A i \in 1 .. 2 : Free(<<a, b>>[i])
    BY <1>3
  <2> QED BY <2>1, FreeFits DEF Plain
<1>4. ASSUME NEW a, NEW b, NEW c, Free(a), Free(b), Free(c)
      PROVE  Plain(<<a, b, c>>)
  <2>1. <<a, b, c>> \in Seq({a, b, c}) /\ \A i \in 1 .. 3 : Free(<<a, b, c>>[i])
    BY <1>4
  <2> QED BY <2>1, FreeFits DEF Plain
<1>5. ASSUME NEW a, NEW b, NEW c, NEW d, Free(a), Free(b), Free(c), Free(d)
      PROVE  Plain(<<a, b, c, d>>)
  <2>1. <<a, b, c, d>> \in Seq({a, b, c, d}) /\ \A i \in 1 .. 4 : Free(<<a, b, c, d>>[i])
    BY <1>5
  <2> QED BY <2>1, FreeFits DEF Plain
<1>6. ASSUME NEW a, NEW b, NEW c, NEW d, NEW e, Free(a), Free(b), Free(c), Free(d), Free(e)
      PROVE  Plain(<<a, b, c, d, e>>)
  <2>1. <<a, b, c, d, e>> \in Seq({a, b, c, d, e}) /\ \A i \in 1 .. 5 : Free(<<a, b, c, d, e>>[i])
    BY <1>6
  <2> QED BY <2>1, FreeFits DEF Plain
<1>7. ASSUME NEW a, NEW b, NEW c, NEW d, NEW e, NEW f,
             Free(a), Free(b), Free(c), Free(d), Free(e), Free(f)
      PROVE  Plain(<<a, b, c, d, e, f>>)
  <2>1. /\ <<a, b, c, d, e, f>> \in Seq({a, b, c, d, e, f})
        /\ \A i \in 1 .. 6 : Free(<<a, b, c, d, e, f>>[i])
    BY <1>7
  <2> QED BY <2>1, FreeFits DEF Plain
<1>8. ASSUME NEW a, NEW b, NEW c, NEW d, NEW e, NEW f, NEW g,
             Free(a), Free(b), Free(c), Free(d), Free(e), Free(f), Free(g)
      PROVE  Plain(<<a, b, c, d, e, f, g>>)
  <2>1. /\ <<a, b, c, d, e, f, g>> \in Seq({a, b, c, d, e, f, g})
        /\ \A i \in 1 .. 7 : Free(<<a, b, c, d, e, f, g>>[i])
    BY <1>8
  <2> QED BY <2>1, FreeFits DEF Plain
<1> QED BY <1>1, <1>2, <1>3, <1>4, <1>5, <1>6, <1>7, <1>8

\* The ways the parse functions put things together.
LEMMA Building ==
  /\ \A K, a, b : "eof" \notin K /\ Plain(a) /\ Plain(b) => Free(Match(K, a, b))
  /\ \A K, a : "eof" \notin K /\ Plain(a) => Free(Opt(K, a))
  /\ \A K : "eof" \notin K => Free(BreakUnless(K))
  /\ \A K, a, b : Plain(a) /\ Plain(b) => Free(Check(K, a, b))
  /\ \A K, a : Plain(a) => Free(When(K, a))
  /\ \A name, K, a : Plain(a) => Free(Loop(name, K, a))
  /\ \A a : Plain(a) => Free(IfNull(a))
  /\ \A a : Plain(a) => Plain(CommaList(a))
  /\ \A a, x : Plain(a) /\ Free(x) => Plain(Append(a, x))
  /\ \A a, b : Plain(a) /\ Plain(b) => Plain(a \o b)
<1>1. \A K, a, b : "eof" \notin K /\ Plain(a) /\ Plain(b) => Free(Match(K, a, b))
  BY FreeMatch
<1>2. \A K, a, b : Plain(a) /\ Plain(b) => Free(Check(K, a, b))
  BY FreeCheck, PlainFits
<1>3. \A a : Plain(a) => Free(IfNull(a))
  BY FreeIfNull, PlainFits
<1>4. \A a, x : Plain(a) /\ Free(x) => Plain(Append(a, x))
  BY FitsAppend DEF Plain
<1>5. \A a, b : Plain(a) /\ Plain(b) => Plain(a \o b)
  BY FitsThen DEF Plain
<1>6. \A K, a : "eof" \notin K /\ Plain(a) => Free(Opt(K, a))
  BY <1>1, PlainTuples DEF Opt
<1>7. \A K, a : Plain(a) => Free(When(K, a))
  BY <1>2, PlainTuples DEF When
<1>8. \A K : "eof" \notin K => Free(BreakUnless(K))
  BY <1>1, PlainTuples, FreeSimple DEF BreakUnless
<1>9. \A a : Plain(a) => Plain(CommaList(a))
  BY <1>4, FreeAgain DEF CommaList
<1> QED BY <1>1, <1>2, <1>3, <1>4, <1>5, <1>6, <1>7, <1>8, <1>9, FreeFirstLoop

LEMMA CallsFree == Free(parse_expr) /\ Free(parse_type) /\ Free(parse_block)
BY FreeSimple DEF parse_expr, parse_type, parse_block, Functions

LEMMA PlainFailure == Plain(<<Error, Return("null")>>)
<1> DEFINE s == <<Error, Return("null")>>
<1>1. Simple(Error) /\ Simple(Return("null"))
  BY DEF Simple
<1>2. Thing(Error) /\ Thing(Return("null"))
  BY <1>1, SimpleThings
<1>3. s \in Seq({Error, Return("null")}) /\ Len(s) = 2 /\ s[1] = Error /\ s[2] = Return("null")
  OBVIOUS
<1>4. Error # Take /\ Return("null") # Take /\ Error # Return("null")
  BY DEF Error, Take, Return
<1> HIDE DEF s
<1>5. \A i \in 1 .. Len(s) : (Thing(s[i]) \/ s[i] = Take) /\ FitsAt(s, i, FALSE, FALSE)
  BY <1>2, <1>3, <1>4 DEF FitsAt
<1>6. Plain(s)
  BY <1>3, <1>5, FitsPointwise DEF Plain
<1> QED BY <1>6 DEF s

LEMMA TypeFits == Plain(parser_parse_type)
BY FreeSimple, PlainTuples, Building, CallsFree, PlainFailure
   DEF parser_parse_type, Identifier

\* Where a token is known to be there, it may be taken.
LEMMA TakingFits ==
  /\ \A s : Plain(s) => Fitting(<<Take>> \o s, TRUE, FALSE)
  /\ Fitting(<<Take>>, TRUE, FALSE)
  /\ \A K, a : "eof" \notin K /\ Fitting(a, TRUE, FALSE) => Free(When(K, a))
  /\ Free(Check({"eof"}, << >>, <<Take>>))
<1> DEFINE s1 == <<Take>>
<1>1. s1 \in Seq({Take}) /\ Len(s1) = 1 /\ s1[1] = Take
  OBVIOUS
<1>2. Take # Return("null")
  BY DEF Take, Return
<1>3. \A i \in 1 .. Len(s1) : (Thing(s1[i]) \/ s1[i] = Take) /\ FitsAt(s1, i, TRUE, FALSE)
  BY <1>1, <1>2 DEF FitsAt
<1>4. Fitting(s1, TRUE, FALSE)
  BY <1>1, <1>3, FitsPointwise
<1>5. \A s : Plain(s) => Fitting(s1 \o s, TRUE, FALSE)
  BY <1>4, FitsThen
<1>6. ASSUME NEW K, NEW a, "eof" \notin K, Fitting(a, TRUE, FALSE)
      PROVE  Free(When(K, a))
  BY <1>6, PlainTuples, FreeCheck DEF When
<1>7. Free(Check({"eof"}, << >>, s1))
  <2>1. "eof" \in {"eof"}
    OBVIOUS
  <2> HIDE DEF s1
  <2> QED BY <1>4, <2>1, PlainTuples, FreeCheck
<1> QED BY <1>4, <1>5, <1>6, <1>7

LEMMA TakingTuples ==
  /\ \A a, b : Free(a) /\ Free(b)
       => Fitting(<<Take, a, b>>, TRUE, FALSE)
  /\ \A a, b, c, d : Free(a) /\ Free(b) /\ Free(c) /\ Free(d)
       => Fitting(<<Take, a, b, c, d>>, TRUE, FALSE)
  /\ \A a, b, c, d, e : Free(a) /\ Free(b) /\ Free(c) /\ Free(d) /\ Free(e)
       => Fitting(<<Take, a, b, c, d, e>>, TRUE, FALSE)
  /\ \A a, b, c, d, e, f : Free(a) /\ Free(b) /\ Free(c) /\ Free(d) /\ Free(e) /\ Free(f)
       => Fitting(<<Take, a, b, c, d, e, f>>, TRUE, FALSE)
<1>1. ASSUME NEW a, NEW b, Free(a), Free(b)
      PROVE  Fitting(<<Take, a, b>>, TRUE, FALSE)
  <2>1. <<Take, a, b>> = <<Take>> \o <<a, b>>
    OBVIOUS
  <2>2. Plain(<<a, b>>)
    BY <1>1, PlainTuples
  <2> QED BY <2>1, <2>2, TakingFits
<1>2. ASSUME NEW a, NEW b, NEW c, NEW d, Free(a), Free(b), Free(c), Free(d)
      PROVE  Fitting(<<Take, a, b, c, d>>, TRUE, FALSE)
  <2>1. <<Take, a, b, c, d>> = <<Take>> \o <<a, b, c, d>>
    OBVIOUS
  <2>2. Plain(<<a, b, c, d>>)
    BY <1>2, PlainTuples
  <2> QED BY <2>1, <2>2, TakingFits
<1>3. ASSUME NEW a, NEW b, NEW c, NEW d, NEW e, Free(a), Free(b), Free(c), Free(d), Free(e)
      PROVE  Fitting(<<Take, a, b, c, d, e>>, TRUE, FALSE)
  <2>1. <<Take, a, b, c, d, e>> = <<Take>> \o <<a, b, c, d, e>>
    OBVIOUS
  <2>2. Plain(<<a, b, c, d, e>>)
    BY <1>3, PlainTuples
  <2> QED BY <2>1, <2>2, TakingFits
<1>4. ASSUME NEW a, NEW b, NEW c, NEW d, NEW e, NEW f,
             Free(a), Free(b), Free(c), Free(d), Free(e), Free(f)
      PROVE  Fitting(<<Take, a, b, c, d, e, f>>, TRUE, FALSE)
  <2>1. <<Take, a, b, c, d, e, f>> = <<Take>> \o <<a, b, c, d, e, f>>
    OBVIOUS
  <2>2. Plain(<<a, b, c, d, e, f>>)
    BY <1>4, PlainTuples
  <2> QED BY <2>1, <2>2, TakingFits
<1> QED BY <1>1, <1>2, <1>3, <1>4

-----------------------------------------------------------------------------
(* The parse functions *)

LEMMA AttrsFit == Free(parse_attrs)
BY FreeSimple, PlainTuples, Building, CallsFree DEF parse_attrs, Identifier

LEMMA StructLiteralFits == Plain(parser_parse_struct_literal)
BY FreeSimple, PlainTuples, Building, CallsFree DEF parser_parse_struct_literal, Identifier

LEMMA ArrayLiteralFits == Plain(ArrayLiteral)
BY FreeSimple, PlainTuples, Building, CallsFree DEF ArrayLiteral

LEMMA PrimaryFits == Plain(parser_parse_primary)
BY FreeSimple, PlainTuples, Building, CallsFree, PlainFailure, StructLiteralFits, ArrayLiteralFits
   DEF parser_parse_primary

LEMMA PrefixFits == Plain(parser_parse_prefix)
BY FreeSimple, PlainTuples, Building, CallsFree DEF parser_parse_prefix, Functions, Identifier

LEMMA PostfixFits == Free(parser_parse_postfix)
BY FreeSimple, PlainTuples, Building, CallsFree DEF parser_parse_postfix, Arguments, Identifier

LEMMA BlockFits == Plain(parser_parse_block)
BY FreeSimple, PlainTuples, Building, CallsFree, PlainFailure
   DEF parser_parse_block, AssignmentOps, StatementStarts, Functions

LEMMA VarDeclFits == Plain(VarDecl)
BY FreeSimple, PlainTuples, Building, CallsFree DEF VarDecl, Identifier

LEMMA MatchArmsFit == Free(MatchArms)
BY FreeSimple, PlainTuples, Building, CallsFree DEF MatchArms, Functions

LEMMA PatternFits == Plain(parser_parse_pattern)
BY FreeSimple, PlainTuples, Building, CallsFree DEF parser_parse_pattern, Functions, Identifier

LEMMA ParamFits == Plain(parser_parse_param)
BY FreeSimple, PlainTuples, Building, CallsFree
   DEF parser_parse_param, DefaultValue, Identifier

LEMMA GenericParamsFit == Plain(GenericParams)
BY FreeSimple, PlainTuples, Building DEF GenericParams, Identifier

LEMMA SignatureFits == Plain(Signature)
BY FreeSimple, PlainTuples, Building, CallsFree DEF Signature, Functions

LEMMA FnFits == Plain(FnRest) /\ Plain(parser_parse_fn_decl)
<1>1. Plain(FnRest)
  BY FreeSimple, PlainTuples, Building, CallsFree, SignatureFits DEF FnRest, Identifier
<1> QED BY <1>1, FreeSimple, PlainTuples, Building DEF parser_parse_fn_decl

LEMMA ExprFits == \A min_bp : Plain(parser_parse_expr_bp(min_bp))
<1> DEFINE s == <<Return("null")>>
<1>1. s \in Seq({Return("null")}) /\ Len(s) = 1 /\ s[1] = Return("null")
  OBVIOUS
<1>2. Thing(Return("null")) /\ Return("null") # Take
  BY SimpleThings, TakeIsNone DEF Simple
<1> HIDE DEF s
<1>3. \A i \in 1 .. Len(s) : (Thing(s[i]) \/ s[i] = Take) /\ FitsAt(s, i, FALSE, TRUE)
  BY <1>1, <1>2 DEF FitsAt
<1>4. Fitting(s, FALSE, TRUE)
  BY <1>1, <1>3, FitsPointwise
<1>5. Free(IfNull(<<Return("null")>>))
  BY <1>4, FreeIfNull DEF s
<1> QED BY <1>5, FreeSimple, PlainTuples, Building, CallsFree, PostfixFits
        DEF parser_parse_expr_bp, Functions

LEMMA StmtFits == Plain(parser_parse_stmt)
<1> DEFINE VarPart == Opt({"const", "var"}, Append(VarDecl, Return("node")))
           ReturnPart ==
             Opt({"return"},
                 <<Match({";"}, << >>, <<parse_expr, Expect({";"})>>), Return("node")>>)
           IfPart ==
             Opt({"if"},
               <<parse_expr, parse_block,
                 Opt({"else"}, <<Check({"if"}, <<Call("stmt", 0)>>, <<parse_block>>)>>),
                 Return("node")>>)
           WhilePart == Opt({"while"}, <<parse_expr, parse_block, Return("node")>>)
           ForPart ==
             Opt({"for"},
               <<Expect(Identifier), Expect({":"}), parse_type, Expect({"in"}), parse_expr,
                 parse_block, Return("node")>>)
           JumpPart == Opt({"break", "continue"}, <<Expect({";"}), Return("node")>>)
           DeferPart == Opt({"defer"}, <<parse_expr, Expect({";"}), Return("node")>>)
           ErrPart == Opt({"errdefer"}, <<parse_block, Return("node")>>)
           MatchPart ==
             Opt({"match"},
               <<parse_expr, Expect({"{"}), MatchArms, Expect({"}"}), Return("node")>>)
<1>1. Free(VarPart) /\ Free(ReturnPart) /\ Free(IfPart) /\ Free(WhilePart)
  BY FreeSimple, PlainTuples, Building, CallsFree, VarDeclFits DEF Functions
<1>2. Free(ForPart) /\ Free(JumpPart) /\ Free(DeferPart)
  BY FreeSimple, PlainTuples, Building, CallsFree DEF Identifier
<1>3. Free(ErrPart) /\ Free(MatchPart)
  BY FreeSimple, PlainTuples, Building, CallsFree, MatchArmsFit
<1>4. parser_parse_stmt = <<VarPart, ReturnPart, IfPart, WhilePart, ForPart, JumpPart, DeferPart,
                            ErrPart, MatchPart, parse_block, Return("same")>>
  BY DEF parser_parse_stmt
<1> HIDE DEF VarPart, ReturnPart, IfPart, WhilePart, ForPart, JumpPart, DeferPart,
             ErrPart, MatchPart
<1>5. /\ Plain(<<VarPart, ReturnPart, IfPart, WhilePart, ForPart, JumpPart, DeferPart>>)
      /\ Plain(<<ErrPart, MatchPart, parse_block, Return("same")>>)
  BY <1>1, <1>2, <1>3, PlainTuples, CallsFree, FreeSimple
<1>6. parser_parse_stmt = <<VarPart, ReturnPart, IfPart, WhilePart, ForPart, JumpPart, DeferPart>>
                            \o <<ErrPart, MatchPart, parse_block, Return("same")>>
  BY <1>4
<1> QED BY <1>5, <1>6, Building

\* A declaration is entered at the keyword that it takes.
LEMMA DeclarationsFit ==
  /\ Fitting(parser_parse_struct_decl, TRUE, FALSE)
  /\ Fitting(parser_parse_enum_decl, TRUE, FALSE)
  /\ Fitting(parser_parse_traits_decl, TRUE, FALSE)
  /\ Fitting(parser_parse_extend_decl, TRUE, FALSE)
  /\ Fitting(parser_parse_type_alias, TRUE, FALSE)
  /\ Fitting(parser_parse_test_decl, TRUE, FALSE)
<1>1. \A rest : Plain(rest) => Free(FnOrSkip(rest))
  BY FreeSimple, PlainTuples, Building, TakingFits DEF FnOrSkip
<1>2. Fitting(parser_parse_struct_decl, TRUE, FALSE)
  BY FreeSimple, PlainTuples, TakingTuples, Building, CallsFree, AttrsFit
     DEF parser_parse_struct_decl, DefaultValue, Identifier
<1>3. Fitting(parser_parse_enum_decl, TRUE, FALSE)
  BY FreeSimple, PlainTuples, TakingTuples, Building, CallsFree
     DEF parser_parse_enum_decl, DefaultValue, Identifier
<1>4. Fitting(parser_parse_traits_decl, TRUE, FALSE)
  BY <1>1, FreeSimple, PlainTuples, TakingTuples, Building, SignatureFits
     DEF parser_parse_traits_decl, Identifier
<1>5. Fitting(parser_parse_extend_decl, TRUE, FALSE)
  BY <1>1, FreeSimple, PlainTuples, TakingTuples, Building, AttrsFit, FnFits
     DEF parser_parse_extend_decl, Identifier
<1>6. Fitting(parser_parse_type_alias, TRUE, FALSE) /\ Fitting(parser_parse_test_decl, TRUE, FALSE)
  BY FreeSimple, TakingTuples, CallsFree
     DEF parser_parse_type_alias, parser_parse_test_decl, Identifier
<1> QED BY <1>2, <1>3, <1>4, <1>5, <1>6

LEMMA TopLevelFits == Plain(parser_parse_top_level_decl)
<1> DEFINE Node(d) == Append(d, Return("node"))
           FnPart == When({"fn"}, Node(parser_parse_fn_decl))
           UnsafePart == [op |-> "unsafe fn", then |-> Node(parser_parse_fn_decl)]
           VarPart == Opt({"const", "var"}, Node(VarDecl))
           Part(K, d) == When(K, Node(d))
<1>1. \A K, d : "eof" \notin K /\ Fitting(d, TRUE, FALSE) 
               => Free(When(K, Append(d, Return("node"))))
  BY FreeSimple, FitsAppend, TakingFits
<1>2. Plain(Append(parser_parse_fn_decl, Return("node"))) /\ Plain(Append(VarDecl, Return("node")))
  BY FreeSimple, Building, FnFits, VarDeclFits
<1>3. Free(FnPart) /\ Free(UnsafePart) /\ Free(VarPart)
  BY <1>2, Building, FreeUnsafeFn
<1>4. /\ Free(Part({"struct", "union"}, parser_parse_struct_decl))
      /\ Free(Part({"enum"}, parser_parse_enum_decl))
      /\ Free(Part({"traits"}, parser_parse_traits_decl))
      /\ Free(Part({"extend"}, parser_parse_extend_decl))
      /\ Free(Part({"type"}, parser_parse_type_alias))
      /\ Free(Part({"test"}, parser_parse_test_decl))
  BY <1>1, DeclarationsFit
<1>5. Free(parse_attrs) /\ Free(Opt({"pub"}, << >>))
  BY AttrsFit, PlainTuples, Building
<1>6. parser_parse_top_level_decl =
        <<parse_attrs, Opt({"pub"}, << >>), UnsafePart, FnPart,
          Part({"struct", "union"}, parser_parse_struct_decl),
          Part({"enum"}, parser_parse_enum_decl),
          Part({"traits"}, parser_parse_traits_decl),
          Part({"extend"}, parser_parse_extend_decl),
          Part({"type"}, parser_parse_type_alias),
          Part({"test"}, parser_parse_test_decl), VarPart, Error, Return("null")>>
  BY DEF parser_parse_top_level_decl
<1> HIDE DEF FnPart, UnsafePart, VarPart, Part
<1>7. ASSUME NEW a, NEW b, NEW c, NEW d, NEW e, NEW f, NEW g, NEW h, NEW i, NEW j, NEW k,
             Free(a), Free(b), Free(c), Free(d), Free(e), Free(f), Free(g), Free(h), Free(i),
             Free(j), Free(k)
      PROVE  Plain(<<a, b, c, d, e, f, g, h, i, j, k, Error, Return("null")>>)
  <2>1. <<a, b, c, d, e, f, g, h, i, j, k, Error, Return("null")>> =
          <<a, b, c, d, e, f, g>> \o (<<h, i, j, k>> \o <<Error, Return("null")>>)
    OBVIOUS
  <2>2. Plain(<<a, b, c, d, e, f, g>>) /\ Plain(<<h, i, j, k>>)
    BY <1>7, PlainTuples
  <2>3. Plain(<<a, b, c, d, e, f, g>> \o (<<h, i, j, k>> \o <<Error, Return("null")>>))
    BY <2>2, PlainFailure, Building
  <2> QED BY <2>1, <2>3
<1> QED BY <1>3, <1>4, <1>5, <1>6, <1>7

LEMMA ModuleFits == Plain(parser_parse)
<1>1. Free(IfNull(<<Check({"eof"}, << >>, <<Take>>)>>))
  BY TakingFits, PlainTuples, Building
<1> QED BY <1>1, FreeSimple, PlainTuples, Building DEF parser_parse, Functions, Identifier

LEMMA BodiesFit == \A f \in Functions : \A bp : Plain(Body(f, bp))
BY ExprFits, PrefixFits, PrimaryFits, BlockFits, StmtFits, PatternFits, TypeFits, ParamFits,
   TopLevelFits
   DEF Body, Functions

-----------------------------------------------------------------------------
(* What is known about the thing that is done next *)

PartsOf(x) ==
  /\ x.op = "expect" => "eof" \notin x.of
  /\ x.op = "match" => "eof" \notin x.of /\ Plain(x.then) /\ Plain(x.else)
  /\ x.op = "check" => \/ "eof" \notin x.of /\ Fitting(x.then, TRUE, FALSE) /\ Plain(x.else)
                       \/ "eof" \in x.of /\ Plain(x.then) /\ Fitting(x.else, TRUE, FALSE)
  /\ x.op = "loop" => Plain(x.then) /\ \A from : Free([x EXCEPT !.from = from])
  /\ x.op = "again" => "eof" \notin x.of /\ Plain(x.then) /\ Free(x)
  /\ x.op = "call" => x.f \in Functions
  /\ x.op = "return" => /\ x.what \in {"node", "null", "same"}
                        /\ x.what = "null" => x = Return("null")
  /\ x.op = "ifnull" => Fitting(x.then, FALSE, TRUE)
  /\ x.op = "unsafe fn" => Plain(x.then)
  /\ x.op = "error" <=> x = Error
  /\ x.op # "take"

LEMMA PartsFit ==
  ASSUME NEW x, Thing(x)
  PROVE  PartsOf(x)
<1>1. PICK S : (\A y \in S : Thing(y)) /\ Shape(x, S)
  BY ThingParts
<1>2. \A a, there, failed : Fits(a, S, there, failed) => Fitting(a, there, failed)
  BY <1>1, Zenon DEF Fitting
<1>3. CASE Simple(x)
  <2>1. ASSUME NEW K, x = Expect(K), "eof" \notin K PROVE PartsOf(x)
    BY <2>1 DEF PartsOf, Expect, Error
  <2>2. CASE x \in {Break, Error, End, parse_generic_params}
    <3>1. x.op \in {"break", "error", "end", "generics"} /\ (x.op = "error" <=> x = Error)
      BY <2>2 DEF Break, Error, End, parse_generic_params
    <3> HIDE <2>2
    <3> QED BY <3>1 DEF PartsOf
  <2>3. ASSUME NEW f \in Functions, NEW bp, x = Call(f, bp) PROVE PartsOf(x)
    BY <2>3 DEF PartsOf, Call, Error
  <2>4. ASSUME NEW what \in {"node", "null", "same"}, x = Return(what) PROVE PartsOf(x)
    BY <2>4 DEF PartsOf, Return, Error
  <2>5. ASSUME NEW bp, x = Infix(bp) PROVE PartsOf(x)
    BY <2>5 DEF PartsOf, Infix, Error
  <2> QED BY <1>3, <2>1, <2>2, <2>3, <2>4, <2>5, Zenon DEF Simple
<1>4. ASSUME NEW K, NEW a, NEW b, x = Match(K, a, b), "eof" \notin K, Plain(a), Plain(b)
      PROVE  PartsOf(x)
  BY <1>4 DEF PartsOf, Match, Error
<1>5. ASSUME NEW K, NEW a, NEW b, x = Check(K, a, b),
             \/ "eof" \notin K /\ Fitting(a, TRUE, FALSE) /\ Plain(b)
             \/ "eof" \in K /\ Plain(a) /\ Fitting(b, TRUE, FALSE)
      PROVE  PartsOf(x)
  <2>1. x.op = "check" /\ x.of = K /\ x.then = a /\ x.else = b /\ x # Error
    BY <1>5 DEF Check, Error
  <2> QED BY <1>5, <2>1 DEF PartsOf
<1>6. ASSUME NEW name, NEW K, NEW a, NEW from, x = [Loop(name, K, a) EXCEPT !.from = from], Plain(a)
      PROVE  PartsOf(x)
  <2>1. x.op = "loop" /\ x.then = a /\ x # Error
    BY <1>6 DEF Loop, Error
  <2>2. ASSUME NEW later PROVE Free([x EXCEPT !.from = later])
    <3>1. [x EXCEPT !.from = later] = [Loop(name, K, a) EXCEPT !.from = later]
      BY <1>6 DEF Loop
    <3>2. Free([Loop(name, K, a) EXCEPT !.from = later])
      BY <1>6, FreeLoop
    <3> QED BY <3>1, <3>2, Zenon
  <2> QED BY <1>6, <2>1, <2>2 DEF PartsOf
<1>7. ASSUME NEW K, NEW a, x = Again(K, a), "eof" \notin K, Plain(a)
      PROVE  PartsOf(x)
  <2>1. Free(x)
    BY <1>7, FreeAgain
  <2> QED BY <1>7, <2>1 DEF PartsOf, Again, Error
<1>8. ASSUME NEW a, x = IfNull(a), Fitting(a, FALSE, TRUE)
      PROVE  PartsOf(x)
  BY <1>8 DEF PartsOf, IfNull, Error
<1>9. ASSUME NEW a, x = [op |-> "unsafe fn", then |-> a], Plain(a)
      PROVE  PartsOf(x)
  BY <1>9 DEF PartsOf, Error
<1> QED BY <1>1, <1>2, <1>3, <1>4, <1>5, <1>6, <1>7, <1>8, <1>9, Zenon DEF Shape, Plain

-----------------------------------------------------------------------------
(* The steps *)

\* What is to be done fits what is known: a token is taken where one is, NULL is
\* returned after an error.
Ready(s) ==
  /\ Fitting(s, TRUE, TRUE)
  /\ s # << >> => /\ Head(s) = Take => pos < Len(tokens)
                  /\ Head(s) = Return("null") => had_error

ParserInv ==
  /\ tokens \in Seq(STRING)
  /\ TypeOK
  /\ NullMeansError
  /\ Ready(todo)

LEMMA TokenThere ==
  ASSUME tokens \in Seq(STRING), pos \in 0 .. Len(tokens), parser_current # "eof"
  PROVE  pos < Len(tokens)
BY DEF parser_current, parser_peek

\* Behind a loop or the end of a function nothing needs to be known.
LEMMA BehindFits ==
  ASSUME Fitting(todo, TRUE, TRUE),
         NEW I \in SUBSET (1 .. Len(todo)), \A i \in I : todo[i] # Error,
         NEW n, n = IF I # {} THEN Min(I) ELSE 0
  PROVE  \/ SubSeq(todo, n + 1, Len(todo)) = todo
         \/ Plain(SubSeq(todo, n + 1, Len(todo)))
<1>1. /\ \E T : todo \in Seq(T)
      /\ \A i \in 1 .. Len(todo) :
           (Thing(todo[i]) \/ todo[i] = Take) /\ FitsAt(todo, i, TRUE, TRUE)
  BY PointwiseFits
<1>2. PICK T : todo \in Seq(T)
  BY <1>1
<1> DEFINE s == SubSeq(todo, n + 1, Len(todo))
<1>3. CASE I = {}
  BY <1>2, <1>3
<1>4. CASE I # {}
  <2>1. n \in I
    <3>1. I \in SUBSET Nat
      BY <1>2
    <3>2. Min(I) \in I
      BY <1>4, <3>1, LeastNatural
    <3> QED BY <1>4, <3>2
  <2>2. /\ s \in Seq(T) /\ Len(s) = Len(todo) - n /\ Len(todo) \in Nat /\ n \in 1 .. Len(todo)
        /\ \A i \in 1 .. Len(s) : s[i] = todo[n + i]
    BY <1>2, <2>1
  <2> HIDE DEF s
  <2>3. ASSUME NEW i \in 1 .. Len(s)
        PROVE  (Thing(s[i]) \/ s[i] = Take) /\ FitsAt(s, i, FALSE, FALSE)
    <3>1. n + i \in 1 .. Len(todo) /\ s[i] = todo[n + i] /\ n + i > 1 /\ n + i # 1
      <4>1. Len(s) \in Nat /\ n \in Nat /\ n >= 1 /\ Len(todo) = Len(s) + n
        BY <2>2
      <4>2. n + i \in 1 .. Len(todo) /\ n + i > 1 /\ n + i # 1
        BY <4>1
      <4> QED BY <2>2, <4>2
    <3>2. i > 1 => s[i - 1] = todo[(n + i) - 1]
      <4>1. i > 1 => i - 1 \in 1 .. Len(s) /\ n + (i - 1) = (n + i) - 1
        BY <2>2
      <4> QED BY <2>2, <4>1
    <3>3. i = 1 \/ i > 1
      BY <2>2
    <3>4. i = 1 => todo[(n + i) - 1] # Error
      BY <2>1, <2>2
    <3>5. /\ Thing(todo[n + i]) \/ todo[n + i] = Take
          /\ FitsAt(todo, n + i, TRUE, TRUE)
      BY <1>1, <3>1
    <3>6. s[i] # Take /\ (s[i] = Return("null") => todo[(n + i) - 1] = Error)
      BY <3>1, <3>5 DEF FitsAt
    <3> QED BY <3>1, <3>2, <3>3, <3>4, <3>5, <3>6 DEF FitsAt
  <2>4. Fitting(s, FALSE, FALSE)
    BY <2>2, <2>3, FitsPointwise
  <2> QED BY <2>4 DEF s, Plain
<1> QED BY <1>3, <1>4

LEMMA StartsKnown ==
  ASSUME NEW s
  PROVE  /\ Plain(s) => /\ Fitting(s, TRUE, TRUE)
                        /\ s # << >> => Head(s) # Take /\ Head(s) # Return("null")
         /\ Fitting(s, TRUE, FALSE) => /\ Fitting(s, TRUE, TRUE)
                                       /\ s # << >> => Head(s) # Return("null")
         /\ Fitting(s, FALSE, TRUE) => /\ Fitting(s, TRUE, TRUE)
                                       /\ s # << >> => Head(s) # Take
<1> DEFINE Ok(there, failed) ==
             /\ \E T : s \in Seq(T)
             /\ \A i \in 1 .. Len(s) :
                  (Thing(s[i]) \/ s[i] = Take) /\ FitsAt(s, i, there, failed)
           First == s # << >> => Head(s) = s[1] /\ 1 \in 1 .. Len(s)
<1>1. /\ Fitting(s, FALSE, FALSE) => Ok(FALSE, FALSE)
      /\ Fitting(s, TRUE, FALSE) => Ok(TRUE, FALSE)
      /\ Fitting(s, FALSE, TRUE) => Ok(FALSE, TRUE)
  BY PointwiseFits
<1>2. (Ok(FALSE, FALSE) \/ Ok(TRUE, FALSE) \/ Ok(FALSE, TRUE)) => Ok(TRUE, TRUE) /\ First
  BY DEF FitsAt
<1>3. Ok(TRUE, TRUE) => Fitting(s, TRUE, TRUE)
  BY FitsPointwise
<1>4. /\ Ok(FALSE, FALSE) /\ First /\ s # << >> => Head(s) # Take /\ Head(s) # Return("null")
      /\ Ok(TRUE, FALSE) /\ First /\ s # << >> => Head(s) # Return("null")
      /\ Ok(FALSE, TRUE) /\ First /\ s # << >> => Head(s) # Take
  BY DEF FitsAt
<1> HIDE DEF Ok, First
<1> QED BY <1>1, <1>2, <1>3, <1>4 DEF Plain


LEMMA NextThing ==
  ASSUME Ready(todo), todo # << >>
  PROVE  /\ Head(todo).op = "take" => pos < Len(tokens)
         /\ Head(todo).op # "take" => PartsOf(Head(todo))
         /\ Head(todo).op # "error" => Plain(Tail(todo))
         /\ Head(todo).op = "error" => Fitting(Tail(todo), FALSE, TRUE)
         /\ Head(todo) = Return("null") => had_error
<1> DEFINE x == Head(todo)
<1>1. /\ Thing(x) \/ x = Take
      /\ x = Error => Fitting(Tail(todo), FALSE, TRUE)
      /\ x # Error => Plain(Tail(todo))
  BY FitsTail DEF Ready
<1>2. (x = Take => pos < Len(tokens)) /\ (x = Return("null") => had_error)
  BY DEF Ready
<1> HIDE DEF x
<1>3. CASE Thing(x)
  <2>1. PartsOf(x)
    BY <1>3, PartsFit
  <2>2. x.op # "take" /\ (x.op = "error" <=> x = Error)
    BY <2>1 DEF PartsOf
  <2> QED BY <1>1, <1>2, <2>1, <2>2 DEF x
<1>4. CASE x = Take
  <2>1. x.op = "take" /\ x # Error
    BY <1>4 DEF Take, Error
  <2> QED BY <1>1, <1>2, <1>4, <2>1 DEF x
<1> QED BY <1>1, <1>3, <1>4

LEMMA PlainReady == \A s : Plain(s) => Ready(s)
BY StartsKnown DEF Ready

LEMMA PlainStep ==
  ASSUME NEW a, Plain(a), Plain(Tail(todo)), Then(a)
  PROVE  Plain(todo')
BY FitsThen DEF Then, Plain

LEMMA InitParser == Init => ParserInv
<1> SUFFICES ASSUME Init PROVE ParserInv
  OBVIOUS
<1>1. PICK v \in Vocabularies : \E rest \in BoundedSeq(v.words, v.len) : tokens = v.prefix \o rest
  BY DEF Init, parser_init
<1>2. PICK rest \in BoundedSeq(v.words, v.len) : tokens = v.prefix \o rest
  BY <1>1
<1>3. v.prefix \in Seq(STRING) /\ v.words \in SUBSET STRING /\ v.len \in Nat
  BY ParserAssumption
<1>4. PICK n \in 0 .. v.len : rest \in [1 .. n -> v.words]
  BY <1>2, <1>3 DEF BoundedSeq, SeqOf
<1>5. rest \in Seq(STRING)
  <2>1. n \in Nat
    BY <1>3, <1>4
  <2>2. rest \in [1 .. n -> STRING]
    BY <1>3, <1>4
  <2> QED BY <2>1, <2>2
<1>6. tokens \in Seq(STRING) /\ Len(tokens) \in Nat
  BY <1>2, <1>3, <1>5
<1>7. Ready(todo)
  BY ModuleFits, PlainReady DEF Init, parser_init
<1>8. pos \in 0 .. Len(tokens) /\ ret \in {"node", "null"} /\ ret # "null"
  BY <1>6 DEF Init, parser_init
<1>9. had_error \in BOOLEAN
  BY DEF Init, parser_init
<1> QED BY <1>6, <1>7, <1>8, <1>9, Zenon DEF ParserInv, TypeOK, NullMeansError

LEMMA PlainReadyNext == Plain(todo') => Ready(todo)'
BY StartsKnown DEF Ready

LEMMA ParserStep == ParserInv /\ [Next]_vars => ParserInv'
<1> SUFFICES ASSUME ParserInv, [Next]_vars PROVE ParserInv'
  OBVIOUS
<1> DEFINE x == Head(todo)
           Kept == /\ tokens' = tokens /\ pos' \in 0 .. Len(tokens)
                   /\ ret' \in {"node", "null"}
                   /\ had_error' \in BOOLEAN /\ (ret' = "null" => had_error')
<1>1. /\ tokens \in Seq(STRING) /\ Len(tokens) \in Nat /\ pos \in 0 .. Len(tokens)
      /\ ret \in {"node", "null"} /\ Ready(todo)
  BY DEF ParserInv, TypeOK
<1>2. had_error \in BOOLEAN /\ (ret = "null" => had_error)
  BY DEF ParserInv, TypeOK, NullMeansError
<1>3. SUFFICES Kept /\ Ready(todo)'
  BY <1>1, Zenon DEF ParserInv, TypeOK, NullMeansError
<1>4. todo # << >> => /\ x.op = "take" => pos < Len(tokens)
                      /\ x.op # "take" => PartsOf(x)
                      /\ x.op # "error" => Plain(Tail(todo))
                      /\ x.op = "error" => Fitting(Tail(todo), FALSE, TRUE)
                      /\ x = Return("null") => had_error
  BY <1>1, NextThing
<1>5. parser_current # "eof" => pos < Len(tokens) /\ pos + 1 \in 0 .. Len(tokens)
  BY <1>1, TokenThere
<1>6. Plain(<< >>)
  BY PlainTuples
<1>7. ASSUME tokens' = tokens, pos' \in 0 .. Len(tokens), had_error' = had_error, ret' = ret
      PROVE  Kept
  BY <1>1, <1>2, <1>7, Zenon
<1> HIDE DEF x, Kept
<1>8. CASE DoExpect
  <2>1. x.op = "expect" /\ todo # << >> /\ "eof" \notin x.of /\ Plain(Tail(todo))
    BY <1>4, <1>8 DEF DoExpect, Doing, PartsOf, x
  <2>2. Ready(todo)'
    BY <1>6, <1>8, <2>1, PlainStep, PlainReadyNext DEF DoExpect
  <2>3. pos' \in 0 .. Len(tokens) /\ tokens' = tokens /\ ret' = ret
    BY <1>1, <1>5, <1>8, <2>1 DEF DoExpect, Advance, x
  <2>4. had_error' = had_error \/ had_error' = TRUE
    BY <1>8 DEF DoExpect
  <2> QED BY <1>1, <1>2, <2>2, <2>3, <2>4, Zenon DEF Kept
<1>9. CASE DoTake
  <2>1. x.op = "take" /\ todo # << >> /\ pos < Len(tokens) /\ Plain(Tail(todo))
    BY <1>4, <1>9 DEF DoTake, Doing, x
  <2>2. Ready(todo)'
    BY <1>6, <1>9, <2>1, PlainStep, PlainReadyNext DEF DoTake
  <2>3. pos' \in 0 .. Len(tokens)
    BY <1>1, <1>9, <2>1 DEF DoTake, Advance
  <2> QED BY <1>7, <1>9, <2>2, <2>3 DEF DoTake
<1>10. CASE DoMatch
  <2>1. /\ x.op = "match" /\ todo # << >> /\ "eof" \notin x.of /\ Plain(Tail(todo))
        /\ Plain(x.then) /\ Plain(x.else)
    BY <1>4, <1>10 DEF DoMatch, Doing, PartsOf, x
  <2>2. Ready(todo)'
    BY <1>10, <2>1, PlainStep, PlainReadyNext DEF DoMatch, x
  <2>3. pos' \in 0 .. Len(tokens)
    BY <1>1, <1>5, <1>10, <2>1 DEF DoMatch, Advance, x
  <2> QED BY <1>7, <1>10, <2>2, <2>3 DEF DoMatch
<1>11. CASE DoCheck
  <2>1. /\ x.op = "check" /\ todo # << >> /\ Plain(Tail(todo))
        /\ \/ "eof" \notin x.of /\ Fitting(x.then, TRUE, FALSE) /\ Plain(x.else)
           \/ "eof" \in x.of /\ Plain(x.then) /\ Fitting(x.else, TRUE, FALSE)
    BY <1>4, <1>11 DEF DoCheck, Doing, PartsOf, x
  <2>2. \/ Plain(todo')
        \/ Fitting(todo', TRUE, FALSE) /\ parser_current # "eof"
    <3>1. CASE parser_current \in x.of /\ Then(x.then)
      BY <2>1, <3>1, FitsThen, PlainStep DEF Then
    <3>2. CASE parser_current \notin x.of /\ Then(x.else)
      BY <2>1, <3>2, FitsThen, PlainStep DEF Then
    <3> QED BY <1>11, <3>1, <3>2 DEF DoCheck, x
  <2>3. pos' = pos /\ tokens' = tokens /\ had_error' = had_error /\ ret' = ret
    BY <1>11 DEF DoCheck
  <2>4. Ready(todo)'
    <3>1. CASE Fitting(todo', TRUE, FALSE) /\ parser_current # "eof"
      <4>1. pos' < Len(tokens')
        BY <1>5, <2>3, <3>1
      <4> QED BY <3>1, <4>1, StartsKnown DEF Ready
    <3> QED BY <2>2, <3>1, PlainReadyNext
  <2> QED BY <1>1, <1>7, <2>3, <2>4
<1>12. CASE DoLoop
  <2>1. /\ x.op = "loop" /\ todo # << >> /\ Plain(Tail(todo)) /\ Plain(x.then)
        /\ Free([x EXCEPT !.from = pos])
    BY <1>4, <1>12 DEF DoLoop, Doing, PartsOf, x
  <2>2. Plain(Append(x.then, [x EXCEPT !.from = pos]))
    BY <2>1, Building
  <2>3. Ready(todo)'
    BY <1>6, <1>12, <2>1, <2>2, PlainStep, PlainReadyNext DEF DoLoop, x
  <2> QED BY <1>1, <1>7, <1>12, <2>3 DEF DoLoop
<1>13. CASE DoAgain
  <2>1. /\ x.op = "again" /\ todo # << >> /\ "eof" \notin x.of /\ Plain(Tail(todo))
        /\ Plain(x.then) /\ Free(x)
    BY <1>4, <1>13 DEF DoAgain, Doing, PartsOf, x
  <2>2. Plain(Append(x.then, x))
    BY <2>1, Building
  <2>3. Ready(todo)'
    BY <1>6, <1>13, <2>1, <2>2, PlainStep, PlainReadyNext DEF DoAgain, x
  <2>4. pos' \in 0 .. Len(tokens)
    BY <1>1, <1>5, <1>13, <2>1 DEF DoAgain, Advance, x
  <2> QED BY <1>7, <1>13, <2>3, <2>4 DEF DoAgain
<1>14. CASE DoCall
  <2>1. x.op = "call" /\ todo # << >> /\ Plain(Tail(todo)) /\ x.f \in Functions
    BY <1>4, <1>14 DEF DoCall, Doing, PartsOf, x
  <2>2. Plain(Append(Body(x.f, x.bp), End))
    BY <2>1, BodiesFit, Building, FreeSimple
  <2>3. Ready(todo)'
    BY <1>14, <2>1, <2>2, PlainStep, PlainReadyNext DEF DoCall, x
  <2> QED BY <1>1, <1>7, <1>14, <2>3 DEF DoCall
<1>15. CASE DoEnd
  <2>1. x.op = "end" /\ todo # << >> /\ Plain(Tail(todo))
    BY <1>4, <1>15 DEF DoEnd, Doing, x
  <2>2. Ready(todo)'
    BY <1>6, <1>15, <2>1, PlainStep, PlainReadyNext DEF DoEnd
  <2>3. tokens' = tokens /\ pos' = pos /\ had_error' = had_error /\ ret' = "node"
    BY <1>15 DEF DoEnd
  <2> QED BY <1>1, <1>2, <2>2, <2>3 DEF Kept
<1>16. CASE DoIfNull
  <2>1. x.op = "ifnull" /\ todo # << >> /\ Plain(Tail(todo)) /\ Fitting(x.then, FALSE, TRUE)
    BY <1>4, <1>16 DEF DoIfNull, Doing, PartsOf, x
  <2>2. tokens' = tokens /\ pos' = pos /\ had_error' = had_error /\ ret' = ret
    BY <1>16 DEF DoIfNull
  <2>3. CASE ret = "null"
    <3>1. todo' = x.then \o Tail(todo)
      BY <1>16, <2>3 DEF DoIfNull, Then, x
    <3>2. Fitting(todo', FALSE, TRUE) /\ had_error'
      BY <1>2, <2>1, <2>2, <2>3, <3>1, FitsThen
    <3>3. Ready(todo)'
      BY <3>2, StartsKnown DEF Ready
    <3> QED BY <1>1, <1>7, <2>2, <3>3
  <2>4. CASE ret # "null"
    <3>1. Then(<< >>)
      BY <1>16, <2>4 DEF DoIfNull
    <3>2. Ready(todo)'
      BY <1>6, <2>1, <3>1, PlainStep, PlainReadyNext
    <3> QED BY <1>1, <1>7, <2>2, <3>2
  <2> QED BY <2>3, <2>4
<1>17. CASE DoError
  <2>1. x.op = "error" /\ todo # << >> /\ Fitting(Tail(todo), FALSE, TRUE)
    BY <1>4, <1>17 DEF DoError, Doing, x
  <2>2. todo' = << >> \o Tail(todo)
    BY <1>17 DEF DoError, Then
  <2>3. PICK T : Tail(todo) \in Seq(T)
    BY <2>1, PointwiseFits
  <2>4. todo' = Tail(todo)
    BY <2>2, <2>3
  <2>5. tokens' = tokens /\ pos' = pos /\ had_error' = TRUE /\ ret' = ret
    BY <1>17 DEF DoError
  <2>6. Ready(todo)'
    BY <2>1, <2>4, <2>5, StartsKnown DEF Ready
  <2> QED BY <1>1, <2>5, <2>6 DEF Kept
<1>18. CASE DoInfix
  <2>1. x.op = "infix" /\ todo # << >> /\ Plain(Tail(todo))
    BY <1>4, <1>18 DEF DoInfix, Doing, x
  <2>2. \A n : Plain(<<Call("expr_bp", n), IfNull(<<Return("node")>>), Infix(x.bp)>>)
    BY FreeSimple, PlainTuples, Building DEF Functions
  <2>3. Ready(todo)'
    BY <1>6, <1>18, <2>1, <2>2, PlainStep, PlainReadyNext DEF DoInfix, x
  <2>4. "eof" \notin DOMAIN infix_binding_power
    BY DEF infix_binding_power
  <2>5. pos' \in 0 .. Len(tokens)
    BY <1>1, <1>5, <1>18, <2>4 DEF DoInfix, Advance
  <2> QED BY <1>7, <1>18, <2>3, <2>5 DEF DoInfix
<1>19. CASE DoGenerics
  <2>1. x.op = "generics" /\ todo # << >> /\ Plain(Tail(todo))
    BY <1>4, <1>19 DEF DoGenerics, Doing, x
  <2>2. Then(GenericParams) \/ Then(<< >>)
    BY <1>19 DEF DoGenerics
  <2>3. Ready(todo)'
    BY <1>6, <2>1, <2>2, GenericParamsFit, PlainStep, PlainReadyNext
  <2> QED BY <1>1, <1>7, <1>19, <2>3 DEF DoGenerics
<1>20. CASE DoUnsafeFn
  <2>1. x.op = "unsafe fn" /\ todo # << >> /\ Plain(Tail(todo)) /\ Plain(x.then)
    BY <1>4, <1>20 DEF DoUnsafeFn, Doing, PartsOf, x
  <2>2. Then(x.then) \/ Then(<< >>)
    BY <1>20 DEF DoUnsafeFn, x
  <2>3. Ready(todo)'
    BY <1>6, <2>1, <2>2, PlainStep, PlainReadyNext
  <2> QED BY <1>1, <1>7, <1>20, <2>3 DEF DoUnsafeFn
<1>21. CASE DoBreak
  <2>1. tokens' = tokens /\ pos' = pos /\ had_error' = had_error /\ ret' = ret
    BY <1>21 DEF DoBreak
  <2>2. todo' = todo \/ Plain(todo')
    <3> DEFINE I == {i \in 1 .. Len(todo) : Running(todo[i])}
               n == IF I # {} THEN Min(I) ELSE 0
    <3>1. todo' = SubSeq(todo, n + 1, Len(todo))
      BY <1>21 DEF DoBreak, Behind, SelectInSeq
    <3>2. I \in SUBSET (1 .. Len(todo)) /\ \A i \in I : todo[i] # Error
      BY DEF Running, Error
    <3> HIDE DEF I
    <3>3. Fitting(todo, TRUE, TRUE)
      BY <1>1 DEF Ready
    <3> QED BY <3>1, <3>2, <3>3, BehindFits
  <2>3. Ready(todo)'
    BY <1>1, <2>1, <2>2, PlainReadyNext DEF Ready
  <2> QED BY <1>1, <1>7, <2>1, <2>3
<1>22. CASE DoReturn
  <2>1. /\ x.op = "return" /\ todo # << >> /\ x.what \in {"node", "null", "same"}
        /\ x.what = "null" => had_error
    BY <1>4, <1>22 DEF DoReturn, Doing, PartsOf, x
  <2>2. tokens' = tokens /\ pos' = pos /\ had_error' = had_error
    BY <1>22 DEF DoReturn
  <2>3. ret' = IF x.what = "same" THEN ret ELSE x.what
    BY <1>22 DEF DoReturn, x
  <2>4. Kept
    <3>1. ret' \in {"node", "null"} /\ (ret' = "null" => ret = "null" \/ x.what = "null")
      BY <1>1, <2>1, <2>3
    <3>2. had_error' \in BOOLEAN /\ (ret' = "null" => had_error')
      BY <1>2, <2>1, <2>2, <3>1
    <3> QED BY <1>1, <2>2, <3>1, <3>2 DEF Kept
  <2>5. todo' = todo \/ Plain(todo')
    <3> DEFINE I == {i \in 1 .. Len(todo) : FunctionEnd(todo[i])}
               n == IF I # {} THEN Min(I) ELSE 0
    <3>1. todo' = SubSeq(todo, n + 1, Len(todo))
      BY <1>22 DEF DoReturn, Behind, SelectInSeq
    <3>2. I \in SUBSET (1 .. Len(todo)) /\ \A i \in I : todo[i] # Error
      BY DEF FunctionEnd, Error
    <3> HIDE DEF I
    <3>3. Fitting(todo, TRUE, TRUE)
      BY <1>1 DEF Ready
    <3> QED BY <3>1, <3>2, <3>3, BehindFits
  <2>6. Ready(todo)'
    BY <1>1, <2>2, <2>5, PlainReadyNext DEF Ready
  <2> QED BY <2>4, <2>6
<1>23. CASE UNCHANGED vars
  <2>1. tokens' = tokens /\ pos' = pos /\ had_error' = had_error /\ ret' = ret /\ todo' = todo
    BY <1>23 DEF vars
  <2> QED BY <1>1, <1>7, <2>1 DEF Ready
<1> QED BY <1>8, <1>9, <1>10, <1>11, <1>12, <1>13, <1>14, <1>15, <1>16, <1>17, <1>18, <1>19,
           <1>20, <1>21, <1>22, <1>23 DEF Next

-----------------------------------------------------------------------------
(* What makes sure that a turn of a loop moves on *)

\* The tokens that f takes, whatever it does, when it is called with one of them next.
Starts(f) == IF f = "stmt" THEN StatementStarts ELSE IF f = "block" THEN {"{"} ELSE {}

\* x takes the token t, which is next.
Takes(x, t) ==
  \/ x.op = "take"
  \/ x.op \in {"expect", "match"} /\ t \in x.of
  \/ x.op = "call" /\ t \in Starts(x.f)

\* So does s: what it tries in front of it does nothing when its token is not there.
Certain(s, t) ==
  \E k \in 1 .. Len(s) :
    /\ \A i \in 1 .. k - 1 : s[i].op = "match" /\ s[i].else = << >>
    /\ Takes(s[k], t)

\* x takes a token or leaves the loop, or comes to a thing of G.
GuardShape(x, G) ==
  \/ x.op \in {"break", "take"}
  \/ /\ x.op \in {"match", "check"}
     /\ \E i \in 1 .. Len(x.else) : x.else[i] \in G
     /\ \/ x.op = "match" \/ x.of = {"eof"}
        \/ \E i \in 1 .. Len(x.then) : x.then[i] \in G
        \/ \A t \in x.of : Certain(x.then, t)

\* The things behind which a token has been taken, or the loop been left, or no
\* token is left.
Guard(x) == \E G : x \in G /\ \A y \in G : GuardShape(y, G)
HasGuard(s) == \E i \in 1 .. Len(s) : Guard(s[i])

Guards(x) ==
  \/ x.op \in {"break", "take"}
  \/ /\ x.op \in {"match", "check"}
     /\ HasGuard(x.else)
     /\ \/ x.op = "match" \/ x.of = {"eof"}
        \/ HasGuard(x.then)
        \/ \A t \in x.of : Certain(x.then, t)

LEMMA GuardMore ==
  ASSUME NEW x, NEW G, NEW H, G \subseteq H, GuardShape(x, G)
  PROVE  GuardShape(x, H)
<1>1. ASSUME NEW s, \E i \in 1 .. Len(s) : s[i] \in G PROVE \E i \in 1 .. Len(s) : s[i] \in H
  BY <1>1
<1> QED BY <1>1, Zenon DEF GuardShape

LEMMA GuardParts ==
  ASSUME NEW x, Guard(x)
  PROVE  Guards(x)
<1>1. PICK G : x \in G /\ \A y \in G : GuardShape(y, G)
  BY DEF Guard
<1>2. \A y \in G : Guard(y)
  BY <1>1 DEF Guard
<1>3. ASSUME NEW s, \E i \in 1 .. Len(s) : s[i] \in G PROVE HasGuard(s)
  BY <1>2, <1>3 DEF HasGuard
<1>4. GuardShape(x, G)
  BY <1>1
<1> QED BY <1>3, <1>4, Zenon DEF GuardShape, Guards

LEMMA GuardMade ==
  ASSUME NEW x, Guards(x)
  PROVE  Guard(x)
<1> DEFINE Around(y) == CHOOSE G : y \in G /\ \A z \in G : GuardShape(z, G)
           Has(s) == {y \in {s[i] : i \in 1 .. Len(s)} : Guard(y)}
           Parts == Has(x.then) \cup Has(x.else)
           All == {x} \cup UNION {Around(y) : y \in Parts}
<1>1. \A y \in Parts : y \in Around(y) /\ \A z \in Around(y) : GuardShape(z, Around(y))
  BY DEF Guard
<1> HIDE DEF Around
<1>2. Parts \subseteq All
  BY <1>1
<1>3. /\ HasGuard(x.then) => \E i \in 1 .. Len(x.then) : x.then[i] \in All
      /\ HasGuard(x.else) => \E i \in 1 .. Len(x.else) : x.else[i] \in All
  <2>1. /\ HasGuard(x.then) => \E i \in 1 .. Len(x.then) : x.then[i] \in Parts
        /\ HasGuard(x.else) => \E i \in 1 .. Len(x.else) : x.else[i] \in Parts
    BY DEF HasGuard
  <2> HIDE DEF Parts, All
  <2> QED BY <1>2, <2>1
<1>4. ASSUME NEW z \in All PROVE GuardShape(z, All)
  <2>1. CASE z = x
    <3> HIDE DEF All
    <3> QED BY <1>3, <2>1, Zenon DEF Guards, GuardShape
  <2>2. CASE z # x
    <3>1. PICK y \in Parts : z \in Around(y)
      BY <2>2
    <3>2. Around(y) \subseteq All
      OBVIOUS
    <3>3. GuardShape(z, Around(y))
      BY <1>1, <3>1
    <3> HIDE DEF All, Parts
    <3> QED BY <3>2, <3>3, GuardMore
  <2> QED BY <2>1, <2>2
<1>5. x \in All
  OBVIOUS
<1> HIDE DEF All
<1> QED BY <1>4, <1>5, Zenon DEF Guard

\* parser_parse behind a declaration that was none.
Recover == IfNull(<<Check({"eof"}, << >>, <<Take>>)>>)

\* A turn of the loop x takes a token, or leaves it, or is that of the declarations;
\* an arm of a match expects one.
Turns(x) ==
  \/ HasGuard(x.then)
  \/ x.name = "match arms" /\ \E i \in 1 .. Len(x.then) : x.then[i].op = "expect"
  \/ x.then = <<Call("top_level_decl", 0), Recover>>

\* x is a thing as it stands in the code, and its parts are in S.
WrittenShape(x, S) ==
  /\ x.op # "end"
  /\ x.op \in {"match", "check", "again", "ifnull", "unsafe fn", "loop"} => x.then \in Seq(S)
  /\ x.op \in {"match", "check"} => x.else \in Seq(S)
  /\ x.op = "loop" => x.from = -1 /\ Turns(x)
Written(x) == \E S : x \in S /\ \A y \in S : WrittenShape(y, S)

\* A sequence of them, and what stays true of a thing once its loop has begun.
Row(s) == \E S : s \in Seq(S) /\ \A y \in S : Written(y)

Live(x) ==
  /\ x.op \in {"match", "check", "again", "ifnull", "unsafe fn", "loop"} => Row(x.then)
  /\ x.op \in {"match", "check"} => Row(x.else)
  /\ x.op = "loop" => Turns(x)

LEMMA WrittenMore ==
  ASSUME NEW x, NEW S, NEW R, S \subseteq R, WrittenShape(x, S)
  PROVE  WrittenShape(x, R)
<1>1. Seq(S) \subseteq Seq(R)
  OBVIOUS
<1> QED BY <1>1 DEF WrittenShape

LEMMA WrittenParts ==
  ASSUME NEW x, Written(x)
  PROVE  Live(x) /\ x.op # "end" /\ (x.op = "loop" => x.from = -1)
<1>1. PICK S : x \in S /\ \A y \in S : WrittenShape(y, S)
  BY DEF Written
<1>2. \A y \in S : Written(y)
  BY <1>1 DEF Written
<1>3. \A s \in Seq(S) : Row(s)
  BY <1>2 DEF Row
<1> QED BY <1>1, <1>3 DEF WrittenShape, Live

LEMMA WrittenMade ==
  ASSUME NEW x, Live(x), x.op # "end", x.op = "loop" => x.from = -1
  PROVE  Written(x)
<1> DEFINE Around(y) == CHOOSE S : y \in S /\ \A z \in S : WrittenShape(z, S)
<1>1. \A y : Written(y) => y \in Around(y) /\ \A z \in Around(y) : WrittenShape(z, Around(y))
  BY DEF Written
<1> HIDE DEF Around
<1>2. PICK S : /\ \A y \in S : Written(y)
               /\ Row(x.then) => x.then \in Seq(S)
               /\ Row(x.else) => x.else \in Seq(S)
  <2> DEFINE Holding(s) == \E A : (\A y \in A : Written(y)) /\ (Row(s) => s \in Seq(A))
  <2>0. \A s : Holding(s)
    <3>1. \A s : Row(s) => Holding(s)
      BY DEF Row
    <3>2. ASSUME NEW s, ~Row(s) PROVE Holding(s)
      <4>1. (\A y \in {} : Written(y)) /\ (Row(s) => s \in Seq({}))
        BY <3>2
      <4> QED BY <4>1
    <3> QED BY <3>1, <3>2, Zenon
  <2>1. PICK A : (\A y \in A : Written(y)) /\ (Row(x.then) => x.then \in Seq(A))
    BY <2>0, Zenon
  <2>2. PICK B : (\A y \in B : Written(y)) /\ (Row(x.else) => x.else \in Seq(B))
    BY <2>0, Zenon
  <2>3. Seq(A) \subseteq Seq(A \cup B) /\ Seq(B) \subseteq Seq(A \cup B)
    OBVIOUS
  <2>4. \A y \in A \cup B : Written(y)
    BY <2>1, <2>2
  <2> QED BY <2>1, <2>2, <2>3, <2>4
<1> DEFINE All == {x} \cup UNION {Around(y) : y \in S}
<1>3. S \subseteq All
  BY <1>1, <1>2
<1>4. ASSUME NEW z \in All PROVE WrittenShape(z, All)
  <2>1. CASE z = x
    <3>1. WrittenShape(x, S)
      BY <1>2 DEF Live, WrittenShape
    <3> HIDE DEF All
    <3> QED BY <1>3, <2>1, <3>1, WrittenMore
  <2>2. CASE z # x
    <3>1. PICK y \in S : z \in Around(y)
      BY <2>2
    <3>2. Around(y) \subseteq All
      OBVIOUS
    <3>3. WrittenShape(z, Around(y))
      BY <1>1, <1>2, <3>1
    <3> HIDE DEF All
    <3> QED BY <3>2, <3>3, WrittenMore
  <2> QED BY <2>1, <2>2
<1>5. x \in All
  OBVIOUS
<1> HIDE DEF All
<1> QED BY <1>4, <1>5, Zenon DEF Written

-----------------------------------------------------------------------------
(* How the parse functions are written *)

LEMMA WrittenSimple ==
  /\ \A K : Written(Expect(K))
  /\ Written(Take) /\ Written(Break) /\ Written(Error) /\ Written(parse_generic_params)
  /\ \A f, bp : Written(Call(f, bp))
  /\ \A what : Written(Return(what))
  /\ \A bp : Written(Infix(bp))
  /\ Written(parse_expr) /\ Written(parse_type) /\ Written(parse_block)
<1> DEFINE Ops == {"expect", "take", "break", "error", "generics", "call", "return", "infix"}
<1>1. ASSUME NEW x, x.op \in Ops PROVE Written(x)
  <2>1. Live(x) /\ x.op # "end" /\ x.op # "loop"
    BY <1>1 DEF Live
  <2> QED BY <2>1, WrittenMade
<1>2. /\ \A K : Expect(K).op \in Ops
      /\ Take.op \in Ops /\ Break.op \in Ops /\ Error.op \in Ops /\ parse_generic_params.op \in Ops
      /\ \A f, bp : Call(f, bp).op \in Ops
      /\ \A what : Return(what).op \in Ops
      /\ \A bp : Infix(bp).op \in Ops
  BY DEF Expect, Take, Break, Error, parse_generic_params, Call, Return, Infix
<1> HIDE DEF Ops
<1> QED BY <1>1, <1>2 DEF parse_expr, parse_type, parse_block

LEMMA RowTuples ==
  /\ Row(<< >>)
  /\ \A a : Written(a) => Row(<<a>>)
  /\ \A a, b : Written(a) /\ Written(b) => Row(<<a, b>>)
  /\ \A a, b, c : Written(a) /\ Written(b) /\ Written(c) => Row(<<a, b, c>>)
  /\ \A a, b, c, d : Written(a) /\ Written(b) /\ Written(c) /\ Written(d) => Row(<<a, b, c, d>>)
  /\ \A a, b, c, d, e : Written(a) /\ Written(b) /\ Written(c) /\ Written(d) /\ Written(e)
       => Row(<<a, b, c, d, e>>)
  /\ \A a, b, c, d, e, f :
       Written(a) /\ Written(b) /\ Written(c) /\ Written(d) /\ Written(e) /\ Written(f)
       => Row(<<a, b, c, d, e, f>>)
  /\ \A a, b, c, d, e, f, g :
       /\ Written(a) /\ Written(b) /\ Written(c) /\ Written(d) /\ Written(e) /\ Written(f)
       /\ Written(g)
       => Row(<<a, b, c, d, e, f, g>>)
<1>1. ASSUME NEW S, \A y \in S : Written(y), NEW s \in Seq(S) PROVE Row(s)
  BY <1>1 DEF Row
<1>2. Row(<< >>)
  <2>1. << >> \in Seq({})
    OBVIOUS
  <2> QED BY <2>1, <1>1
<1>3. ASSUME NEW a, Written(a) PROVE Row(<<a>>)
  <2>1. <<a>> \in Seq({a}) /\ \A y \in {a} : Written(y)
    BY <1>3
  <2> QED BY <2>1, <1>1
<1>4. ASSUME NEW a, NEW b, Written(a), Written(b) PROVE Row(<<a, b>>)
  <2>1. <<a, b>> \in Seq({a, b}) /\ \A y \in {a, b} : Written(y)
    BY <1>4
  <2> QED BY <2>1, <1>1
<1>5. ASSUME NEW a, NEW b, NEW c, Written(a), Written(b), Written(c) PROVE Row(<<a, b, c>>)
  <2>1. <<a, b, c>> \in Seq({a, b, c}) /\ \A y \in {a, b, c} : Written(y)
    BY <1>5
  <2> QED BY <2>1, <1>1
<1>6. ASSUME NEW a, NEW b, NEW c, NEW d, Written(a), Written(b), Written(c), Written(d)
      PROVE  Row(<<a, b, c, d>>)
  <2>1. <<a, b, c, d>> \in Seq({a, b, c, d}) /\ \A y \in {a, b, c, d} : Written(y)
    BY <1>6
  <2> QED BY <2>1, <1>1
<1>7. ASSUME NEW a, NEW b, NEW c, NEW d, NEW e,
             Written(a), Written(b), Written(c), Written(d), Written(e)
      PROVE  Row(<<a, b, c, d, e>>)
  <2>1. <<a, b, c, d, e>> \in Seq({a, b, c, d, e}) /\ \A y \in {a, b, c, d, e} : Written(y)
    BY <1>7
  <2> QED BY <2>1, <1>1
<1>8. ASSUME NEW a, NEW b, NEW c, NEW d, NEW e, NEW f,
             Written(a), Written(b), Written(c), Written(d), Written(e), Written(f)
      PROVE  Row(<<a, b, c, d, e, f>>)
  <2>1. /\ <<a, b, c, d, e, f>> \in Seq({a, b, c, d, e, f})
        /\ \A y \in {a, b, c, d, e, f} : Written(y)
    BY <1>8
  <2> QED BY <2>1, <1>1
<1>9. ASSUME NEW a, NEW b, NEW c, NEW d, NEW e, NEW f, NEW g,
             Written(a), Written(b), Written(c), Written(d), Written(e), Written(f), Written(g)
      PROVE  Row(<<a, b, c, d, e, f, g>>)
  <2>1. /\ <<a, b, c, d, e, f, g>> \in Seq({a, b, c, d, e, f, g})
        /\ \A y \in {a, b, c, d, e, f, g} : Written(y)
    BY <1>9
  <2> QED BY <2>1, <1>1
<1> QED BY <1>2, <1>3, <1>4, <1>5, <1>6, <1>7, <1>8, <1>9

LEMMA RowThen ==
  /\ \A a, b : Row(a) /\ Row(b) => Row(a \o b)
  /\ \A a, x : Row(a) /\ Written(x) => Row(Append(a, x))
<1>1. ASSUME NEW a, NEW b, Row(a), Row(b) PROVE Row(a \o b)
  <2>1. PICK A : a \in Seq(A) /\ \A y \in A : Written(y)
    BY <1>1 DEF Row
  <2>2. PICK B : b \in Seq(B) /\ \A y \in B : Written(y)
    BY <1>1 DEF Row
  <2>3. a \in Seq(A \cup B) /\ b \in Seq(A \cup B)
    BY <2>1, <2>2
  <2>4. a \o b \in Seq(A \cup B)
    BY <2>3
  <2> QED BY <2>1, <2>2, <2>4 DEF Row
<1>2. ASSUME NEW a, NEW x, Row(a), Written(x) PROVE Row(Append(a, x))
  <2>1. PICK A : a \in Seq(A) /\ \A y \in A : Written(y)
    BY <1>2 DEF Row
  <2>2. Append(a, x) = a \o <<x>>
    BY <2>1
  <2> QED BY <1>1, <1>2, <2>2, RowTuples
<1> QED BY <1>1, <1>2

LEMMA Writing ==
  /\ \A K, a, b : Row(a) /\ Row(b) => Written(Match(K, a, b))
  /\ \A K, a : Row(a) => Written(Opt(K, a))
  /\ \A K : Written(BreakUnless(K))
  /\ \A K, a, b : Row(a) /\ Row(b) => Written(Check(K, a, b))
  /\ \A K, a : Row(a) => Written(When(K, a))
  /\ \A name, K, a : Row(a) /\ HasGuard(a) => Written(Loop(name, K, a))
  /\ \A a : Row(a) => Written(IfNull(a))
  /\ \A a : Row(a) => Written([op |-> "unsafe fn", then |-> a])
  /\ \A a : Row(a) => Row(CommaList(a))
<1>1. ASSUME NEW K, NEW a, NEW b, Row(a), Row(b) PROVE Written(Match(K, a, b))
  <2>1. Live(Match(K, a, b)) /\ Match(K, a, b).op \notin {"end", "loop"}
    BY <1>1 DEF Live, Match
  <2> QED BY <2>1, WrittenMade
<1>2. ASSUME NEW K, NEW a, NEW b, Row(a), Row(b) PROVE Written(Check(K, a, b))
  <2>1. Live(Check(K, a, b)) /\ Check(K, a, b).op \notin {"end", "loop"}
    BY <1>2 DEF Live, Check
  <2> QED BY <2>1, WrittenMade
<1>3. ASSUME NEW name, NEW K, NEW a, Row(a), HasGuard(a) PROVE Written(Loop(name, K, a))
  <2> DEFINE x == Loop(name, K, a)
  <2>1. x.op = "loop" /\ x.then = a /\ x.from = -1
    BY DEF Loop
  <2> HIDE DEF x
  <2>2. Live(x)
    BY <1>3, <2>1 DEF Live, Turns
  <2>3. Written(x)
    BY <2>1, <2>2, WrittenMade
  <2> QED BY <2>3 DEF x
<1>4. ASSUME NEW a, Row(a) PROVE Written(IfNull(a))
  <2>1. Live(IfNull(a)) /\ IfNull(a).op \notin {"end", "loop"}
    BY <1>4 DEF Live, IfNull
  <2> QED BY <2>1, WrittenMade
<1>5. ASSUME NEW a, Row(a) PROVE Written([op |-> "unsafe fn", then |-> a])
  <2> DEFINE x == [op |-> "unsafe fn", then |-> a]
  <2>1. Live(x) /\ x.op \notin {"end", "loop"}
    BY <1>5 DEF Live
  <2> HIDE DEF x
  <2>2. Written(x)
    BY <2>1, WrittenMade
  <2> QED BY <2>2 DEF x
<1>6. ASSUME NEW K, NEW a, Row(a) PROVE Written(Again(K, a))
  <2>1. Live(Again(K, a)) /\ Again(K, a).op \notin {"end", "loop"}
    BY <1>6 DEF Live, Again
  <2> QED BY <2>1, WrittenMade
<1>7. \A a : Row(a) => Row(CommaList(a))
  BY <1>6, RowThen DEF CommaList
<1>8. /\ \A K, a : Row(a) => Written(Opt(K, a))
      /\ \A K, a : Row(a) => Written(When(K, a))
      /\ \A K : Written(BreakUnless(K))
  BY <1>1, <1>2, RowTuples, WrittenSimple DEF Opt, When, BreakUnless
<1> QED BY <1>1, <1>2, <1>3, <1>4, <1>5, <1>7, <1>8

LEMMA Guarding ==
  /\ Guard(Break) /\ Guard(Take)
  /\ \A K, a, b : HasGuard(b) => Guard(Match(K, a, b))
  /\ \A K : Guard(BreakUnless(K))
  /\ \A K, a, b : HasGuard(a) /\ HasGuard(b) => Guard(Check(K, a, b))
  /\ \A K, a, b : (\A t \in K : Certain(a, t)) /\ HasGuard(b) => Guard(Check(K, a, b))
  /\ \A a, b : HasGuard(b) => Guard(Check({"eof"}, a, b))
  /\ \A a : Guard(a) => HasGuard(<<a>>)
  /\ \A a, b : Guard(b) => HasGuard(<<a, b>>)
  /\ \A a, b, c : Guard(c) => HasGuard(<<a, b, c>>)
  /\ \A a, b, c, d : Guard(d) => HasGuard(<<a, b, c, d>>)
  /\ \A a, b, c, d, e : Guard(a) \/ Guard(e) => HasGuard(<<a, b, c, d, e>>)
  /\ \A a, b, c, d, e, f, g : Guard(g) => HasGuard(<<a, b, c, d, e, f, g>>)
<1>1. Guard(Break) /\ Guard(Take)
  <2>1. Guards(Break) /\ Guards(Take)
    BY DEF Guards, Break, Take
  <2> QED BY <2>1, GuardMade
<1>2. ASSUME NEW K, NEW a, NEW b, HasGuard(b) PROVE Guard(Match(K, a, b))
  <2>1. Guards(Match(K, a, b))
    BY <1>2 DEF Guards, Match
  <2> QED BY <2>1, GuardMade
<1>3. ASSUME NEW K, NEW a, NEW b, HasGuard(b),
             K = {"eof"} \/ HasGuard(a) \/ \A t \in K : Certain(a, t)
      PROVE  Guard(Check(K, a, b))
  <2> DEFINE x == Check(K, a, b)
  <2>1. x.op = "check" /\ x.of = K /\ x.then = a /\ x.else = b
    BY DEF Check
  <2> HIDE DEF x
  <2>2. Guards(x)
    BY <1>3, <2>1 DEF Guards
  <2>3. Guard(x)
    BY <2>2, GuardMade
  <2> QED BY <2>3 DEF x
<1>4. ASSUME NEW s, NEW i \in 1 .. Len(s), Guard(s[i]) PROVE HasGuard(s)
  BY <1>4 DEF HasGuard
<1>5. /\ \A a : Guard(a) => HasGuard(<<a>>)
      /\ \A a, b : Guard(b) => HasGuard(<<a, b>>)
      /\ \A a, b, c : Guard(c) => HasGuard(<<a, b, c>>)
      /\ \A a, b, c, d : Guard(d) => HasGuard(<<a, b, c, d>>)
  <2>1. \A a : 1 \in 1 .. Len(<<a>>) /\ <<a>>[1] = a
    OBVIOUS
  <2>2. \A a, b : 2 \in 1 .. Len(<<a, b>>) /\ <<a, b>>[2] = b
    OBVIOUS
  <2>3. \A a, b, c : 3 \in 1 .. Len(<<a, b, c>>) /\ <<a, b, c>>[3] = c
    OBVIOUS
  <2>4. \A a, b, c, d : 4 \in 1 .. Len(<<a, b, c, d>>) /\ <<a, b, c, d>>[4] = d
    OBVIOUS
  <2> QED BY <1>4, <2>1, <2>2, <2>3, <2>4
<1>6. \A a, b, c, d, e : Guard(a) \/ Guard(e) => HasGuard(<<a, b, c, d, e>>)
  <2>1. \A a, b, c, d, e : /\ 1 \in 1 .. Len(<<a, b, c, d, e>>) /\ <<a, b, c, d, e>>[1] = a
                           /\ 5 \in 1 .. Len(<<a, b, c, d, e>>) /\ <<a, b, c, d, e>>[5] = e
    OBVIOUS
  <2> QED BY <1>4, <2>1
<1>7. \A a, b, c, d, e, f, g : Guard(g) => HasGuard(<<a, b, c, d, e, f, g>>)
  <2>1. \A a, b, c, d, e, f, g : /\ 7 \in 1 .. Len(<<a, b, c, d, e, f, g>>)
                                 /\ <<a, b, c, d, e, f, g>>[7] = g
    OBVIOUS
  <2> QED BY <1>4, <2>1
<1>8. \A K : Guard(BreakUnless(K))
  BY <1>1, <1>2, <1>5 DEF BreakUnless
<1>9. \A a, b : HasGuard(b) => Guard(Check({"eof"}, a, b))
  BY <1>3
<1> QED BY <1>1, <1>2, <1>3, <1>5, <1>6, <1>7, <1>8, <1>9

LEMMA CertainFirst ==
  ASSUME NEW s, NEW t, 1 \in 1 .. Len(s), Takes(s[1], t)
  PROVE  Certain(s, t)
<1>1. \A i \in 1 .. 1 - 1 : s[i].op = "match" /\ s[i].else = << >>
  OBVIOUS
<1> QED BY <1>1, Zenon DEF Certain

LEMMA CertainThen ==
  ASSUME NEW S, NEW a \in Seq(S), NEW b \in Seq(S), NEW t
  PROVE  /\ Certain(a, t) => Certain(a \o b, t)
         /\ /\ \A i \in 1 .. Len(a) : a[i].op = "match" /\ a[i].else = << >>
            /\ Certain(b, t)
            => Certain(a \o b, t)
<1> DEFINE c == a \o b
<1>1. /\ c \in Seq(S) /\ Len(a) \in Nat /\ Len(b) \in Nat /\ Len(c) = Len(a) + Len(b)
      /\ \A i \in 1 .. Len(a) : c[i] = a[i]
      /\ \A i \in 1 .. Len(b) : c[Len(a) + i] = b[i]
  OBVIOUS
<1> HIDE DEF c
<1>2. ASSUME Certain(a, t) PROVE Certain(c, t)
  <2>1. PICK k \in 1 .. Len(a) : /\ \A i \in 1 .. k - 1 : a[i].op = "match" /\ a[i].else = << >>
                                 /\ Takes(a[k], t)
    BY <1>2 DEF Certain
  <2>2. k \in 1 .. Len(c) /\ c[k] = a[k] /\ \A i \in 1 .. k - 1 : c[i] = a[i]
    BY <1>1
  <2> QED BY <2>1, <2>2 DEF Certain
<1>3. ASSUME \A i \in 1 .. Len(a) : a[i].op = "match" /\ a[i].else = << >>, Certain(b, t)
      PROVE  Certain(c, t)
  <2>1. PICK k \in 1 .. Len(b) : /\ \A i \in 1 .. k - 1 : b[i].op = "match" /\ b[i].else = << >>
                                 /\ Takes(b[k], t)
    BY <1>3 DEF Certain
  <2> DEFINE m == Len(a) + k
  <2>2. m \in 1 .. Len(c) /\ c[m] = b[k]
    <3>1. m \in 1 .. Len(c)
      BY <1>1
    <3> QED BY <1>1, <3>1
  <2>3. ASSUME NEW i \in 1 .. m - 1 PROVE c[i].op = "match" /\ c[i].else = << >>
    <3>1. CASE i \in 1 .. Len(a)
      BY <1>1, <1>3, <3>1
    <3>2. CASE i \notin 1 .. Len(a)
      <4>1. i - Len(a) \in 1 .. k - 1 /\ i - Len(a) \in 1 .. Len(b) /\ i = Len(a) + (i - Len(a))
        BY <1>1, <3>2
      <4>2. c[i] = b[i - Len(a)]
        BY <1>1, <4>1
      <4> QED BY <2>1, <4>1, <4>2
    <3> QED BY <3>1, <3>2
  <2> HIDE DEF m
  <2> QED BY <2>1, <2>2, <2>3 DEF Certain
<1> QED BY <1>2, <1>3 DEF c

LEMMA Taking ==
  /\ \A K, t : t \in K => Takes(Expect(K), t)
  /\ \A K, a, b, t : t \in K => Takes(Match(K, a, b), t)
  /\ \A t : Takes(Take, t)
  /\ \A bp : \A t \in StatementStarts : Takes(Call("stmt", bp), t)
  /\ \A bp : Takes(Call("block", bp), "{")
BY DEF Takes, Starts, Expect, Match, Take, Call

-----------------------------------------------------------------------------
(* The parse functions: how they are written *)

LEMMA AttrsWritten ==
  /\ Written(parse_attrs)
  /\ parse_attrs.op = "loop" /\ parse_attrs.of = {}
  /\ \E x : /\ parse_attrs.then = <<x>>
            /\ x.op = "check" /\ x.of = {"#"} /\ x.else = <<Break>>
            /\ Certain(x.then, "#") /\ Row(x.then)
<1> DEFINE a == <<Expect({"#"}), Expect({"["}), Expect(Identifier),
                  Opt({"("}, Append(CommaList(<<parse_expr>>), Expect({")"}))), Expect({"]"})>>
           x == Check({"#"}, a, <<Break>>)
<1>1. Row(a)
  BY WrittenSimple, RowTuples, RowThen, Writing
<1>2. Certain(a, "#")
  <2>1. 1 \in 1 .. Len(a) /\ a[1] = Expect({"#"})
    OBVIOUS
  <2> HIDE DEF a
  <2> QED BY <2>1, CertainFirst, Taking
<1>3. parse_attrs = Loop("attrs", {}, <<x>>)
  BY DEF parse_attrs
<1> HIDE DEF a
<1>4. x.op = "check" /\ x.of = {"#"} /\ x.else = <<Break>> /\ x.then = a
  BY DEF Check
<1>5. Guard(x) /\ Written(x)
  BY <1>1, <1>2, Guarding, Writing, RowTuples, WrittenSimple
<1> HIDE DEF x
<1>6. Written(parse_attrs)
  BY <1>3, <1>5, Guarding, Writing, RowTuples
<1>7. parse_attrs.op = "loop" /\ parse_attrs.of = {} /\ parse_attrs.then = <<x>>
  BY <1>3 DEF Loop
<1> QED BY <1>1, <1>2, <1>4, <1>6, <1>7

LEMMA StructLiteralWritten == Row(parser_parse_struct_literal)
BY WrittenSimple, RowTuples, Writing, Guarding DEF parser_parse_struct_literal

LEMMA ArrayLiteralWritten == Row(ArrayLiteral)
BY WrittenSimple, RowTuples, Writing, Guarding DEF ArrayLiteral

LEMMA PrimaryWritten == Row(parser_parse_primary)
BY WrittenSimple, RowTuples, RowThen, Writing, StructLiteralWritten, ArrayLiteralWritten
   DEF parser_parse_primary

LEMMA PrefixWritten == Row(parser_parse_prefix)
BY WrittenSimple, RowTuples, Writing DEF parser_parse_prefix

LEMMA PostfixWritten == Written(parser_parse_postfix)
BY WrittenSimple, RowTuples, Writing, Guarding DEF parser_parse_postfix, Arguments

LEMMA ExprWritten == \A min_bp : Row(parser_parse_expr_bp(min_bp))
BY WrittenSimple, RowTuples, Writing, PostfixWritten DEF parser_parse_expr_bp

LEMMA BlockWritten == Row(parser_parse_block)
<1> DEFINE a == <<Call("stmt", 0), IfNull(<<Break>>)>>
           m == Match(AssignmentOps, <<parse_expr, Expect({";"})>>,
                  <<Match({";"}, << >>, <<Check({"}"}, <<Break>>, <<Error, Break>>)>>)>>)
           b == <<parse_expr, IfNull(<<Break>>), m>>
<1>1. ASSUME NEW t \in StatementStarts PROVE Certain(a, t)
  <2>1. 1 \in 1 .. Len(a) /\ a[1] = Call("stmt", 0)
    OBVIOUS
  <2> HIDE DEF a
  <2> QED BY <2>1, CertainFirst, Taking
<1>2. Row(a)
  BY WrittenSimple, RowTuples, Writing
<1>3. Guard(m) /\ Written(m)
  BY WrittenSimple, RowTuples, Writing, Guarding
<1>4. Row(b) /\ HasGuard(b)
  <2> HIDE DEF m
  <2> QED BY <1>3, WrittenSimple, RowTuples, Writing, Guarding
<1>5. parser_parse_block = <<Match({"{"}, << >>, <<Error, Return("null")>>),
        Loop("block", {"}"}, <<Check(StatementStarts, a, b)>>), Expect({"}"})>>
  BY DEF parser_parse_block
<1> HIDE DEF a, b
<1>6. Guard(Check(StatementStarts, a, b)) /\ Written(Check(StatementStarts, a, b))
  BY <1>1, <1>2, <1>4, Guarding, Writing
<1> QED BY <1>5, <1>6, WrittenSimple, RowTuples, Writing, Guarding

LEMMA VarDeclWritten == Row(VarDecl)
BY WrittenSimple, RowTuples, Writing DEF VarDecl

LEMMA MatchArmsWritten == Written(MatchArms)
<1> DEFINE a == <<Call("pattern", 0), Expect({"=>"}), parse_expr, Opt({","}, << >>)>>
<1>1. Row(a)
  BY WrittenSimple, RowTuples, Writing
<1>2. 2 \in 1 .. Len(a) /\ a[2].op = "expect"
  BY DEF Expect
<1>3. /\ MatchArms.op = "loop" /\ MatchArms.then = a /\ MatchArms.from = -1
      /\ MatchArms.name = "match arms"
  BY DEF MatchArms, Loop
<1> HIDE DEF a
<1>4. Live(MatchArms)
  BY <1>1, <1>2, <1>3 DEF Live, Turns
<1> QED BY <1>3, <1>4, WrittenMade

LEMMA PatternWritten == Row(parser_parse_pattern)
BY WrittenSimple, RowTuples, Writing, Guarding DEF parser_parse_pattern

LEMMA TypeWritten == Row(parser_parse_type)
BY WrittenSimple, RowTuples, Writing, Guarding DEF parser_parse_type

LEMMA ParamWritten == Row(parser_parse_param)
BY WrittenSimple, RowTuples, Writing DEF parser_parse_param, DefaultValue

LEMMA GenericParamsWritten == Row(GenericParams)
BY WrittenSimple, RowTuples, RowThen, Writing DEF GenericParams

LEMMA SignatureWritten == Row(Signature)
BY WrittenSimple, RowTuples, Writing DEF Signature

LEMMA FnWritten == Row(FnRest) /\ Row(parser_parse_fn_decl)
<1>1. Row(FnRest)
  BY WrittenSimple, RowTuples, RowThen, Writing, SignatureWritten DEF FnRest
<1> QED BY <1>1, WrittenSimple, RowTuples, RowThen, Writing DEF parser_parse_fn_decl

LEMMA DeclarationsWritten ==
  /\ Row(parser_parse_struct_decl) /\ Row(parser_parse_enum_decl)
  /\ Row(parser_parse_traits_decl) /\ Row(parser_parse_extend_decl)
  /\ Row(parser_parse_type_alias) /\ Row(parser_parse_test_decl)
<1>1. \A rest : Row(rest) => Written(FnOrSkip(rest)) /\ Guard(FnOrSkip(rest))
  BY WrittenSimple, RowTuples, Writing, Guarding DEF FnOrSkip
<1>2. Row(parser_parse_struct_decl)
  BY WrittenSimple, RowTuples, Writing, Guarding, AttrsWritten
     DEF parser_parse_struct_decl, DefaultValue
<1>3. Row(parser_parse_enum_decl)
  BY WrittenSimple, RowTuples, Writing, Guarding DEF parser_parse_enum_decl, DefaultValue
<1>4. Row(parser_parse_traits_decl)
  BY <1>1, WrittenSimple, RowTuples, RowThen, Writing, Guarding, SignatureWritten
     DEF parser_parse_traits_decl
<1>5. Row(parser_parse_extend_decl)
  BY <1>1, WrittenSimple, RowTuples, Writing, Guarding, AttrsWritten, FnWritten
     DEF parser_parse_extend_decl
<1>6. Row(parser_parse_type_alias) /\ Row(parser_parse_test_decl)
  BY WrittenSimple, RowTuples DEF parser_parse_type_alias, parser_parse_test_decl
<1> QED BY <1>2, <1>3, <1>4, <1>5, <1>6

LEMMA RecoverWritten == Written(Recover)
BY WrittenSimple, RowTuples, Writing DEF Recover

LEMMA ModuleWritten == Row(parser_parse)
<1> DEFINE a == <<Call("top_level_decl", 0), Recover>>
           d == Loop("declarations", {}, a)
           i == Loop("imports", {},
                  <<Match({"import"}, << >>, <<Break>>),
                    Expect(Identifier),
                    Loop("import path", {}, <<Match({"."}, <<Expect(Identifier)>>, <<Break>>)>>),
                    Opt({"as"}, <<Expect(Identifier)>>),
                    Expect({";"})>>)
           m == Opt({"module"}, <<Expect(Identifier), Expect({";"})>>)
<1>1. Row(a)
  BY WrittenSimple, RowTuples, RecoverWritten
<1>2. d.op = "loop" /\ d.then = a /\ d.from = -1
  BY DEF Loop
<1>3. Written(d)
  <2>1. Turns(d)
    BY <1>2 DEF Turns
  <2> HIDE DEF d, a
  <2>2. Live(d)
    BY <1>1, <1>2, <2>1 DEF Live
  <2> QED BY <1>2, <2>2, WrittenMade
<1>4. Written(i) /\ Written(m)
  BY WrittenSimple, RowTuples, Writing, Guarding
<1>5. parser_parse = <<m, i, d>>
  BY DEF parser_parse, Recover
<1> HIDE DEF m, i, d
<1> QED BY <1>3, <1>4, <1>5, RowTuples

\* A statement takes the keyword it is entered with, a block its brace.
LEMMA StmtWritten ==
  /\ Row(parser_parse_stmt)
  /\ \A t \in StatementStarts : Certain(parser_parse_stmt, t)
<1> DEFINE VarPart == Opt({"const", "var"}, Append(VarDecl, Return("node")))
           ReturnPart ==
             Opt({"return"},
                 <<Match({";"}, << >>, <<parse_expr, Expect({";"})>>), Return("node")>>)
           IfPart ==
             Opt({"if"},
               <<parse_expr, parse_block,
                 Opt({"else"}, <<Check({"if"}, <<Call("stmt", 0)>>, <<parse_block>>)>>),
                 Return("node")>>)
           WhilePart == Opt({"while"}, <<parse_expr, parse_block, Return("node")>>)
           ForPart ==
             Opt({"for"},
               <<Expect(Identifier), Expect({":"}), parse_type, Expect({"in"}), parse_expr,
                 parse_block, Return("node")>>)
           JumpPart == Opt({"break", "continue"}, <<Expect({";"}), Return("node")>>)
           DeferPart == Opt({"defer"}, <<parse_expr, Expect({";"}), Return("node")>>)
           ErrPart == Opt({"errdefer"}, <<parse_block, Return("node")>>)
           MatchPart ==
             Opt({"match"},
               <<parse_expr, Expect({"{"}), MatchArms, Expect({"}"}), Return("node")>>)
           Tries(x, K) == x.op = "match" /\ x.of = K /\ x.else = << >> /\ Written(x)
<1>1. \A K, a : Row(a) => Tries(Opt(K, a), K)
  BY Writing DEF Opt, Match
<1> HIDE DEF Tries
<1>2. Tries(VarPart, {"const", "var"}) /\ Tries(ReturnPart, {"return"})
  BY <1>1, WrittenSimple, RowTuples, RowThen, Writing, VarDeclWritten
<1>3. Tries(IfPart, {"if"}) /\ Tries(WhilePart, {"while"}) /\ Tries(ForPart, {"for"})
  BY <1>1, WrittenSimple, RowTuples, Writing
<1>4. /\ Tries(JumpPart, {"break", "continue"}) /\ Tries(DeferPart, {"defer"})
      /\ Tries(ErrPart, {"errdefer"}) /\ Tries(MatchPart, {"match"})
  BY <1>1, WrittenSimple, RowTuples, Writing, MatchArmsWritten
<1>5. parser_parse_stmt = <<VarPart, ReturnPart, IfPart, WhilePart, ForPart, JumpPart, DeferPart,
                            ErrPart, MatchPart, parse_block, Return("same")>>
  BY DEF parser_parse_stmt
<1> HIDE DEF VarPart, ReturnPart, IfPart, WhilePart, ForPart, JumpPart, DeferPart,
             ErrPart, MatchPart
<1>6. /\ Row(<<VarPart, ReturnPart, IfPart, WhilePart, ForPart, JumpPart, DeferPart>>)
      /\ Row(<<ErrPart, MatchPart, parse_block, Return("same")>>)
  BY <1>2, <1>3, <1>4, RowTuples, WrittenSimple DEF Tries
<1>7. parser_parse_stmt = <<VarPart, ReturnPart, IfPart, WhilePart, ForPart, JumpPart, DeferPart>>
                            \o <<ErrPart, MatchPart, parse_block, Return("same")>>
  BY <1>5
<1>8. Row(parser_parse_stmt)
  BY <1>6, <1>7, RowThen
<1> DEFINE s == parser_parse_stmt
<1>9. /\ Len(s) = 11
      /\ s[1] = VarPart /\ s[2] = ReturnPart /\ s[3] = IfPart /\ s[4] = WhilePart
      /\ s[5] = ForPart /\ s[6] = JumpPart /\ s[7] = DeferPart /\ s[8] = ErrPart
      /\ s[9] = MatchPart /\ s[10] = parse_block
  BY <1>5
<1> HIDE DEF s
<1>10. \A i \in 1 .. 9 : s[i].op = "match" /\ s[i].else = << >>
  BY <1>2, <1>3, <1>4, <1>9 DEF Tries
<1>11. Takes(s[10], "{")
  BY <1>9, Taking DEF parse_block
<1>12. ASSUME NEW t \in StatementStarts PROVE \E k \in 1 .. 10 : Takes(s[k], t)
  <2>1. CASE t \in {"const", "var", "return", "if", "while"}
    <3>1. t \in s[1].of \/ t \in s[2].of \/ t \in s[3].of \/ t \in s[4].of
      BY <1>2, <1>3, <1>9, <2>1 DEF Tries
    <3> QED BY <1>10, <3>1 DEF Takes
  <2>2. CASE t \in {"for", "break", "continue", "defer", "errdefer", "match"}
    <3>1. t \in s[5].of \/ t \in s[6].of \/ t \in s[7].of \/ t \in s[8].of \/ t \in s[9].of
      BY <1>3, <1>4, <1>9, <2>2 DEF Tries
    <3> QED BY <1>10, <3>1 DEF Takes
  <2>3. CASE t = "{"
    <3>1. 10 \in 1 .. 10
      OBVIOUS
    <3> QED BY <1>11, <2>3, <3>1
  <2> QED BY <2>1, <2>2, <2>3 DEF StatementStarts
<1>13. ASSUME NEW t \in StatementStarts PROVE Certain(s, t)
  <2>1. PICK k \in 1 .. 10 : Takes(s[k], t)
    BY <1>12
  <2>2. k \in 1 .. Len(s) /\ \A i \in 1 .. k - 1 : i \in 1 .. 9
    BY <1>9
  <2> QED BY <1>10, <2>1, <2>2 DEF Certain
<1> QED BY <1>8, <1>13 DEF s

LEMMA BlockCertain == Certain(parser_parse_block, "{")
<1> DEFINE s == parser_parse_block
<1>1. 1 \in 1 .. Len(s) /\ s[1] = Match({"{"}, << >>, <<Error, Return("null")>>)
  BY DEF parser_parse_block
<1> HIDE DEF s
<1>2. Takes(s[1], "{")
  BY <1>1, Taking
<1>3. Certain(s, "{")
  BY <1>1, <1>2, CertainFirst
<1> QED BY <1>3 DEF s

-----------------------------------------------------------------------------
(* Top level *)

\* A loop over attributes.
IsAttrs(x) == x.op = "loop" /\ x.of = {} /\ x.then = parse_attrs.then

\* x does nothing, or takes a token.
Skips(x) ==
  \/ x.op = "error"
  \/ x.op = "match" /\ x.else = << >>
  \/ x.op = "check" /\ x.else = << >> /\ \A t \in x.of : Certain(x.then, t)
  \/ x.op = "unsafe fn" /\ Certain(x.then, "unsafe")
  \/ IsAttrs(x)

\* A declaration takes the keyword it is entered with; where no declaration starts
\* the function does nothing but return NULL.
LEMMA TopLevelWritten ==
  LET s == parser_parse_top_level_decl
  IN  /\ Row(s)
      /\ Len(s) = 13 /\ s[13] = Return("null")
      /\ \A i \in 1 .. 12 : Skips(s[i])
<1> DEFINE s == parser_parse_top_level_decl
           Node(d) == Append(d, Return("node"))
           UnsafePart == [op |-> "unsafe fn", then |-> Node(parser_parse_fn_decl)]
           VarPart == Opt({"const", "var"}, Node(VarDecl))
           Part(K, d) == When(K, Node(d))
           Fine(x) == Written(x) /\ Skips(x)
<1>1. ASSUME NEW d, Row(d), NEW t, Certain(d, t) PROVE Row(Node(d)) /\ Certain(Node(d), t)
  <2>1. PICK S : d \in Seq(S)
    BY <1>1 DEF Row
  <2> DEFINE U == S \cup {Return("node")}
  <2>2. d \in Seq(U) /\ <<Return("node")>> \in Seq(U) /\ Node(d) = d \o <<Return("node")>>
    BY <2>1
  <2> HIDE DEF U
  <2>3. Certain(d \o <<Return("node")>>, t)
    BY <1>1, <2>2, CertainThen
  <2> QED BY <1>1, <2>2, <2>3, RowThen, WrittenSimple
<1>2. ASSUME NEW K, NEW d, Row(d), \A t \in K : Certain(d, t), K # {} PROVE Fine(Part(K, d))
  <2>1. Row(Node(d)) /\ \A t \in K : Certain(Node(d), t)
    BY <1>1, <1>2
  <2>2. Part(K, d).op = "check" /\ Part(K, d).of = K /\ Part(K, d).then = Node(d)
        /\ Part(K, d).else = << >>
    BY DEF When, Check
  <2>3. Written(Part(K, d))
    BY <2>1, Writing
  <2> HIDE DEF Part, Node
  <2> QED BY <2>1, <2>2, <2>3 DEF Skips
<1>3. ASSUME NEW d, Row(d), 1 \in 1 .. Len(d), d[1] = Take, NEW K, K # {}
      PROVE  Fine(Part(K, d))
  <2>1. \A t \in K : Certain(d, t)
    BY <1>3, CertainFirst, Taking
  <2> HIDE DEF Fine
  <2> QED BY <1>2, <1>3, <2>1
<1>4. /\ Fine(Part({"struct", "union"}, parser_parse_struct_decl))
      /\ Fine(Part({"enum"}, parser_parse_enum_decl))
      /\ Fine(Part({"traits"}, parser_parse_traits_decl))
      /\ Fine(Part({"extend"}, parser_parse_extend_decl))
      /\ Fine(Part({"type"}, parser_parse_type_alias))
      /\ Fine(Part({"test"}, parser_parse_test_decl))
  <2> DEFINE First(d) == 1 \in 1 .. Len(d) /\ d[1] = Take
  <2>1. First(parser_parse_struct_decl)
    BY DEF parser_parse_struct_decl
  <2>2. First(parser_parse_enum_decl)
    BY DEF parser_parse_enum_decl
  <2>3. First(parser_parse_traits_decl)
    BY DEF parser_parse_traits_decl
  <2>4. First(parser_parse_extend_decl)
    BY DEF parser_parse_extend_decl
  <2>5. First(parser_parse_type_alias)
    BY DEF parser_parse_type_alias
  <2>6. First(parser_parse_test_decl)
    BY DEF parser_parse_test_decl
  <2> HIDE DEF Fine, Part
  <2> QED BY <1>3, <2>1, <2>2, <2>3, <2>4, <2>5, <2>6, DeclarationsWritten
<1>5. \A t \in {"fn", "unsafe"} : Certain(parser_parse_fn_decl, t)
  <2> DEFINE a == <<Opt({"comptime"}, << >>), Opt({"unsafe"}, << >>), Expect({"fn"})>>
  <2>1. parser_parse_fn_decl = a \o FnRest
    BY DEF parser_parse_fn_decl
  <2>2. /\ Len(a) = 3 /\ a[1].op = "match" /\ a[1].else = << >>
        /\ a[2].op = "match" /\ a[2].else = << >> /\ a[2].of = {"unsafe"}
        /\ a[3].op = "expect" /\ a[3].of = {"fn"}
    BY DEF Opt, Match, Expect
  <2>3. Row(a)
    BY WrittenSimple, RowTuples, Writing
  <2> HIDE DEF a
  <2>4. Certain(a, "unsafe")
    <3>1. 2 \in 1 .. Len(a) /\ (\A i \in 1 .. 2 - 1 : i = 1) /\ Takes(a[2], "unsafe")
      BY <2>2 DEF Takes
    <3> QED BY <2>2, <3>1 DEF Certain
  <2>5. Certain(a, "fn")
    <3>1. 3 \in 1 .. Len(a) /\ (\A i \in 1 .. 3 - 1 : i = 1 \/ i = 2) /\ Takes(a[3], "fn")
      BY <2>2 DEF Takes
    <3> QED BY <2>2, <3>1 DEF Certain
  <2>6. PICK A : a \in Seq(A)
    BY <2>3 DEF Row
  <2>7. PICK B : FnRest \in Seq(B)
    BY FnWritten DEF Row
  <2>8. a \in Seq(A \cup B) /\ FnRest \in Seq(A \cup B)
    BY <2>6, <2>7
  <2> QED BY <2>1, <2>4, <2>5, <2>8, CertainThen
<1>6. Fine(Part({"fn"}, parser_parse_fn_decl))
  <2>1. \A t \in {"fn"} : Certain(parser_parse_fn_decl, t)
    BY <1>5
  <2> HIDE DEF Fine, Part
  <2> QED BY <1>2, <2>1, FnWritten
<1>7. Fine(UnsafePart)
  <2>1. Row(Node(parser_parse_fn_decl)) /\ Certain(Node(parser_parse_fn_decl), "unsafe")
    BY <1>1, <1>5, FnWritten
  <2>2. UnsafePart.op = "unsafe fn" /\ UnsafePart.then = Node(parser_parse_fn_decl)
    OBVIOUS
  <2>3. Written(UnsafePart)
    BY <2>1, Writing
  <2> HIDE DEF UnsafePart, Node
  <2> QED BY <2>1, <2>2, <2>3 DEF Skips
<1>8. Fine(VarPart) /\ Fine(Opt({"pub"}, << >>))
  <2>1. Written(VarPart) /\ Written(Opt({"pub"}, << >>))
    BY Writing, RowThen, RowTuples, WrittenSimple, VarDeclWritten
  <2>2. \A K, a : Opt(K, a).op = "match" /\ Opt(K, a).else = << >>
    BY DEF Opt, Match
  <2> QED BY <2>1, <2>2 DEF Skips
<1>9. Fine(parse_attrs) /\ Fine(Error)
  <2>1. Skips(parse_attrs) /\ Skips(Error)
    BY AttrsWritten DEF Skips, IsAttrs, Error
  <2> QED BY <2>1, AttrsWritten, WrittenSimple
<1>10. s = <<parse_attrs, Opt({"pub"}, << >>), UnsafePart, Part({"fn"}, parser_parse_fn_decl),
             Part({"struct", "union"}, parser_parse_struct_decl),
             Part({"enum"}, parser_parse_enum_decl),
             Part({"traits"}, parser_parse_traits_decl),
             Part({"extend"}, parser_parse_extend_decl),
             Part({"type"}, parser_parse_type_alias),
             Part({"test"}, parser_parse_test_decl), VarPart, Error, Return("null")>>
  BY DEF parser_parse_top_level_decl
<1> HIDE DEF s, UnsafePart, VarPart, Part, Fine
<1>11. ASSUME NEW a, NEW b, NEW c, NEW d, NEW e, NEW f, NEW g, NEW h, NEW i, NEW j, NEW k, NEW l,
              Fine(a), Fine(b), Fine(c), Fine(d), Fine(e), Fine(f), Fine(g), Fine(h), Fine(i),
              Fine(j), Fine(k), Fine(l),
              s = <<a, b, c, d, e, f, g, h, i, j, k, l, Return("null")>>
       PROVE  Row(s) /\ Len(s) = 13 /\ s[13] = Return("null") /\ \A n \in 1 .. 12 : Skips(s[n])
  <2>1. /\ Len(s) = 13 /\ s[13] = Return("null")
        /\ s = <<a, b, c, d, e, f, g>> \o <<h, i, j, k, l, Return("null")>>
    BY <1>11
  <2>2. Row(<<a, b, c, d, e, f, g>>) /\ Row(<<h, i, j, k, l, Return("null")>>)
    BY <1>11, RowTuples, WrittenSimple DEF Fine
  <2>3. Row(s)
    BY <2>1, <2>2, RowThen
  <2>4. /\ s[1] = a /\ s[2] = b /\ s[3] = c /\ s[4] = d /\ s[5] = e /\ s[6] = f /\ s[7] = g
        /\ s[8] = h /\ s[9] = i /\ s[10] = j /\ s[11] = k /\ s[12] = l
    BY <1>11
  <2>5. \A n \in 1 .. 12 : Skips(s[n])
    BY <1>11, <2>4 DEF Fine
  <2> QED BY <2>1, <2>3, <2>5
<1>12. Row(s) /\ Len(s) = 13 /\ s[13] = Return("null") /\ \A n \in 1 .. 12 : Skips(s[n])
  BY <1>4, <1>6, <1>7, <1>8, <1>9, <1>10, <1>11
<1> QED BY <1>12 DEF s

LEMMA BodiesWritten ==
  /\ \A f \in Functions : \A bp : Row(Body(f, bp))
  /\ \A f \in Functions : \A bp : \A t \in Starts(f) : Certain(Body(f, bp), t)
<1>1. \A f \in Functions : \A bp : Row(Body(f, bp))
  BY ExprWritten, PrefixWritten, PrimaryWritten, BlockWritten, StmtWritten, PatternWritten,
     TypeWritten, ParamWritten, TopLevelWritten
     DEF Body, Functions
<1>2. \A f \in Functions : \A bp : \A t \in Starts(f) : Certain(Body(f, bp), t)
  <2>1. \A bp : Body("stmt", bp) = parser_parse_stmt /\ Body("block", bp) = parser_parse_block
    BY DEF Body
  <2> QED BY <2>1, StmtWritten, BlockCertain DEF Starts
<1> QED BY <1>1, <1>2

-----------------------------------------------------------------------------
(* What is to be done, seen from a loop *)

\* Nothing between k and j ends a function or is a loop in a turn.
Clean(s, k, j) == \A i \in k + 1 .. j - 1 : s[i].op # "end" /\ ~Running(s[i])

\* In front of the loop at j stands what makes sure that its turn moves on.
Sees(s, k, j) == Guard(s[k]) \/ (s[j].name = "match arms" /\ s[k].op = "expect")
Guarded(s, j) == \E k \in 1 .. j - 1 : Sees(s, k, j) /\ Clean(s, k, j)

\* From m on a declaration is looked for, and the loop over the declarations is at j.
TopFrom(s, j, m) ==
  \E n \in m .. j - 3 :
    /\ s[n] = Return("null") /\ s[j - 2].op = "end" /\ s[j - 1] = Recover
    /\ \A i \in m .. j - 3 : s[i].op # "end"
    /\ \A i \in m .. n - 1 : Skips(s[i])

AttrsCheck == parse_attrs.then[1]
AtTop(s, j, r) ==
  \/ j = 3 /\ s[1] = Call("top_level_decl", 0) /\ s[2] = Recover
  \/ TopFrom(s, j, 1)
  \/ s[1] \in {AttrsCheck, Break} /\ Running(s[2]) /\ IsAttrs(s[2]) /\ TopFrom(s, j, 3)
  \/ j = 2 /\ s[1] = Recover /\ r = "null"

\* Before the loop at j comes to its next turn a token is taken, or it is left.
Goes(s, j, t, r) == Certain(s, t) \/ Guarded(s, j) \/ AtTop(s, j, r)

\* A loop whose turn began at the token that is next goes on, or is that over the arms
\* of a match after an error.
Moving ==
  /\ \A i \in 1 .. Len(todo) : Live(todo[i])
  /\ \A j \in 1 .. Len(todo) : Running(todo[j]) =>
       /\ todo[j].from \in 0 .. pos
       /\ todo[j].from = pos /\ parser_current # "eof" =>
            \/ Goes(todo, j, parser_current, ret)
            \/ todo[j].name = "match arms" /\ had_error

LEMMA RowClean ==
  ASSUME NEW a, Row(a)
  PROVE  /\ \E T : a \in Seq(T)
         /\ \A i \in 1 .. Len(a) : Live(a[i]) /\ a[i].op # "end" /\ ~Running(a[i])
<1>1. PICK S : a \in Seq(S) /\ \A y \in S : Written(y)
  BY DEF Row
<1>2. \A i \in 1 .. Len(a) : Written(a[i])
  BY <1>1
<1>3. \A i \in 1 .. Len(a) : Live(a[i]) /\ a[i].op # "end" /\ (a[i].op = "loop" => a[i].from = -1)
  BY <1>2, WrittenParts
<1> QED BY <1>1, <1>3 DEF Running

LEMMA ConcatAt ==
  ASSUME NEW S, NEW a \in Seq(S), NEW b \in Seq(S)
  PROVE  /\ Len(a) \in Nat /\ Len(a \o b) = Len(a) + Len(b) /\ a \o b \in Seq(S)
         /\ \A i \in 1 .. Len(a) : (a \o b)[i] = a[i]
         /\ \A i \in 1 .. Len(b) : (a \o b)[Len(a) + i] = b[i]
OBVIOUS

LEMMA ThenAt ==
  ASSUME NEW T, NEW s \in Seq(T), s # << >>, NEW U, NEW a \in Seq(U), NEW r, r = a \o Tail(s)
  PROVE  /\ Len(s) \in Nat /\ Len(s) >= 1 /\ Len(a) \in Nat /\ Len(r) = Len(a) + Len(s) - 1
         /\ r \in Seq(T \cup U) /\ Head(s) = s[1]
         /\ \A i \in 1 .. Len(a) : r[i] = a[i]
         /\ \A i \in 2 .. Len(s) : r[Len(a) + i - 1] = s[i]
<1> DEFINE t == Tail(s)
<1>1. /\ t \in Seq(T) /\ Len(s) \in Nat /\ Len(t) = Len(s) - 1 /\ Len(s) >= 1 /\ Len(t) \in Nat
      /\ \A i \in 1 .. Len(t) : t[i] = s[i + 1]
      /\ Head(s) = s[1]
  OBVIOUS
<1> HIDE DEF t
<1>2. r = a \o t
  BY DEF t
<1>3. a \in Seq(T \cup U) /\ t \in Seq(T \cup U)
  BY <1>1
<1>4. /\ Len(a) \in Nat /\ Len(r) = Len(a) + Len(t) /\ r \in Seq(T \cup U)
      /\ \A i \in 1 .. Len(a) : r[i] = a[i]
      /\ \A i \in 1 .. Len(t) : r[Len(a) + i] = t[i]
  <2>1. /\ Len(a) \in Nat /\ Len(a \o t) = Len(a) + Len(t) /\ a \o t \in Seq(T \cup U)
        /\ \A i \in 1 .. Len(a) : (a \o t)[i] = a[i]
        /\ \A i \in 1 .. Len(t) : (a \o t)[Len(a) + i] = t[i]
    BY <1>3, ConcatAt
  <2> QED BY <1>2, <2>1, Zenon
<1>5. ASSUME NEW i \in 2 .. Len(s) PROVE r[Len(a) + i - 1] = s[i]
  <2>1. i - 1 \in 1 .. Len(t) /\ Len(a) + i - 1 = Len(a) + (i - 1) /\ (i - 1) + 1 = i
    BY <1>1, <1>4
  <2> QED BY <1>1, <1>4, <2>1
<1> QED BY <1>1, <1>4, <1>5

\* The guard of a loop stays where it is when something in front of it is done.
LEMMA GuardedShift ==
  ASSUME NEW s, NEW r, NEW j \in Nat, NEW k \in 1 .. j - 1, NEW d \in Int, k + d >= 1,
         Sees(s, k, j), Clean(s, k, j), \A i \in k .. j : r[i + d] = s[i]
  PROVE  Guarded(r, j + d)
<1>1. k + d \in 1 .. (j + d) - 1
  OBVIOUS
<1>2. Sees(r, k + d, j + d)
  <2>1. r[k + d] = s[k] /\ r[j + d] = s[j]
    OBVIOUS
  <2> QED BY <2>1 DEF Sees
<1>3. ASSUME NEW i \in (k + d) + 1 .. (j + d) - 1 PROVE r[i].op # "end" /\ ~Running(r[i])
  <2>1. i - d \in k + 1 .. j - 1 /\ i - d \in k .. j /\ (i - d) + d = i
    OBVIOUS
  <2>2. r[i] = s[i - d]
    BY <2>1
  <2> QED BY <2>1, <2>2 DEF Clean
<1> QED BY <1>1, <1>2, <1>3 DEF Guarded, Clean

\* What stands at the front is replaced by something with a guard.
LEMMA GuardedParts ==
  ASSUME NEW s, NEW r, NEW a, NEW j \in Nat, j > 1, Len(a) \in Nat,
         Clean(s, 1, j), HasGuard(a),
         \A i \in 1 .. Len(a) : a[i].op # "end" /\ ~Running(a[i]),
         \A i \in 1 .. Len(a) : r[i] = a[i],
         \A i \in 2 .. j : r[Len(a) + i - 1] = s[i]
  PROVE  Guarded(r, Len(a) + j - 1)
<1>1. PICK k \in 1 .. Len(a) : Guard(a[k])
  BY DEF HasGuard
<1> DEFINE jj == Len(a) + j - 1
<1>2. k \in 1 .. jj - 1
  OBVIOUS
<1>3. Sees(r, k, jj)
  <2>1. r[k] = a[k]
    OBVIOUS
  <2> QED BY <1>1, <2>1 DEF Sees
<1>4. ASSUME NEW i \in k + 1 .. jj - 1 PROVE r[i].op # "end" /\ ~Running(r[i])
  <2>1. CASE i <= Len(a)
    <3>1. i \in 1 .. Len(a)
      BY <2>1
    <3> QED BY <3>1
  <2>2. CASE i > Len(a)
    <3>1. /\ i - Len(a) + 1 \in 1 + 1 .. j - 1 /\ i - Len(a) + 1 \in 2 .. j
          /\ Len(a) + (i - Len(a) + 1) - 1 = i
      BY <2>2
    <3>2. r[i] = s[i - Len(a) + 1]
      BY <3>1
    <3> QED BY <3>1, <3>2 DEF Clean
  <2> QED BY <2>1, <2>2
<1> HIDE DEF jj
<1>5. Guarded(r, jj)
  BY <1>2, <1>3, <1>4 DEF Guarded, Clean
<1> QED BY <1>5 DEF jj

LEMMA TopShift ==
  ASSUME NEW s, NEW r, NEW j \in Nat, NEW m \in Nat, NEW d \in Int, TopFrom(s, j, m),
         \A i \in m .. j : r[i + d] = s[i]
  PROVE  TopFrom(r, j + d, m + d)
<1>1. PICK n \in m .. j - 3 : /\ s[n] = Return("null") /\ s[j - 2].op = "end" /\ s[j - 1] = Recover
                              /\ \A i \in m .. j - 3 : s[i].op # "end"
                              /\ \A i \in m .. n - 1 : Skips(s[i])
  BY DEF TopFrom
<1>2. n + d \in m + d .. (j + d) - 3
  OBVIOUS
<1>3. r[n + d] = s[n] /\ r[(j + d) - 2] = s[j - 2] /\ r[(j + d) - 1] = s[j - 1]
  <2>1. n \in m .. j /\ j - 2 \in m .. j /\ j - 1 \in m .. j
    OBVIOUS
  <2>2. (j + d) - 2 = (j - 2) + d /\ (j + d) - 1 = (j - 1) + d
    OBVIOUS
  <2> QED BY <2>1, <2>2
<1>4. ASSUME NEW i \in m + d .. (j + d) - 3 PROVE i - d \in m .. j - 3 /\ r[i] = s[i - d]
  <2>1. i - d \in m .. j - 3 /\ i - d \in m .. j /\ (i - d) + d = i
    OBVIOUS
  <2> QED BY <2>1
<1>5. \A i \in m + d .. (j + d) - 3 : r[i].op # "end"
  BY <1>1, <1>4
<1>6. ASSUME NEW i \in m + d .. (n + d) - 1 PROVE Skips(r[i])
  <2>1. i \in m + d .. (j + d) - 3 /\ i - d \in m .. n - 1
    OBVIOUS
  <2> QED BY <1>1, <1>4, <2>1
<1> QED BY <1>1, <1>2, <1>3, <1>5, <1>6 DEF TopFrom

\* The first thing of a row at the top.
LEMMA TopFirst ==
  ASSUME NEW s, NEW j \in Nat, NEW m \in Nat, TopFrom(s, j, m)
  PROVE  /\ j >= m + 3 /\ s[j - 2].op = "end" /\ s[j - 1] = Recover
         /\ \A i \in m .. j - 3 : s[i].op # "end"
         /\ \/ s[m] = Return("null")
            \/ Skips(s[m]) /\ TopFrom(s, j, m + 1)
<1>1. PICK n \in m .. j - 3 : /\ s[n] = Return("null") /\ s[j - 2].op = "end" /\ s[j - 1] = Recover
                              /\ \A i \in m .. j - 3 : s[i].op # "end"
                              /\ \A i \in m .. n - 1 : Skips(s[i])
  BY DEF TopFrom
<1>2. j >= m + 3
  OBVIOUS
<1>3. CASE n = m
  BY <1>1, <1>2, <1>3
<1>4. CASE n # m
  <2>1. /\ n \in m + 1 .. j - 3 /\ m \in m .. n - 1
        /\ \A i \in m + 1 .. j - 3 : i \in m .. j - 3
        /\ \A i \in m + 1 .. n - 1 : i \in m .. n - 1
    BY <1>4
  <2>2. Skips(s[m]) /\ TopFrom(s, j, m + 1)
    BY <1>1, <2>1 DEF TopFrom
  <2> QED BY <1>1, <1>2, <2>2
<1> QED BY <1>3, <1>4

LEMMA CertainHead ==
  ASSUME NEW T, NEW s \in Seq(T), NEW t, Certain(s, t)
  PROVE  /\ s # << >>
         /\ \/ Takes(s[1], t)
            \/ s[1].op = "match" /\ s[1].else = << >> /\ Certain(Tail(s), t)
<1>1. PICK k \in 1 .. Len(s) : /\ \A i \in 1 .. k - 1 : s[i].op = "match" /\ s[i].else = << >>
                               /\ Takes(s[k], t)
  BY DEF Certain
<1>2. s # << >>
  BY <1>1
<1>3. CASE k = 1
  BY <1>1, <1>2, <1>3
<1>4. CASE k # 1
  <2> DEFINE r == Tail(s)
             m == k - 1
  <2>1. /\ Len(s) \in Nat /\ Len(r) = Len(s) - 1 /\ \A i \in 1 .. Len(r) : r[i] = s[i + 1]
    BY <1>2
  <2> HIDE DEF r
  <2>2. 1 \in 1 .. k - 1 /\ m \in 1 .. Len(r) /\ k = m + 1
    BY <1>4, <2>1
  <2>3. ASSUME NEW i \in 1 .. m - 1 PROVE r[i].op = "match" /\ r[i].else = << >>
    <3>1. i \in 1 .. Len(r) /\ i + 1 \in 1 .. k - 1
      BY <2>1, <2>2
    <3> QED BY <1>1, <2>1, <3>1
  <2>4. Takes(r[m], t)
    <3> HIDE DEF m
    <3>1. r[m] = s[m + 1]
      BY <2>1, <2>2
    <3> QED BY <1>1, <2>2, <3>1
  <2> HIDE DEF m
  <2>5. Certain(r, t)
    BY <2>2, <2>3, <2>4 DEF Certain
  <2> QED BY <1>1, <1>2, <2>2, <2>5 DEF r
<1> QED BY <1>3, <1>4

LEMMA TopHead ==
  ASSUME NEW s, NEW j \in Nat, NEW q, AtTop(s, j, q)
  PROVE  \/ s[1].op = "call" /\ j = 3 /\ s[1] = Call("top_level_decl", 0) /\ s[2] = Recover
         \/ s[1].op = "ifnull" /\ j = 2 /\ s[1] = Recover /\ q = "null"
         \/ s[1].op = "return" /\ s[1] = Return("null") /\ TopFrom(s, j, 1)
         \/ /\ s[1].op \in {"error", "match", "check", "unsafe fn", "loop"}
            /\ Skips(s[1]) /\ TopFrom(s, j, 2)
         \/ /\ s[1].op = "check" /\ s[1] = AttrsCheck
            /\ Running(s[2]) /\ IsAttrs(s[2]) /\ TopFrom(s, j, 3)
         \/ s[1].op = "break" /\ Running(s[2]) /\ IsAttrs(s[2]) /\ TopFrom(s, j, 3)
<1>1. CASE j = 3 /\ s[1] = Call("top_level_decl", 0) /\ s[2] = Recover
  BY <1>1 DEF Call
<1>2. CASE TopFrom(s, j, 1)
  <2>1. s[1] = Return("null") \/ (Skips(s[1]) /\ TopFrom(s, j, 2))
    BY <1>2, TopFirst
  <2>2. CASE s[1] = Return("null")
    BY <1>2, <2>2 DEF Return
  <2>3. CASE Skips(s[1]) /\ TopFrom(s, j, 2)
    <3>1. s[1].op \in {"error", "match", "check", "unsafe fn", "loop"}
      BY <2>3 DEF Skips, IsAttrs
    <3> QED BY <2>3, <3>1
  <2> QED BY <2>1, <2>2, <2>3
<1>3. CASE s[1] \in {AttrsCheck, Break} /\ Running(s[2]) /\ IsAttrs(s[2]) /\ TopFrom(s, j, 3)
  <2>1. AttrsCheck.op = "check" /\ Break.op = "break"
    BY AttrsWritten DEF AttrsCheck, Break
  <2> QED BY <1>3, <2>1
<1>4. CASE j = 2 /\ s[1] = Recover /\ q = "null"
  BY <1>4 DEF Recover, IfNull
<1> QED BY <1>1, <1>2, <1>3, <1>4 DEF AtTop

\* What stands at the front is done, and a stands there instead.
LEMMA Passes ==
  ASSUME NEW T, NEW s \in Seq(T), s # << >>, NEW U, NEW a \in Seq(U), NEW r, r = a \o Tail(s),
         NEW t, NEW q, NEW p, NEW j \in 2 .. Len(s), Goes(s, j, t, q),
         Certain(s, t) => Certain(r, t),
         Guard(s[1]) => Certain(r, t) \/ (Row(a) /\ HasGuard(a)),
         AtTop(s, j, q) => Goes(r, Len(a) + j - 1, t, p)
  PROVE  \/ Goes(r, Len(a) + j - 1, t, p)
         \/ s[1].op = "expect" /\ s[j].name = "match arms"
<1>1. /\ Len(s) \in Nat /\ Len(s) >= 1 /\ Len(a) \in Nat
      /\ \A i \in 1 .. Len(a) : r[i] = a[i]
      /\ \A i \in 2 .. Len(s) : r[Len(a) + i - 1] = s[i]
  BY ThenAt
<1>2. CASE Guarded(s, j)
  <2>1. PICK k \in 1 .. j - 1 : Sees(s, k, j) /\ Clean(s, k, j)
    BY <1>2 DEF Guarded
  <2>2. CASE k = 1
    <3>1. CASE Row(a) /\ HasGuard(a)
      <4>1. \A i \in 1 .. Len(a) : a[i].op # "end" /\ ~Running(a[i])
        BY <3>1, RowClean
      <4>2. j \in Nat /\ j > 1 /\ \A i \in 2 .. j : r[Len(a) + i - 1] = s[i]
        BY <1>1
      <4>3. Guarded(r, Len(a) + j - 1)
        BY <1>1, <2>1, <2>2, <3>1, <4>1, <4>2, GuardedParts
      <4> QED BY <4>3 DEF Goes
    <3>2. CASE Certain(r, t)
      BY <3>2 DEF Goes
    <3> QED BY <2>1, <2>2, <3>1, <3>2 DEF Sees
  <2>3. CASE k # 1
    <3> DEFINE d == Len(a) - 1
    <3>1. /\ d \in Int /\ k + d >= 1 /\ j \in Nat /\ j + d = Len(a) + j - 1
          /\ \A i \in k .. j : i \in 2 .. Len(s) /\ i + d = Len(a) + i - 1
      BY <1>1, <2>3
    <3> HIDE DEF d
    <3>2. \A i \in k .. j : r[i + d] = s[i]
      BY <1>1, <3>1
    <3>3. Guarded(r, j + d)
      BY <2>1, <3>1, <3>2, GuardedShift
    <3> QED BY <3>1, <3>3 DEF Goes
  <2> QED BY <2>2, <2>3
<1>3. CASE Certain(s, t)
  BY <1>3 DEF Goes
<1>4. CASE AtTop(s, j, q)
  BY <1>4
<1> QED BY <1>2, <1>3, <1>4 DEF Goes

\* The first thing at the top does nothing.
LEMMA TopSkipped ==
  ASSUME NEW T, NEW s \in Seq(T), s # << >>, NEW r, r = << >> \o Tail(s), NEW t, NEW p,
         NEW j \in 2 .. Len(s), TopFrom(s, j, 2)
  PROVE  Goes(r, Len(<< >>) + j - 1, t, p)
<1>1. << >> \in Seq({})
  OBVIOUS
<1>2. /\ Len(s) \in Nat /\ Len(<< >>) = 0
      /\ \A i \in 2 .. Len(s) : r[Len(<< >>) + i - 1] = s[i]
  BY <1>1, ThenAt
<1>3. /\ j \in Nat /\ -1 \in Int /\ j + (-1) = Len(<< >>) + j - 1 /\ 2 + (-1) = 1
      /\ \A i \in 2 .. j : i \in 2 .. Len(s) /\ i + (-1) = Len(<< >>) + i - 1
  BY <1>2
<1>4. \A i \in 2 .. j : r[i + (-1)] = s[i]
  BY <1>2, <1>3
<1>5. TopFrom(r, j + (-1), 2 + (-1))
  BY <1>3, <1>4, TopShift
<1> QED BY <1>3, <1>5 DEF Goes, AtTop

\* The parts of a thing at the front are certain to take a token.
LEMMA CertainFront ==
  ASSUME NEW T, NEW s \in Seq(T), s # << >>, NEW a, Row(a), NEW t, Certain(a, t)
  PROVE  Certain(a \o Tail(s), t)
<1>1. PICK S : a \in Seq(S)
  BY DEF Row
<1>2. Tail(s) \in Seq(T)
  OBVIOUS
<1>3. a \in Seq(S \cup T) /\ Tail(s) \in Seq(S \cup T)
  BY <1>1, <1>2
<1> QED BY <1>3, CertainThen

-----------------------------------------------------------------------------
(* The steps, seen from a loop *)

\* A token is taken.
LEMMA MovesAdvance ==
  ASSUME NEW T, todo \in Seq(T), todo # << >>, Moving, pos \in Nat,
         NEW a, Row(a), todo' = a \o Tail(todo), pos' = pos + 1
  PROVE  Moving'
<1>1. PICK U : a \in Seq(U)
  BY DEF Row
<1>2. \A i \in 1 .. Len(a) : Live(a[i]) /\ ~Running(a[i])
  BY RowClean
<1>3. /\ Len(todo) \in Nat /\ Len(todo) >= 1 /\ Len(a) \in Nat
      /\ Len(todo') = Len(a) + Len(todo) - 1
      /\ \A i \in 1 .. Len(a) : todo'[i] = a[i]
      /\ \A i \in 2 .. Len(todo) : todo'[Len(a) + i - 1] = todo[i]
  BY <1>1, ThenAt
<1>4. ASSUME NEW i \in 1 .. Len(todo')
      PROVE  /\ Live(todo'[i])
             /\ Running(todo'[i]) => todo'[i].from \in 0 .. pos
  <2>1. CASE i \in 1 .. Len(a)
    BY <1>2, <1>3, <2>1
  <2>2. CASE i \notin 1 .. Len(a)
    <3>1. /\ i - Len(a) + 1 \in 2 .. Len(todo) /\ i - Len(a) + 1 \in 1 .. Len(todo)
          /\ Len(a) + (i - Len(a) + 1) - 1 = i
      BY <1>3, <2>2
    <3>2. todo'[i] = todo[i - Len(a) + 1]
      BY <1>3, <3>1
    <3> QED BY <3>1, <3>2 DEF Moving
  <2> QED BY <2>1, <2>2
<1>5. \A i \in 1 .. Len(todo') : Running(todo'[i]) =>
        todo'[i].from \in 0 .. pos' /\ todo'[i].from # pos'
  BY <1>4
<1> QED BY <1>4, <1>5 DEF Moving, Running

\* What a step without a token does for a loop it starts, for those behind, and for
\* those behind what it leaves.
KeepsError == had_error => had_error'
Starting(a) ==
  \A i \in 1 .. Len(a) :
    /\ Live(a[i])
    /\ Running(a[i]) => /\ a[i].from = pos
                        /\ parser_current # "eof" => Goes(todo', i, parser_current, ret')
Passing(a) ==
  \A j \in 2 .. Len(todo) :
    Running(todo[j]) /\ parser_current # "eof" /\ Goes(todo, j, parser_current, ret) =>
      \/ Goes(todo', Len(a) + j - 1, parser_current, ret')
      \/ todo[j].name = "match arms" /\ had_error'
Leaving(n) ==
  \A j \in n + 1 .. Len(todo) :
    AtTop(todo, j, ret) => Goes(todo', j - n, parser_current, ret')

LEMMA MovesThen ==
  ASSUME NEW T, todo \in Seq(T), todo # << >>, Moving, pos \in Nat,
         NEW U, NEW a \in Seq(U), todo' = a \o Tail(todo),
         pos' = pos, tokens' = tokens, KeepsError, Starting(a), Passing(a)
  PROVE  Moving'
<1> DEFINE Stays(i) ==
             /\ Live(todo'[i])
             /\ Running(todo'[i]) =>
                  /\ todo'[i].from \in 0 .. pos
                  /\ todo'[i].from = pos /\ parser_current # "eof" =>
                       \/ Goes(todo', i, parser_current, ret')
                       \/ todo'[i].name = "match arms" /\ had_error'
<1> HIDE DEF Stays
<1>1. /\ Len(todo) \in Nat /\ Len(todo) >= 1 /\ Len(a) \in Nat
      /\ Len(todo') = Len(a) + Len(todo) - 1
      /\ \A i \in 1 .. Len(a) : todo'[i] = a[i]
      /\ \A i \in 2 .. Len(todo) : todo'[Len(a) + i - 1] = todo[i]
  BY ThenAt
<1>2. ASSUME NEW i \in 1 .. Len(todo') PROVE Stays(i)
  <2>1. CASE i \in 1 .. Len(a)
    <3>1. todo'[i] = a[i] /\ (a[i].from = pos => a[i].from \in 0 .. pos)
      BY <1>1, <2>1
    <3>2. /\ Live(a[i])
          /\ Running(a[i]) => /\ a[i].from = pos
                              /\ parser_current # "eof" => Goes(todo', i, parser_current, ret')
      BY <2>1 DEF Starting
    <3> QED BY <3>1, <3>2, Zenon DEF Stays
  <2>2. CASE i \notin 1 .. Len(a)
    <3> DEFINE j == i - Len(a) + 1
    <3>1. j \in 2 .. Len(todo) /\ j \in 1 .. Len(todo) /\ Len(a) + j - 1 = i
      BY <1>1, <2>2
    <3> HIDE DEF j
    <3>2. todo'[i] = todo[j]
      BY <1>1, <3>1
    <3>3. /\ Live(todo[j])
          /\ Running(todo[j]) =>
               /\ todo[j].from \in 0 .. pos
               /\ todo[j].from = pos /\ parser_current # "eof" =>
                    \/ Goes(todo, j, parser_current, ret)
                    \/ todo[j].name = "match arms" /\ had_error
      BY <3>1 DEF Moving
    <3>4. Running(todo[j]) /\ parser_current # "eof" /\ Goes(todo, j, parser_current, ret) =>
            \/ Goes(todo', i, parser_current, ret')
            \/ todo[j].name = "match arms" /\ had_error'
      BY <3>1, Zenon DEF Passing
    <3> QED BY <3>2, <3>3, <3>4, Zenon DEF Stays, KeepsError
  <2> QED BY <2>1, <2>2
<1>3. parser_current' = parser_current
  BY DEF parser_current, parser_peek
<1>4. \A i \in 1 .. Len(todo') : Stays(i)
  BY <1>2
<1> QED BY <1>3, <1>4, Zenon DEF Moving, Stays, Running

\* A loop or a function is left.
LEMMA MovesBehind ==
  ASSUME NEW T, todo \in Seq(T), Moving, pos \in Nat,
         NEW n \in 1 .. Len(todo), todo' = SubSeq(todo, n + 1, Len(todo)),
         pos' = pos, tokens' = tokens, KeepsError,
         todo[n].op = "end" \/ Running(todo[n]),
         ~Certain(todo, parser_current), Leaving(n)
  PROVE  Moving'
<1> DEFINE Stays(i) ==
             /\ Live(todo'[i])
             /\ Running(todo'[i]) =>
                  /\ todo'[i].from \in 0 .. pos
                  /\ todo'[i].from = pos /\ parser_current # "eof" =>
                       \/ Goes(todo', i, parser_current, ret')
                       \/ todo'[i].name = "match arms" /\ had_error'
<1> HIDE DEF Stays
<1>1. /\ Len(todo) \in Nat /\ Len(todo') = Len(todo) - n
      /\ \A i \in 1 .. Len(todo') : todo'[i] = todo[n + i]
  OBVIOUS
<1>2. ASSUME NEW j \in n + 1 .. Len(todo), Guarded(todo, j) PROVE Guarded(todo', j - n)
  <2>1. PICK k \in 1 .. j - 1 : Sees(todo, k, j) /\ Clean(todo, k, j)
    BY <1>2 DEF Guarded
  <2>2. k > n
    <3>1. CASE k = n
      <4>1. Guard(todo[n]) => todo[n].op \in {"break", "take", "match", "check"}
        BY GuardParts DEF Guards
      <4> QED BY <2>1, <3>1, <4>1 DEF Sees, Running
    <3>2. CASE k < n
      <4>1. n \in k + 1 .. j - 1
        BY <3>2
      <4> QED BY <2>1, <4>1 DEF Clean
    <3> QED BY <3>1, <3>2
  <2>3. /\ j \in Nat /\ 0 - n \in Int /\ k + (0 - n) >= 1 /\ j + (0 - n) = j - n
        /\ \A i \in k .. j : i + (0 - n) \in 1 .. Len(todo') /\ n + (i + (0 - n)) = i
    BY <1>1, <2>2
  <2>4. \A i \in k .. j : todo'[i + (0 - n)] = todo[i]
    BY <1>1, <2>3
  <2>5. Guarded(todo', j + (0 - n))
    BY <2>1, <2>3, <2>4, GuardedShift
  <2> QED BY <2>3, <2>5
<1>3. ASSUME NEW i \in 1 .. Len(todo') PROVE Stays(i)
  <2> DEFINE j == n + i
  <2>1. j \in n + 1 .. Len(todo) /\ j \in 1 .. Len(todo) /\ j - n = i
    BY <1>1
  <2>2. todo'[i] = todo[j]
    BY <1>1
  <2> HIDE DEF j
  <2>3. /\ Live(todo[j])
        /\ Running(todo[j]) =>
             /\ todo[j].from \in 0 .. pos
             /\ todo[j].from = pos /\ parser_current # "eof" =>
                  \/ Goes(todo, j, parser_current, ret)
                  \/ todo[j].name = "match arms" /\ had_error
    BY <2>1 DEF Moving
  <2>4. Goes(todo, j, parser_current, ret) => Goes(todo', i, parser_current, ret')
    BY <1>2, <2>1 DEF Goes, Leaving
  <2> QED BY <2>2, <2>3, <2>4, Zenon DEF Stays, KeepsError
<1>4. parser_current' = parser_current
  BY DEF parser_current, parser_peek
<1>5. \A i \in 1 .. Len(todo') : Stays(i)
  BY <1>3
<1> QED BY <1>4, <1>5, Zenon DEF Moving, Stays, Running

Topping(a) ==
  \A j \in 2 .. Len(todo) :
    parser_current # "eof" /\ AtTop(todo, j, ret)
      => Goes(todo', Len(a) + j - 1, parser_current, ret')
Expecting == todo[1].op = "expect" => had_error'

LEMMA MovesRow ==
  ASSUME NEW T, todo \in Seq(T), todo # << >>, Moving, pos \in Nat,
         NEW a, Row(a), todo' = a \o Tail(todo),
         pos' = pos, tokens' = tokens, KeepsError, Expecting, Topping(a),
         Certain(todo, parser_current) => Certain(todo', parser_current),
         parser_current # "eof" /\ Guard(todo[1]) => Certain(todo', parser_current) \/ HasGuard(a)
  PROVE  Moving'
<1>1. PICK U : a \in Seq(U)
  BY DEF Row
<1>2. Starting(a)
  BY RowClean DEF Starting
<1>3. ASSUME NEW j \in 2 .. Len(todo), parser_current # "eof", Goes(todo, j, parser_current, ret)
      PROVE  \/ Goes(todo', Len(a) + j - 1, parser_current, ret')
             \/ todo[1].op = "expect" /\ todo[j].name = "match arms"
  <2>1. AtTop(todo, j, ret) => Goes(todo', Len(a) + j - 1, parser_current, ret')
    BY <1>3 DEF Topping
  <2>2. Guard(todo[1]) => Certain(todo', parser_current) \/ (Row(a) /\ HasGuard(a))
    BY <1>3
  <2> QED BY <1>1, <1>3, <2>1, <2>2, Passes
<1>4. Passing(a)
  BY <1>3, Zenon DEF Passing, Expecting
<1> QED BY <1>1, <1>2, <1>4, MovesThen

\* A thing that is neither certain to take a token nor a guard is done.
LEMMA MovesPlain ==
  ASSUME NEW T, todo \in Seq(T), todo # << >>, Moving, pos \in Nat,
         NEW a, Row(a), todo' = a \o Tail(todo),
         pos' = pos, tokens' = tokens, KeepsError, Expecting, Topping(a),
         todo[1].op \notin {"take", "match", "check", "break", "call"},
         todo[1].op = "expect" => parser_current \notin todo[1].of
  PROVE  Moving'
<1>1. ~Certain(todo, parser_current)
  BY CertainHead DEF Takes
<1>2. ~Guard(todo[1])
  BY GuardParts DEF Guards
<1> QED BY <1>1, <1>2, MovesRow

LEMMA LoopAgain ==
  ASSUME NEW x, Thing(x), x.op = "loop", NEW p
  PROVE  LET y == [x EXCEPT !.from = p]
         IN  y.op = "loop" /\ y.name = x.name /\ y.of = x.of /\ y.then = x.then /\ y.from = p
<1>1. PICK S : Shape(x, S)
  BY ThingParts
<1>2. PICK name, K, a, from : x = [Loop(name, K, a) EXCEPT !.from = from]
  <2>1. ~Simple(x)
    BY DEF Simple, Expect, Break, Error, End, parse_generic_params, Call, Return, Infix
  <2>2. \A K, a, b : x # Match(K, a, b) /\ x # Check(K, a, b)
    BY DEF Match, Check
  <2>3. (\A K, a : x # Again(K, a)) /\ (\A a : x # IfNull(a))
    BY DEF Again, IfNull
  <2>4. ASSUME NEW a, x = [op |-> "unsafe fn", then |-> a] PROVE FALSE
    BY <2>4
  <2> QED BY <1>1, <2>1, <2>2, <2>3, <2>4, Zenon DEF Shape
<1> QED BY <1>2 DEF Loop

\* a is b with y behind it.
Followed(a, b, y) ==
  /\ Len(a) = Len(b) + 1 /\ a[Len(b) + 1] = y
  /\ \A i \in 1 .. Len(b) : a[i] = b[i]

\* A loop starts a turn.
LEMMA MovesTurn ==
  ASSUME NEW T, todo \in Seq(T), todo # << >>, Moving, pos \in Nat,
         NEW x, x = todo[1], x.op = "loop", NEW b, b = x.then,
         NEW y, y.op = "loop", y.name = x.name, y.of = x.of, y.then = b, y.from = pos,
         NEW U, NEW a \in Seq(U), Followed(a, b, y), todo' = a \o Tail(todo),
         pos' = pos, tokens' = tokens, ret' = ret, KeepsError
  PROVE  Moving'
<1>1. Row(b) /\ Turns(x) /\ Live(x)
  <2>1. 1 \in 1 .. Len(todo)
    OBVIOUS
  <2>2. Live(x)
    BY <2>1 DEF Moving
  <2> QED BY <2>2 DEF Live
<1>2. PICK B : b \in Seq(B)
  BY <1>1 DEF Row
<1>3. Len(b) \in Nat
  BY <1>2
<1>5. /\ Len(todo) \in Nat /\ Len(todo) >= 1 /\ Len(a) \in Nat
      /\ Len(todo') = Len(a) + Len(todo) - 1
      /\ \A i \in 1 .. Len(a) : todo'[i] = a[i]
      /\ \A i \in 2 .. Len(todo) : todo'[Len(a) + i - 1] = todo[i]
  BY ThenAt
<1>6. /\ todo'[Len(b) + 1] = y
      /\ \A i \in 1 .. Len(b) : todo'[i] = b[i]
  <2>1. Len(b) + 1 \in 1 .. Len(a) /\ \A i \in 1 .. Len(b) : i \in 1 .. Len(a)
    BY <1>3 DEF Followed
  <2> QED BY <1>5, <2>1 DEF Followed
<1>7. \A i \in 1 .. Len(b) : Live(b[i]) /\ b[i].op # "end" /\ ~Running(b[i])
  BY <1>1, RowClean
<1>8. Goes(todo', Len(b) + 1, parser_current, ret')
  <2> DEFINE j == Len(b) + 1
  <2>1. ASSUME NEW k \in 1 .. Len(b), Guard(b[k]) \/ (y.name = "match arms" /\ b[k].op = "expect")
        PROVE  Guarded(todo', j)
    <3>1. k \in 1 .. j - 1 /\ \A i \in k + 1 .. j - 1 : i \in 1 .. Len(b)
      BY <1>3
    <3>2. Sees(todo', k, j)
      BY <1>6, <2>1 DEF Sees
    <3>3. Clean(todo', k, j)
      BY <1>6, <1>7, <3>1 DEF Clean
    <3> HIDE DEF j
    <3> QED BY <3>1, <3>2, <3>3 DEF Guarded
  <2>2. ASSUME b = <<Call("top_level_decl", 0), Recover>> PROVE AtTop(todo', j, ret')
    <3>1. Len(b) = 2 /\ b[1] = Call("top_level_decl", 0) /\ b[2] = Recover
      BY <2>2
    <3>2. j = 3 /\ 1 \in 1 .. Len(b) /\ 2 \in 1 .. Len(b)
      BY <3>1
    <3>3. todo'[1] = Call("top_level_decl", 0) /\ todo'[2] = Recover
      BY <1>6, <3>1, <3>2
    <3> HIDE DEF j
    <3> QED BY <3>2, <3>3 DEF AtTop
  <2> HIDE DEF j
  <2>3. \/ \E k \in 1 .. Len(b) : Guard(b[k]) \/ (y.name = "match arms" /\ b[k].op = "expect")
        \/ b = <<Call("top_level_decl", 0), Recover>>
    BY <1>1 DEF Turns, HasGuard
  <2>4. Guarded(todo', j) \/ AtTop(todo', j, ret')
    BY <2>1, <2>2, <2>3
  <2> QED BY <2>4 DEF Goes, j
<1>9. Starting(a)
  <2>1. Live(y)
    BY <1>1 DEF Live, Turns
  <2>2. ASSUME NEW i \in 1 .. Len(a)
        PROVE  (i \in 1 .. Len(b) /\ a[i] = b[i]) \/ (i = Len(b) + 1 /\ a[i] = y)
    BY <1>3 DEF Followed
  <2> QED BY <1>7, <1>8, <2>1, <2>2 DEF Starting
<1>10. ASSUME NEW j \in 2 .. Len(todo), AtTop(todo, j, ret)
       PROVE  Goes(todo', Len(a) + j - 1, parser_current, ret')
  <2>1. Skips(x) /\ TopFrom(todo, j, 2)
    <3>1. j \in Nat
      OBVIOUS
    <3> QED BY <1>10, <3>1, TopHead
  <2>2. IsAttrs(x)
    BY <2>1 DEF Skips
  <2>3. b = <<AttrsCheck>>
    BY <2>2, AttrsWritten DEF IsAttrs, AttrsCheck
  <2>4. Len(b) = 1 /\ b[1] = AttrsCheck /\ Len(a) = 2
    BY <2>3 DEF Followed
  <2>5. todo'[1] = AttrsCheck /\ todo'[2] = y
    BY <1>6, <2>4
  <2>6. IsAttrs(y) /\ Running(y)
    BY <2>2 DEF IsAttrs, Running
  <2>7. TopFrom(todo', j + 1, 2 + 1)
    <3>1. j \in Nat /\ 1 \in Int /\ \A i \in 2 .. j : i \in 2 .. Len(todo) /\ Len(a) + i - 1 = i + 1
      BY <1>5, <2>4
    <3>2. \A i \in 2 .. j : todo'[i + 1] = todo[i]
      BY <1>5, <3>1
    <3> QED BY <2>1, <3>1, <3>2, TopShift
  <2>8. Len(a) + j - 1 = j + 1 /\ 2 + 1 = 3
    BY <2>4
  <2> QED BY <2>5, <2>6, <2>7, <2>8 DEF Goes, AtTop
<1>11. ~Certain(todo, parser_current) /\ ~Guard(x)
  BY CertainHead, GuardParts DEF Takes, Guards
<1>12. Passing(a)
  <2>1. ASSUME NEW j \in 2 .. Len(todo), Goes(todo, j, parser_current, ret)
        PROVE  Goes(todo', Len(a) + j - 1, parser_current, ret')
    BY <1>10, <1>11, <2>1, Passes
  <2> QED BY <2>1, Zenon DEF Passing
<1> QED BY <1>9, <1>12, MovesThen

LEMMA IndexNat ==
  ASSUME NEW T, NEW s \in Seq(T), NEW j \in 2 .. Len(s)
  PROVE  j \in Nat
OBVIOUS

LEMMA LiveFirst ==
  ASSUME NEW T, todo \in Seq(T), todo # << >>, Moving
  PROVE  Live(todo[1])
<1>1. 1 \in 1 .. Len(todo)
  OBVIOUS
<1> QED BY <1>1 DEF Moving

\* No attribute follows: the loop over them is about to be left.
JustBreak(b) == Len(b) = 1 /\ b[1] = Break
InAttrs(s, j) == Running(s[2]) /\ IsAttrs(s[2]) /\ TopFrom(s, j, 3)
LEMMA TopBreaks ==
  ASSUME NEW T, NEW s \in Seq(T), s # << >>,
         NEW U, NEW b \in Seq(U), JustBreak(b), NEW r, r = b \o Tail(s),
         NEW t, NEW p, NEW j \in 2 .. Len(s), InAttrs(s, j)
  PROVE  Goes(r, Len(b) + j - 1, t, p)
<1>1. /\ Len(s) \in Nat /\ Len(b) \in Nat
      /\ \A i \in 1 .. Len(b) : r[i] = b[i]
      /\ \A i \in 2 .. Len(s) : r[Len(b) + i - 1] = s[i]
  BY ThenAt
<1>2. j \in Nat
  BY <1>1
<1>3. j >= 3 + 3
  BY <1>2, TopFirst DEF InAttrs
<1>4. r[1] = Break /\ \A i \in 2 .. j : i \in 2 .. Len(s) /\ Len(b) + i - 1 = i
  BY <1>1 DEF JustBreak
<1>5. \A i \in 2 .. j : r[i] = s[i]
  BY <1>1, <1>4
<1>6. 2 \in 2 .. j /\ 3 \in Nat /\ 0 \in Int /\ \A i \in 3 .. j : i \in 2 .. j /\ i + 0 = i
  BY <1>2, <1>3
<1>7. r[2] = s[2] /\ \A i \in 3 .. j : r[i + 0] = s[i]
  BY <1>5, <1>6
<1>8. TopFrom(r, j + 0, 3 + 0)
  <2>1. TopFrom(s, j, 3)
    BY DEF InAttrs
  <2> QED BY <1>2, <1>6, <1>7, <2>1, TopShift
<1>9. j + 0 = j /\ 3 + 0 = 3 /\ Len(b) + j - 1 = j
  BY <1>2 DEF JustBreak
<1>10. AtTop(r, j, p)
  BY <1>4, <1>7, <1>8, <1>9 DEF AtTop, InAttrs
<1> QED BY <1>9, <1>10 DEF Goes

\* parser_match finds none of its tokens.
LEMMA MovesMatch ==
  ASSUME NEW T, todo \in Seq(T), todo # << >>, Moving, pos \in Nat,
         NEW x, x = todo[1], x.op = "match", parser_current \notin x.of,
         todo' = x.else \o Tail(todo), pos' = pos, tokens' = tokens, ret' = ret, KeepsError
  PROVE  Moving'
<1>1. Row(x.else)
  BY LiveFirst DEF Live
<1>2. ASSUME Certain(todo, parser_current) PROVE Certain(todo', parser_current)
  <2>1. x.else = << >> /\ Certain(Tail(todo), parser_current)
    BY <1>2, CertainHead DEF Takes
  <2>2. Tail(todo) \in Seq(T)
    OBVIOUS
  <2>3. << >> \o Tail(todo) = Tail(todo)
    BY <2>2
  <2> QED BY <2>1, <2>3
<1>3. Guard(x) => HasGuard(x.else)
  BY GuardParts DEF Guards
<1>4. ASSUME NEW j \in 2 .. Len(todo), AtTop(todo, j, ret)
      PROVE  Goes(todo', Len(x.else) + j - 1, parser_current, ret')
  <2>1. j \in Nat
    BY IndexNat, Zenon
  <2>2. Skips(x) /\ TopFrom(todo, j, 2)
    BY <1>4, <2>1, TopHead
  <2>3. x.else = << >>
    BY <2>2 DEF Skips, IsAttrs
  <2> QED BY <2>2, <2>3, TopSkipped
<1>5. Topping(x.else) /\ Expecting
  BY <1>4 DEF Topping, Expecting
<1> QED BY <1>1, <1>2, <1>3, <1>5, MovesRow

\* parser_check finds one of its tokens.
LEMMA MovesCheckThen ==
  ASSUME NEW T, todo \in Seq(T), todo # << >>, Moving, pos \in Nat,
         NEW x, x = todo[1], x.op = "check", parser_current \in x.of,
         todo' = x.then \o Tail(todo), pos' = pos, tokens' = tokens, ret' = ret, KeepsError
  PROVE  Moving'
<1>1. Row(x.then)
  BY LiveFirst DEF Live
<1>2. ~Certain(todo, parser_current)
  BY CertainHead DEF Takes
<1>3. Certain(x.then, parser_current) => Certain(todo', parser_current)
  BY <1>1, CertainFront
<1>4. parser_current # "eof" /\ Guard(x) => Certain(todo', parser_current) \/ HasGuard(x.then)
  BY <1>3, GuardParts DEF Guards
<1>5. ASSUME NEW j \in 2 .. Len(todo), AtTop(todo, j, ret)
      PROVE  Certain(x.then, parser_current)
  <2>1. j \in Nat
    BY IndexNat, Zenon
  <2>2. Skips(x) \/ x = AttrsCheck
    BY <1>5, <2>1, TopHead
  <2>3. CASE Skips(x)
    BY <2>3 DEF Skips, IsAttrs
  <2>4. CASE x = AttrsCheck
    <3>1. x.of = {"#"} /\ Certain(x.then, "#")
      BY <2>4, AttrsWritten DEF AttrsCheck
    <3>2. parser_current = "#"
      BY <3>1
    <3> QED BY <3>1, <3>2
  <2> QED BY <2>2, <2>3, <2>4
<1>6. Topping(x.then) /\ Expecting
  BY <1>3, <1>5 DEF Topping, Expecting, Goes
<1> QED BY <1>1, <1>2, <1>4, <1>6, MovesRow

\* It finds none.
LEMMA MovesCheckElse ==
  ASSUME NEW T, todo \in Seq(T), todo # << >>, Moving, pos \in Nat,
         NEW x, x = todo[1], x.op = "check", parser_current \notin x.of,
         todo' = x.else \o Tail(todo), pos' = pos, tokens' = tokens, ret' = ret, KeepsError
  PROVE  Moving'
<1>1. Row(x.else)
  BY LiveFirst DEF Live
<1>2. ~Certain(todo, parser_current)
  BY CertainHead DEF Takes
<1>3. Guard(x) => HasGuard(x.else)
  BY GuardParts DEF Guards
<1>4. ASSUME NEW j \in 2 .. Len(todo), AtTop(todo, j, ret)
      PROVE  Goes(todo', Len(x.else) + j - 1, parser_current, ret')
  <2>1. j \in Nat
    BY IndexNat, Zenon
  <2>2. \/ Skips(x) /\ TopFrom(todo, j, 2)
        \/ x = AttrsCheck /\ Running(todo[2]) /\ IsAttrs(todo[2]) /\ TopFrom(todo, j, 3)
    BY <1>4, <2>1, TopHead
  <2>3. CASE Skips(x) /\ TopFrom(todo, j, 2)
    <3>1. x.else = << >>
      BY <2>3 DEF Skips, IsAttrs
    <3> QED BY <2>3, <3>1, TopSkipped
  <2>4. CASE x = AttrsCheck /\ Running(todo[2]) /\ IsAttrs(todo[2]) /\ TopFrom(todo, j, 3)
    <3>1. x.else = <<Break>>
      BY <2>4, AttrsWritten DEF AttrsCheck
    <3>2. \A b : b = <<Break>> => b \in Seq({Break}) /\ Len(b) = 1 /\ b[1] = Break
      OBVIOUS
    <3>3. x.else \in Seq({Break}) /\ Len(x.else) = 1 /\ x.else[1] = Break
      BY <3>1, <3>2
    <3> HIDE <3>1
    <3> QED BY <2>4, <3>3, TopBreaks DEF JustBreak, InAttrs
  <2> QED BY <2>2, <2>3, <2>4
<1>5. Topping(x.else) /\ Expecting
  BY <1>4 DEF Topping, Expecting
<1> QED BY <1>1, <1>2, <1>3, <1>5, MovesRow

\* A function is called.
LEMMA MovesCall ==
  ASSUME NEW T, todo \in Seq(T), todo # << >>, Moving, pos \in Nat,
         NEW x, x = todo[1], x.op = "call", x.f \in Functions,
         NEW b, b = Body(x.f, x.bp),
         todo' = Append(b, End) \o Tail(todo), pos' = pos, tokens' = tokens, ret' = ret, KeepsError
  PROVE  Moving'
<1> DEFINE a == Append(b, End)
<1>1. Row(b) /\ \A t \in Starts(x.f) : Certain(b, t)
  BY BodiesWritten
<1>2. PICK B : b \in Seq(B)
  BY <1>1 DEF Row
<1>3. /\ a \in Seq(B \cup {End}) /\ Len(b) \in Nat /\ Followed(a, b, End)
  BY <1>2 DEF Followed
<1>4. ASSUME NEW t, Certain(b, t) PROVE Certain(a \o Tail(todo), t)
  <2>1. a = b \o <<End>>
    BY <1>2
  <2>2. b \in Seq(B \cup {End}) /\ <<End>> \in Seq(B \cup {End})
    BY <1>2
  <2>3. Certain(a, t)
    BY <1>4, <2>1, <2>2, CertainThen
  <2>4. Tail(todo) \in Seq(T)
    OBVIOUS
  <2>5. a \in Seq((B \cup {End}) \cup T) /\ Tail(todo) \in Seq((B \cup {End}) \cup T)
    BY <1>3, <2>4
  <2> HIDE DEF a
  <2> QED BY <2>3, <2>5, CertainThen
<1>5. todo' = a \o Tail(todo)
  OBVIOUS
<1> HIDE DEF a
<1> SUFFICES ASSUME NEW r, todo' = r, r = a \o Tail(todo) PROVE Moving'
  BY <1>5
<1>6. /\ Len(todo) \in Nat /\ Len(todo) >= 1 /\ Len(a) \in Nat
      /\ \A i \in 1 .. Len(a) : r[i] = a[i]
      /\ \A i \in 2 .. Len(todo) : r[Len(a) + i - 1] = todo[i]
  BY <1>3, ThenAt
<1>7. \A i \in 1 .. Len(b) : Live(b[i]) /\ b[i].op # "end" /\ ~Running(b[i])
  BY <1>1, RowClean
<1>8. Starting(a)
  <2>1. Live(End) /\ ~Running(End)
    BY DEF Live, Running, End
  <2>2. ASSUME NEW i \in 1 .. Len(a)
        PROVE  (i \in 1 .. Len(b) /\ a[i] = b[i]) \/ a[i] = End
    BY <1>3 DEF Followed
  <2> QED BY <1>7, <2>1, <2>2 DEF Starting
<1>9. Certain(todo, parser_current) => Certain(r, parser_current)
  <2>1. Certain(todo, parser_current) => parser_current \in Starts(x.f)
    BY CertainHead DEF Takes
  <2> QED BY <1>1, <1>4, <2>1
<1>10. ~Guard(todo[1])
  BY GuardParts DEF Guards
<1>11. ASSUME NEW j \in 2 .. Len(todo), AtTop(todo, j, ret)
       PROVE  Goes(r, Len(a) + j - 1, parser_current, ret)
  <2>1. j \in Nat
    BY IndexNat, Zenon
  <2>2. j = 3 /\ x = Call("top_level_decl", 0) /\ todo[2] = Recover
    BY <1>11, <2>1, TopHead
  <2>3. b = parser_parse_top_level_decl
    BY <2>2 DEF Call, Body
  <2>4. Len(b) = 13 /\ b[13] = Return("null") /\ \A i \in 1 .. 12 : Skips(b[i])
    BY <2>3, TopLevelWritten
  <2>5. Len(a) = 14 /\ a[14] = End /\ \A i \in 1 .. 13 : a[i] = b[i]
    BY <1>3, <2>4 DEF Followed
  <2>6. /\ r[14] = End /\ r[15] = Recover /\ \A i \in 1 .. 13 : r[i] = b[i]
    <3>1. 14 \in 1 .. Len(a) /\ \A i \in 1 .. 13 : i \in 1 .. Len(a)
      BY <2>5
    <3>2. 2 \in 2 .. Len(todo) /\ Len(a) + 2 - 1 = 15
      BY <1>6, <2>2, <2>5
    <3> QED BY <1>6, <2>2, <2>5, <3>1, <3>2
  <2>7. End.op = "end"
    BY DEF End
  <2>8. /\ r[13] = Return("null") /\ r[16 - 2].op = "end" /\ r[16 - 1] = Recover
        /\ \A i \in 1 .. 16 - 3 : r[i].op # "end"
        /\ \A i \in 1 .. 13 - 1 : Skips(r[i])
    <3>1. 16 - 2 = 14 /\ 16 - 1 = 15 /\ 16 - 3 = 13 /\ 13 - 1 = 12 /\ 13 \in 1 .. 13
      OBVIOUS
    <3>2. r[13] = Return("null")
      BY <2>4, <2>6, <3>1
    <3>3. ASSUME NEW i \in 1 .. 13 PROVE r[i].op # "end"
      BY <1>7, <2>4, <2>6, <3>3
    <3>4. ASSUME NEW i \in 1 .. 12 PROVE Skips(r[i])
      <4>1. i \in 1 .. 13
        OBVIOUS
      <4> QED BY <2>4, <2>6, <4>1
    <3> QED BY <2>6, <2>7, <3>1, <3>2, <3>3, <3>4
  <2>9. 13 \in 1 .. 16 - 3 /\ Len(a) + j - 1 = 16
    BY <2>2, <2>5
  <2>10. TopFrom(r, 16, 1)
    BY <2>8, <2>9 DEF TopFrom
  <2> QED BY <2>9, <2>10 DEF Goes, AtTop
<1>12. Passing(a)
  <2>1. ASSUME NEW j \in 2 .. Len(todo), Goes(todo, j, parser_current, ret)
        PROVE  Goes(r, Len(a) + j - 1, parser_current, ret)
    <3>1. AtTop(todo, j, ret) => Goes(r, Len(a) + j - 1, parser_current, ret)
      BY <1>11
    <3>2. \/ Goes(r, Len(a) + j - 1, parser_current, ret)
          \/ todo[1].op = "expect" /\ todo[j].name = "match arms"
      BY <1>3, <1>9, <1>10, <2>1, <3>1, Passes
    <3> QED BY <3>2
  <2> QED BY <2>1, Zenon DEF Passing
<1> QED BY <1>3, <1>8, <1>12, MovesThen

\* Nothing changes, or there is no function to return from.
LEMMA MovesSame ==
  ASSUME Moving, todo' = todo, pos' = pos, tokens' = tokens, KeepsError,
         ret' = ret \/ todo[1].op # "ifnull"
  PROVE  Moving'
<1>1. parser_current' = parser_current
  BY DEF parser_current, parser_peek
<1>2. Recover.op = "ifnull"
  BY DEF Recover, IfNull
<1>3. ASSUME NEW j, NEW t, Goes(todo, j, t, ret) PROVE Goes(todo, j, t, ret')
  <2>1. AtTop(todo, j, ret) => AtTop(todo, j, ret')
    BY <1>2 DEF AtTop
  <2> QED BY <1>3, <2>1 DEF Goes
<1>4. ASSUME NEW j \in 1 .. Len(todo), Running(todo[j])
      PROVE  /\ todo[j].from \in 0 .. pos
             /\ todo[j].from = pos /\ parser_current # "eof" =>
                  \/ Goes(todo, j, parser_current, ret')
                  \/ todo[j].name = "match arms" /\ had_error'
  <2>1. /\ todo[j].from \in 0 .. pos
        /\ todo[j].from = pos /\ parser_current # "eof" =>
             \/ Goes(todo, j, parser_current, ret)
             \/ todo[j].name = "match arms" /\ had_error
    BY <1>4, Zenon DEF Moving
  <2> QED BY <1>3, <2>1, Zenon DEF KeepsError
<1>5. \A i \in 1 .. Len(todo) : Live(todo[i])
  BY DEF Moving
<1> QED BY <1>1, <1>4, <1>5, Zenon DEF Moving, Running

\* The nearest of the things at I.
LEMMA Nearest ==
  ASSUME NEW T, NEW s \in Seq(T), NEW I \in SUBSET (1 .. Len(s)), I # {}
  PROVE  Min(I) \in I /\ Min(I) \in 1 .. Len(s) /\ \A i \in I : Min(I) <= i
<1>1. I \in SUBSET Nat
  OBVIOUS
<1>2. Min(I) \in I /\ \A i \in I : Min(I) <= i
  BY <1>1, LeastNatural
<1> QED BY <1>2

LEMMA SubSeqAt ==
  ASSUME NEW T, NEW s \in Seq(T), NEW n \in 1 .. Len(s), NEW r, r = SubSeq(s, n + 1, Len(s))
  PROVE  /\ Len(s) \in Nat /\ Len(r) = Len(s) - n
         /\ \A i \in n + 1 .. Len(s) : r[i - n] = s[i]
<1>1. /\ Len(s) \in Nat /\ Len(r) = Len(s) - n
      /\ \A i \in 1 .. Len(r) : r[i] = s[n + i]
  OBVIOUS
<1>2. ASSUME NEW i \in n + 1 .. Len(s) PROVE r[i - n] = s[i]
  <2>1. i - n \in 1 .. Len(r) /\ n + (i - n) = i
    BY <1>1
  <2> QED BY <1>1, <2>1
<1> QED BY <1>1, <1>2

\* The loop over the attributes of a declaration is left.
LEMMA TopLeft ==
  ASSUME NEW T, NEW s \in Seq(T), NEW j \in 1 .. Len(s), InAttrs(s, j), 2 \in 1 .. Len(s),
         NEW r, r = SubSeq(s, 2 + 1, Len(s)), NEW t, NEW p
  PROVE  Goes(r, j - 2, t, p)
<1>1. TopFrom(s, j, 3)
  BY DEF InAttrs
<1>2. /\ Len(s) \in Nat /\ \A i \in 2 + 1 .. Len(s) : r[i - 2] = s[i]
  BY SubSeqAt
<1>3. /\ j \in Nat /\ 3 \in Nat /\ -2 \in Int /\ j + (-2) = j - 2 /\ 3 + (-2) = 1
      /\ \A i \in 3 .. j : i \in 2 + 1 .. Len(s) /\ i + (-2) = i - 2
  BY <1>2
<1>4. \A i \in 3 .. j : r[i + (-2)] = s[i]
  BY <1>2, <1>3
<1>5. TopFrom(r, j + (-2), 3 + (-2))
  BY <1>1, <1>3, <1>4, TopShift
<1> QED BY <1>3, <1>5 DEF Goes, AtTop

LEMMA MovesBreak ==
  ASSUME NEW T, todo \in Seq(T), todo # << >>, Moving, pos \in Nat,
         NEW x, x = todo[1], x.op = "break", todo' = Behind(Running),
         pos' = pos, tokens' = tokens, ret' = ret, KeepsError
  PROVE  Moving'
<1> DEFINE I == {i \in 1 .. Len(todo) : Running(todo[i])}
           n == IF I # {} THEN Min(I) ELSE 0
<1>1. todo' = SubSeq(todo, n + 1, Len(todo))
  BY DEF Behind, SelectInSeq
<1>2. I \in SUBSET (1 .. Len(todo)) /\ \A i \in 1 .. Len(todo) : i \in I <=> Running(todo[i])
  OBVIOUS
<1> HIDE DEF I
<1>3. CASE I = {}
  <2>1. n = 0
    BY <1>3
  <2> HIDE DEF n
  <2>2. todo' = todo
    BY <1>1, <2>1
  <2> QED BY <2>2, MovesSame
<1>4. CASE I # {}
  <2>1. n \in I /\ n \in 1 .. Len(todo) /\ \A i \in I : n <= i
    BY <1>2, <1>4, Nearest
  <2> HIDE DEF n
  <2>2. Running(todo[n])
    BY <1>2, <2>1
  <2>3. ~Certain(todo, parser_current)
    BY CertainHead DEF Takes
  <2>4. ASSUME NEW j \in n + 1 .. Len(todo), AtTop(todo, j, ret)
        PROVE  Goes(todo', j - n, parser_current, ret')
    <3>1. j \in Nat /\ j \in 1 .. Len(todo) /\ Len(todo) \in Nat
      BY <2>1
    <3>2. InAttrs(todo, j)
      BY <2>4, <3>1, TopHead DEF InAttrs
    <3>3. Running(todo[2]) /\ j >= 3 + 3
      BY <3>1, <3>2, TopFirst DEF InAttrs
    <3>4. 2 \in 1 .. Len(todo)
      BY <3>1, <3>3
    <3>5. n = 2
      <4>1. n <= 2
        BY <1>2, <2>1, <3>3, <3>4
      <4>2. n # 1
        BY <2>2 DEF Running
      <4> QED BY <2>1, <4>1, <4>2
    <3> QED BY <1>1, <3>1, <3>2, <3>4, <3>5, TopLeft
  <2>5. Leaving(n)
    BY <2>4 DEF Leaving
  <2> QED BY <1>1, <2>1, <2>2, <2>3, <2>5, MovesBehind
<1> QED BY <1>3, <1>4

LEMMA MovesReturn ==
  ASSUME NEW T, todo \in Seq(T), todo # << >>, Moving, pos \in Nat,
         NEW x, x = todo[1], x.op = "return", todo' = Behind(FunctionEnd),
         pos' = pos, tokens' = tokens, KeepsError,
         x = Return("null") => ret' = "null"
  PROVE  Moving'
<1> DEFINE I == {i \in 1 .. Len(todo) : FunctionEnd(todo[i])}
           n == IF I # {} THEN Min(I) ELSE 0
<1>1. todo' = SubSeq(todo, n + 1, Len(todo))
  BY DEF Behind, SelectInSeq
<1>2. I \in SUBSET (1 .. Len(todo)) /\ \A i \in 1 .. Len(todo) : i \in I <=> todo[i].op = "end"
  BY DEF FunctionEnd
<1> HIDE DEF I
<1>3. CASE I = {}
  <2>1. n = 0
    BY <1>3
  <2> HIDE DEF n
  <2>2. todo' = todo /\ todo[1].op # "ifnull"
    BY <1>1, <2>1
  <2> QED BY <2>2, MovesSame
<1>4. CASE I # {}
  <2>1. n \in I /\ n \in 1 .. Len(todo) /\ \A i \in I : n <= i
    BY <1>2, <1>4, Nearest
  <2> HIDE DEF n
  <2>2. todo[n].op = "end"
    BY <1>2, <2>1
  <2>3. ~Certain(todo, parser_current)
    BY CertainHead DEF Takes
  <2>4. ASSUME NEW j \in n + 1 .. Len(todo), AtTop(todo, j, ret)
        PROVE  Goes(todo', j - n, parser_current, ret')
    <3>1. j \in Nat /\ j \in 1 .. Len(todo) /\ Len(todo) \in Nat
      BY <2>1
    <3>2. x = Return("null") /\ TopFrom(todo, j, 1)
      BY <2>4, <3>1, TopHead
    <3>3. /\ j >= 1 + 3 /\ todo[j - 2].op = "end" /\ todo[j - 1] = Recover
          /\ \A i \in 1 .. j - 3 : todo[i].op # "end"
      BY <3>1, <3>2, TopFirst
    <3>4. n = j - 2
      <4>1. j - 2 \in 1 .. Len(todo) /\ (n \notin 1 .. j - 3 => n >= j - 2)
        BY <2>1, <3>1, <3>3
      <4>2. n <= j - 2
        BY <1>2, <2>1, <3>3, <4>1
      <4>3. n \notin 1 .. j - 3
        BY <2>2, <3>3
      <4> QED BY <2>1, <3>1, <4>1, <4>2, <4>3
    <3>5. j - n = 2 /\ j - 1 \in n + 1 .. Len(todo) /\ (j - 1) - n = 1
      BY <3>1, <3>3, <3>4
    <3>6. \A i \in n + 1 .. Len(todo) : todo'[i - n] = todo[i]
      BY <1>1, <2>1, SubSeqAt
    <3>7. todo'[1] = Recover
      BY <3>3, <3>5, <3>6
    <3> QED BY <3>2, <3>5, <3>7 DEF Goes, AtTop
  <2>5. Leaving(n)
    BY <2>4 DEF Leaving
  <2> QED BY <1>1, <2>1, <2>2, <2>3, <2>5, MovesBehind
<1> QED BY <1>3, <1>4

\* Things a declaration that is looked for does not start with.
LEMMA MovesOther ==
  ASSUME NEW T, todo \in Seq(T), todo # << >>, Moving, pos \in Nat,
         NEW a, Row(a), todo' = a \o Tail(todo), pos' = pos, tokens' = tokens, KeepsError, Expecting,
         todo[1].op \in {"expect", "again", "end", "infix", "generics"},
         todo[1].op = "expect" => parser_current \notin todo[1].of
  PROVE  Moving'
<1>1. ASSUME NEW j \in 2 .. Len(todo) PROVE ~AtTop(todo, j, ret)
  <2>1. j \in Nat
    BY IndexNat, Zenon
  <2> QED BY <2>1, TopHead
<1>2. Topping(a)
  BY <1>1 DEF Topping
<1> QED BY <1>2, MovesPlain

\* parser_error is called.
LEMMA MovesError ==
  ASSUME NEW T, todo \in Seq(T), todo # << >>, Moving, pos \in Nat,
         todo' = << >> \o Tail(todo), pos' = pos, tokens' = tokens, KeepsError,
         todo[1].op = "error"
  PROVE  Moving'
<1>1. ASSUME NEW j \in 2 .. Len(todo), AtTop(todo, j, ret)
      PROVE  Goes(todo', Len(<< >>) + j - 1, parser_current, ret')
  <2>1. j \in Nat
    BY IndexNat, Zenon
  <2>2. TopFrom(todo, j, 2)
    BY <1>1, <2>1, TopHead
  <2> QED BY <2>2, TopSkipped
<1>2. Topping(<< >>) /\ Expecting /\ Row(<< >>)
  BY <1>1, RowTuples DEF Topping, Expecting
<1> QED BY <1>2, MovesPlain

\* A loop comes to its end. That over the attributes does so at the end of the file.
LEMMA MovesLoopEnd ==
  ASSUME NEW T, todo \in Seq(T), todo # << >>, Moving, pos \in Nat,
         todo' = << >> \o Tail(todo), pos' = pos, tokens' = tokens, KeepsError,
         todo[1].op = "loop", LoopEnds(todo[1])
  PROVE  Moving'
<1>1. ASSUME NEW j \in 2 .. Len(todo), AtTop(todo, j, ret)
      PROVE  parser_current = "eof"
  <2>1. j \in Nat
    BY IndexNat, Zenon
  <2>2. Skips(todo[1])
    BY <1>1, <2>1, TopHead
  <2>3. todo[1].of = {}
    BY <2>2 DEF Skips, IsAttrs
  <2> QED BY <2>3 DEF LoopEnds
<1>2. Topping(<< >>) /\ Expecting /\ Row(<< >>)
  BY <1>1, RowTuples DEF Topping, Expecting
<1> QED BY <1>2, MovesPlain

\* `unsafe` does not start a function, or it does.
UnsafeParts(x, a) == a = << >> \/ (a = x.then /\ parser_current = "unsafe")
LEMMA MovesUnsafe ==
  ASSUME NEW T, todo \in Seq(T), todo # << >>, Moving, pos \in Nat,
         NEW a, todo' = a \o Tail(todo), pos' = pos, tokens' = tokens, KeepsError,
         NEW x, x = todo[1], x.op = "unsafe fn", UnsafeParts(x, a)
  PROVE  Moving'
<1>1. Row(x.then)
  BY LiveFirst DEF Live
<1>2. Row(a)
  BY <1>1, RowTuples DEF UnsafeParts
<1>3. ASSUME NEW j \in 2 .. Len(todo), AtTop(todo, j, ret)
      PROVE  Goes(todo', Len(a) + j - 1, parser_current, ret')
  <2>1. j \in Nat
    BY IndexNat, Zenon
  <2>2. Skips(x) /\ TopFrom(todo, j, 2)
    BY <1>3, <2>1, TopHead
  <2>3. CASE a = << >>
    BY <2>2, <2>3, TopSkipped
  <2>4. CASE a = x.then /\ parser_current = "unsafe"
    <3>1. Certain(x.then, parser_current)
      BY <2>2, <2>4 DEF Skips, IsAttrs
    <3>2. Certain(todo', parser_current)
      BY <1>1, <2>4, <3>1, CertainFront
    <3> QED BY <3>2 DEF Goes
  <2> QED BY <2>3, <2>4 DEF UnsafeParts
<1>4. Topping(a) /\ Expecting
  BY <1>3 DEF Topping, Expecting
<1> QED BY <1>2, <1>4, MovesPlain

\* No declaration was found: recovery skips a token.
LEMMA MovesRecover ==
  ASSUME NEW T, NEW s \in Seq(T), s # << >>, s[1] = Recover,
         NEW r, r = Recover.then \o Tail(s), NEW t, NEW p, 2 \in 2 .. Len(s)
  PROVE  Goes(r, Len(Recover.then) + 2 - 1, t, p)
<1> DEFINE y == Check({"eof"}, << >>, <<Take>>)
<1>1. Recover.then = <<y>>
  BY DEF Recover, IfNull
<1>2. Guard(y)
  BY Guarding
<1> HIDE DEF y
<1>3. <<y>> \in Seq({y}) /\ Len(<<y>>) = 1 /\ <<y>>[1] = y
  OBVIOUS
<1>4. \A i \in 1 .. Len(<<y>>) : r[i] = <<y>>[i]
  BY <1>1, <1>3, ThenAt
<1>5. r[1] = y
  BY <1>3, <1>4
<1>6. Sees(r, 1, 2)
  BY <1>2, <1>5 DEF Sees
<1>7. 1 \in 1 .. 2 - 1 /\ 1 + 1 .. 2 - 1 = {}
  OBVIOUS
<1>8. Clean(r, 1, 2)
  BY <1>7 DEF Clean
<1>9. Len(Recover.then) + 2 - 1 = 2
  BY <1>1, <1>3
<1>10. Guarded(r, 2)
  BY <1>6, <1>7, <1>8, Zenon DEF Guarded
<1> QED BY <1>9, <1>10 DEF Goes

LEMMA MovesIfNull ==
  ASSUME NEW T, todo \in Seq(T), todo # << >>, Moving, pos \in Nat,
         NEW a, todo' = a \o Tail(todo), pos' = pos, tokens' = tokens, ret' = ret, KeepsError,
         NEW x, x = todo[1], x.op = "ifnull",
         a = IF ret = "null" THEN x.then ELSE << >>
  PROVE  Moving'
<1>1. Row(x.then)
  BY LiveFirst DEF Live
<1>2. Row(a)
  BY <1>1, RowTuples
<1>3. ASSUME NEW j \in 2 .. Len(todo), AtTop(todo, j, ret)
      PROVE  Goes(todo', Len(a) + j - 1, parser_current, ret')
  <2>1. j \in Nat
    BY IndexNat, Zenon
  <2>2. j = 2 /\ x = Recover /\ ret = "null"
    BY <1>3, <2>1, TopHead
  <2>3. a = Recover.then
    BY <2>2
  <2> QED BY <2>2, <2>3, MovesRecover
<1>4. Topping(a) /\ Expecting
  BY <1>3 DEF Topping, Expecting
<1> QED BY <1>2, <1>4, MovesPlain

LEMMA InitMoves == Init => Moving
<1> SUFFICES ASSUME Init PROVE Moving
  OBVIOUS
<1>1. Row(todo)
  BY ModuleWritten DEF Init, parser_init
<1> QED BY <1>1, RowClean, Zenon DEF Moving

LEMMA MovesStep == ParserInv /\ Moving /\ [Next]_vars => Moving'
<1> SUFFICES ASSUME ParserInv, Moving, [Next]_vars PROVE Moving'
  OBVIOUS
<1>1. pos \in Nat /\ Ready(todo)
  BY DEF ParserInv, TypeOK
<1>2. /\ \E T : todo \in Seq(T)
      /\ \A i \in 1 .. Len(todo) : Thing(todo[i]) \/ todo[i] = Take
  BY <1>1, PointwiseFits DEF Ready
<1>3. PICK T : todo \in Seq(T)
  BY <1>2
<1> DEFINE x == todo[1]
<1>4. ASSUME todo # << >>
      PROVE  Head(todo) = x /\ Live(x) /\ (x.op # "take" => PartsOf(x) /\ Thing(x))
  <2>1. Head(todo) = x /\ 1 \in 1 .. Len(todo)
    BY <1>3, <1>4
  <2>2. Take.op = "take"
    BY DEF Take
  <2>3. x.op # "take" => PartsOf(x)
    BY <1>1, <1>4, <2>1, NextThing
  <2> QED BY <1>2, <1>3, <1>4, <2>1, <2>2, <2>3, LiveFirst
<1>5. \A op : Doing(op) => todo # << >> /\ x.op = op /\ Head(todo) = x
  BY <1>4 DEF Doing
<1>6. had_error' = had_error => KeepsError
  BY Zenon DEF KeepsError
<1>7. Row(<< >>)
  BY RowTuples
<1>8. x.op # "expect" => Expecting
  BY DEF Expecting
<1> HIDE DEF x
<1>9. CASE DoExpect
  <2>1. todo # << >> /\ x.op = "expect" /\ Head(todo) = x /\ todo' = << >> \o Tail(todo)
    BY <1>5, <1>9 DEF DoExpect, Then
  <2>2. CASE pos' = pos + 1
    BY <1>1, <1>3, <1>7, <2>1, <2>2, MovesAdvance
  <2>3. CASE parser_current \notin x.of /\ had_error' = TRUE /\ UNCHANGED pos
    <3>1. KeepsError /\ Expecting /\ tokens' = tokens /\ pos' = pos
      BY <1>9, <2>3 DEF DoExpect, KeepsError, Expecting
    <3> QED BY <1>1, <1>3, <1>7, <2>1, <2>3, <3>1, MovesOther DEF x
  <2> QED BY <1>9, <2>1, <2>2, <2>3 DEF DoExpect, Advance
<1>10. CASE DoTake
  <2>1. todo # << >> /\ todo' = << >> \o Tail(todo) /\ pos' = pos + 1
    BY <1>5, <1>10 DEF DoTake, Then, Advance
  <2> QED BY <1>1, <1>3, <1>7, <2>1, MovesAdvance
<1>11. CASE DoMatch
  <2>1. todo # << >> /\ x.op = "match" /\ Head(todo) = x
    BY <1>5, <1>11 DEF DoMatch
  <2>2. tokens' = tokens /\ ret' = ret /\ KeepsError
    BY <1>6, <1>11 DEF DoMatch
  <2>3. Row(x.then)
    BY <1>4, <2>1 DEF Live
  <2>4. CASE pos' = pos + 1 /\ todo' = x.then \o Tail(todo)
    BY <1>1, <1>3, <2>1, <2>3, <2>4, MovesAdvance
  <2>5. CASE parser_current \notin x.of /\ pos' = pos /\ todo' = x.else \o Tail(todo)
    BY <1>1, <1>3, <2>1, <2>2, <2>5, MovesMatch DEF x
  <2> QED BY <1>11, <2>1, <2>4, <2>5 DEF DoMatch, Advance, Then
<1>12. CASE DoCheck
  <2>1. todo # << >> /\ x.op = "check" /\ Head(todo) = x
    BY <1>5, <1>12 DEF DoCheck
  <2>2. tokens' = tokens /\ pos' = pos /\ ret' = ret /\ KeepsError
    BY <1>6, <1>12 DEF DoCheck
  <2>3. CASE parser_current \in x.of /\ todo' = x.then \o Tail(todo)
    BY <1>1, <1>3, <2>1, <2>2, <2>3, MovesCheckThen DEF x
  <2>4. CASE parser_current \notin x.of /\ todo' = x.else \o Tail(todo)
    BY <1>1, <1>3, <2>1, <2>2, <2>4, MovesCheckElse DEF x
  <2> QED BY <1>12, <2>1, <2>3, <2>4 DEF DoCheck, Then
<1>13. CASE DoLoop
  <2>1. todo # << >> /\ x.op = "loop" /\ Head(todo) = x /\ Thing(x)
    BY <1>4, <1>5, <1>13 DEF DoLoop
  <2>2. tokens' = tokens /\ pos' = pos /\ ret' = ret /\ KeepsError
    BY <1>6, <1>13 DEF DoLoop
  <2>3. CASE LoopEnds(x) /\ todo' = << >> \o Tail(todo)
    BY <1>1, <1>3, <2>1, <2>2, <2>3, MovesLoopEnd DEF x
  <2>4. CASE todo' = Append(x.then, [x EXCEPT !.from = pos]) \o Tail(todo)
    <3> DEFINE y == [x EXCEPT !.from = pos]
               a == Append(x.then, y)
    <3>1. y.op = "loop" /\ y.name = x.name /\ y.of = x.of /\ y.then = x.then /\ y.from = pos
      BY <2>1, LoopAgain
    <3>2. Row(x.then)
      BY <1>4, <2>1 DEF Live
    <3>3. PICK U : x.then \in Seq(U)
      BY <3>2 DEF Row
    <3>4. todo' = a \o Tail(todo)
      BY <2>4
    <3> HIDE DEF y
    <3>5. a \in Seq(U \cup {y}) /\ Followed(a, x.then, y)
      BY <3>3 DEF Followed
    <3> HIDE DEF a
    <3> QED BY <1>1, <1>3, <2>1, <2>2, <3>1, <3>4, <3>5, MovesTurn DEF x
  <2> QED BY <1>13, <2>1, <2>3, <2>4 DEF DoLoop, Then
<1>14. CASE DoAgain
  <2>1. todo # << >> /\ x.op = "again" /\ Head(todo) = x /\ Live(x)
    BY <1>4, <1>5, <1>14 DEF DoAgain
  <2>2. tokens' = tokens /\ KeepsError
    BY <1>6, <1>14 DEF DoAgain
  <2>3. Row(Append(x.then, x))
    <3>1. Row(x.then) /\ Written(x)
      BY <2>1, WrittenMade DEF Live
    <3> QED BY <3>1, RowThen
  <2>4. CASE pos' = pos + 1 /\ todo' = Append(x.then, x) \o Tail(todo)
    BY <1>1, <1>3, <2>1, <2>3, <2>4, MovesAdvance
  <2>5. CASE pos' = pos /\ todo' = << >> \o Tail(todo)
    BY <1>1, <1>3, <1>7, <1>8, <2>1, <2>2, <2>5, MovesOther DEF x
  <2> QED BY <1>14, <2>1, <2>4, <2>5 DEF DoAgain, Advance, Then
<1>15. CASE DoBreak
  <2>1. todo # << >> /\ x.op = "break" /\ todo' = Behind(Running)
    BY <1>5, <1>15 DEF DoBreak
  <2>2. tokens' = tokens /\ pos' = pos /\ ret' = ret /\ KeepsError
    BY <1>6, <1>15 DEF DoBreak
  <2> QED BY <1>1, <1>3, <2>1, <2>2, MovesBreak DEF x
<1>16. CASE DoCall
  <2>1. todo # << >> /\ x.op = "call" /\ Head(todo) = x
    BY <1>5, <1>16 DEF DoCall
  <2>2. x.f \in Functions
    BY <1>4, <2>1 DEF PartsOf
  <2>3. /\ todo' = Append(Body(x.f, x.bp), End) \o Tail(todo)
        /\ tokens' = tokens /\ pos' = pos /\ ret' = ret /\ KeepsError
    BY <1>6, <1>16, <2>1 DEF DoCall, Then
  <2> QED BY <1>1, <1>3, <2>1, <2>2, <2>3, MovesCall DEF x
<1>17. CASE DoEnd
  <2>1. todo # << >> /\ x.op = "end" /\ todo' = << >> \o Tail(todo)
    BY <1>5, <1>17 DEF DoEnd, Then
  <2>2. tokens' = tokens /\ pos' = pos /\ KeepsError
    BY <1>6, <1>17 DEF DoEnd
  <2> QED BY <1>1, <1>3, <1>7, <1>8, <2>1, <2>2, MovesOther DEF x
<1>18. CASE DoReturn
  <2>1. todo # << >> /\ x.op = "return" /\ Head(todo) = x /\ todo' = Behind(FunctionEnd)
    BY <1>5, <1>18 DEF DoReturn
  <2>2. tokens' = tokens /\ pos' = pos /\ KeepsError
    BY <1>6, <1>18 DEF DoReturn
  <2>3. x = Return("null") => ret' = "null"
    BY <1>18, <2>1 DEF DoReturn, Return
  <2> QED BY <1>1, <1>3, <2>1, <2>2, <2>3, MovesReturn DEF x
<1>19. CASE DoIfNull
  <2>1. todo # << >> /\ x.op = "ifnull" /\ Head(todo) = x
    BY <1>5, <1>19 DEF DoIfNull
  <2>2. tokens' = tokens /\ pos' = pos /\ ret' = ret /\ KeepsError
    BY <1>6, <1>19 DEF DoIfNull
  <2>3. todo' = (IF ret = "null" THEN x.then ELSE << >>) \o Tail(todo)
    BY <1>19, <2>1 DEF DoIfNull, Then
  <2> QED BY <1>1, <1>3, <2>1, <2>2, <2>3, MovesIfNull DEF x
<1>20. CASE DoError
  <2>1. todo # << >> /\ x.op = "error" /\ todo' = << >> \o Tail(todo)
    BY <1>5, <1>20 DEF DoError, Then
  <2>2. tokens' = tokens /\ pos' = pos /\ KeepsError
    BY <1>20 DEF DoError, KeepsError
  <2> QED BY <1>1, <1>3, <2>1, <2>2, MovesError DEF x
<1>21. CASE DoInfix
  <2>1. todo # << >> /\ x.op = "infix"
    BY <1>5, <1>21 DEF DoInfix
  <2>2. tokens' = tokens /\ KeepsError
    BY <1>6, <1>21 DEF DoInfix
  <2>3. PICK a : /\ Row(a) /\ todo' = a \o Tail(todo)
                 /\ pos' = pos + 1 \/ pos' = pos
    <3>1. \A n, m : Row(<<Call("expr_bp", n), IfNull(<<Return("node")>>), Infix(m)>>)
      BY WrittenSimple, RowTuples, Writing
    <3> QED BY <1>7, <1>21, <3>1 DEF DoInfix, Then, Advance
  <2>4. CASE pos' = pos + 1
    BY <1>1, <1>3, <2>1, <2>3, <2>4, MovesAdvance
  <2>5. CASE pos' = pos
    BY <1>1, <1>3, <1>8, <2>1, <2>2, <2>3, <2>5, MovesOther DEF x
  <2> QED BY <2>3, <2>4, <2>5
<1>22. CASE DoGenerics
  <2>1. todo # << >> /\ x.op = "generics"
    BY <1>5, <1>22 DEF DoGenerics
  <2>2. tokens' = tokens /\ pos' = pos /\ KeepsError
    BY <1>6, <1>22 DEF DoGenerics
  <2>3. PICK a : Row(a) /\ todo' = a \o Tail(todo)
    BY <1>7, <1>22, GenericParamsWritten DEF DoGenerics, Then
  <2> QED BY <1>1, <1>3, <1>8, <2>1, <2>2, <2>3, MovesOther DEF x
<1>23. CASE DoUnsafeFn
  <2>1. todo # << >> /\ x.op = "unsafe fn" /\ Head(todo) = x
    BY <1>5, <1>23 DEF DoUnsafeFn
  <2>2. tokens' = tokens /\ pos' = pos /\ KeepsError
    BY <1>6, <1>23 DEF DoUnsafeFn
  <2>3. PICK a : UnsafeParts(x, a) /\ todo' = a \o Tail(todo)
    BY <1>23, <2>1 DEF DoUnsafeFn, Then, UnsafeParts
  <2> QED BY <1>1, <1>3, <2>1, <2>2, <2>3, MovesUnsafe DEF x
<1>24. CASE UNCHANGED vars
  <2>1. todo' = todo /\ pos' = pos /\ tokens' = tokens /\ ret' = ret /\ KeepsError
    BY <1>6, <1>24 DEF vars
  <2> QED BY <2>1, MovesSame
<1> QED BY <1>9, <1>10, <1>11, <1>12, <1>13, <1>14, <1>15, <1>16, <1>17, <1>18, <1>19, <1>20,
           <1>21, <1>22, <1>23, <1>24 DEF Next

LEMMA MovingLoops == ParserInv /\ Moving => OnlyMatchArmsGetStuck
<1> SUFFICES ASSUME ParserInv, Moving, Doing("loop"), StuckIn(Head(todo).name)
             PROVE  Head(todo).name = "match arms" /\ had_error
  BY DEF OnlyMatchArmsGetStuck
<1>1. pos \in Nat /\ Ready(todo)
  BY DEF ParserInv, TypeOK
<1>2. PICK T : todo \in Seq(T)
  BY <1>1, PointwiseFits DEF Ready
<1> DEFINE x == todo[1]
<1>3. todo # << >> /\ Head(todo) = x /\ 1 \in 1 .. Len(todo)
  BY <1>2 DEF Doing
<1> HIDE DEF x
<1>4. x.op = "loop" /\ x.from = pos /\ ~LoopEnds(x)
  BY <1>3 DEF Doing, StuckIn
<1>5. parser_current # "eof"
  BY <1>4 DEF LoopEnds
<1>6. Running(x)
  BY <1>1, <1>4 DEF Running
<1>7. Goes(todo, 1, parser_current, ret) \/ (x.name = "match arms" /\ had_error)
  BY <1>3, <1>4, <1>5, <1>6, Zenon DEF Moving, x
<1>8. ~Certain(todo, parser_current)
  BY <1>2, <1>4, CertainHead DEF Takes, x
<1>9. ~Guarded(todo, 1)
  BY DEF Guarded
<1>10. ~AtTop(todo, 1, ret)
  <2>1. ~TopFrom(todo, 1, 1) /\ ~TopFrom(todo, 1, 3)
    BY DEF TopFrom
  <2> QED BY <2>1 DEF AtTop
<1> QED BY <1>3, <1>7, <1>8, <1>9, <1>10, Zenon DEF Goes

-----------------------------------------------------------------------------
(* Brackets: what each thing opens and closes *)

Brackets == {"(", ")", "[", "]", "{", "}"}
\* The brackets to be closed.
Stacks == Seq(Brackets)
NoBracket(K) == \A t \in K : t \notin Brackets

\* A token of K turns the brackets to be closed from a into b.
Took(K, a, b) ==
  \/ NoBracket(K) /\ b = a
  \/ \E t \in DOMAIN Closing : K = {t} /\ b = Append(a, Closing[t])
  \/ \E t \in Brackets \ DOMAIN Closing : K = {t} /\ a = Append(b, t)

\* s starts with a message.
Fails(s) == (\E T : s \in Seq(T)) /\ Len(s) >= 1 /\ s[1] = Error
\* Neither a loop that is in a turn nor the end of a function.
Fresh(x) == x.op # "end" /\ ~Running(x)

\* s leads from a to b through things of J. Its loop is left with one of l, its
\* function with one of f.
PathIn(J, s, a, b, l, f) ==
  /\ \E T : s \in Seq(T)
  /\ \A i \in 1 .. Len(s) : Fresh(s[i])
  /\ \E w \in [0 .. Len(s) -> Stacks] :
       /\ w[0] = a /\ w[Len(s)] = b
       /\ \A i \in 1 .. Len(s) : <<s[i], w[i - 1], w[i], l, f>> \in J
PassIn(J, s, a, b, l, f) == Fails(s) \/ PathIn(J, s, a, b, l, f)
TakeIn(J, s, a, b, l, f) == \E r : s = <<Take>> \o r /\ PathIn(J, r, a, b, l, f)

\* Done without an error, x leads from a to b, if its parts are of J.
Rule(J, x, a, b, l, f) ==
  /\ a \in Stacks /\ b \in Stacks
  /\ \/ x.op = "expect" /\ Took(x.of, a, b)
     \/ /\ x.op = "match"
        /\ \E c \in Stacks : Took(x.of, a, c) /\ PassIn(J, x.then, c, b, l, f)
        /\ PassIn(J, x.else, a, b, l, f)
     \/ /\ x.op = "check"
        /\ \/ PassIn(J, x.then, a, b, l, f)
           \/ NoBracket(x.of) /\ TakeIn(J, x.then, a, b, l, f)
        /\ PassIn(J, x.else, a, b, l, f)
     \/ x.op = "loop" /\ a = b /\ PassIn(J, x.then, a, a, {a}, f)
     \/ x.op = "again" /\ a = b /\ NoBracket(x.of) /\ PathIn(J, x.then, a, a, l, f)
     \/ x.op = "break" /\ a \in l
     \/ x.op = "return" /\ a \in f
     \/ x.op = "unsafe fn" /\ a = b /\ PassIn(J, x.then, a, a, l, f)
     \/ x.op \in {"call", "ifnull", "infix", "end", "generics"} /\ a = b
     \/ x.op = "error"

Sound(J) == \A x, a, b, l, f : <<x, a, b, l, f>> \in J => Rule(J, x, a, b, l, f)
Leads(x, a, b, l, f) == \E J : <<x, a, b, l, f>> \in J /\ Sound(J)

LEMMA PathMore ==
  ASSUME NEW J, NEW R, J \subseteq R, NEW s, NEW a, NEW b, NEW l, NEW f
  PROVE  /\ PathIn(J, s, a, b, l, f) => PathIn(R, s, a, b, l, f)
         /\ PassIn(J, s, a, b, l, f) => PassIn(R, s, a, b, l, f)
         /\ TakeIn(J, s, a, b, l, f) => TakeIn(R, s, a, b, l, f)
<1>1. \A r : PathIn(J, r, a, b, l, f) => PathIn(R, r, a, b, l, f)
  <2> TAKE r
  <2> SUFFICES ASSUME PathIn(J, r, a, b, l, f) PROVE PathIn(R, r, a, b, l, f)
    OBVIOUS
  <2>1. PICK w \in [0 .. Len(r) -> Stacks] :
          /\ w[0] = a /\ w[Len(r)] = b
          /\ \A i \in 1 .. Len(r) : <<r[i], w[i - 1], w[i], l, f>> \in J
    BY DEF PathIn
  <2>2. \A i \in 1 .. Len(r) : <<r[i], w[i - 1], w[i], l, f>> \in R
    BY <2>1
  <2> QED BY <2>1, <2>2, Zenon DEF PathIn
<1> QED BY <1>1, Zenon DEF PassIn, TakeIn

LEMMA RuleMore ==
  ASSUME NEW J, NEW R, J \subseteq R, NEW x, NEW a, NEW b, NEW l, NEW f, Rule(J, x, a, b, l, f)
  PROVE  Rule(R, x, a, b, l, f)
<1>1. \A s, c, d, m, g : /\ PathIn(J, s, c, d, m, g) => PathIn(R, s, c, d, m, g)
                         /\ PassIn(J, s, c, d, m, g) => PassIn(R, s, c, d, m, g)
                         /\ TakeIn(J, s, c, d, m, g) => TakeIn(R, s, c, d, m, g)
  BY PathMore
<1> QED BY <1>1, Zenon DEF Rule

\* What a thing leads to is what its parts lead to.
LEMMA LeadsParts ==
  ASSUME NEW x, NEW a, NEW b, NEW l, NEW f, Leads(x, a, b, l, f)
  PROVE  \E J : Sound(J) /\ Rule(J, x, a, b, l, f)
BY DEF Leads, Sound

\* The ways through s, with parts from any sound set.
Path(s, a, b, l, f) == \E J : Sound(J) /\ PathIn(J, s, a, b, l, f)
Pass(s, a, b, l, f) == \E J : Sound(J) /\ PassIn(J, s, a, b, l, f)
TakePath(s, a, b, l, f) == \E J : Sound(J) /\ TakeIn(J, s, a, b, l, f)

\* Sound sets can be joined.
LEMMA SoundJoined ==
  ASSUME NEW J, NEW R, Sound(J), Sound(R)
  PROVE  \E Q : Sound(Q) /\ J \subseteq Q /\ R \subseteq Q
<1> DEFINE Q == J \cup R
<1>1. J \subseteq Q /\ R \subseteq Q /\ \A y \in Q : y \in J \/ y \in R
  OBVIOUS
<1> HIDE DEF Q
<1>2. ASSUME NEW x, NEW a, NEW b, NEW l, NEW f, <<x, a, b, l, f>> \in Q
      PROVE  Rule(Q, x, a, b, l, f)
  <2>1. Rule(J, x, a, b, l, f) \/ Rule(R, x, a, b, l, f)
    BY <1>1, <1>2 DEF Sound
  <2> QED BY <1>1, <2>1, RuleMore
<1>3. Sound(Q)
  BY <1>2 DEF Sound
<1> QED BY <1>1, <1>3

LEMMA LeadsMade ==
  ASSUME NEW J, Sound(J), NEW x, NEW a, NEW b, NEW l, NEW f, Rule(J, x, a, b, l, f)
  PROVE  Leads(x, a, b, l, f)
<1> DEFINE Q == J \cup {<<x, a, b, l, f>>}
<1>1. J \subseteq Q /\ <<x, a, b, l, f>> \in Q
  OBVIOUS
<1>2. ASSUME NEW y, NEW c, NEW d, NEW m, NEW g, <<y, c, d, m, g>> \in Q
      PROVE  Rule(Q, y, c, d, m, g)
  <2>1. Rule(J, y, c, d, m, g)
    <3>1. CASE <<y, c, d, m, g>> \in J
      BY <3>1 DEF Sound
    <3>2. CASE <<y, c, d, m, g>> = <<x, a, b, l, f>>
      <4>1. y = x /\ c = a /\ d = b /\ m = l /\ g = f
        BY <3>2
      <4> QED BY <4>1
    <3> QED BY <1>2, <3>1, <3>2
  <2> HIDE DEF Q
  <2> QED BY <1>1, <2>1, RuleMore
<1> HIDE DEF Q
<1>3. Sound(Q)
  BY <1>2 DEF Sound
<1> QED BY <1>1, <1>3 DEF Leads

LEMMA PathMade ==
  ASSUME NEW T, NEW s \in Seq(T), NEW w \in [0 .. Len(s) -> Stacks], NEW l, NEW f,
         \A i \in 1 .. Len(s) : Fresh(s[i]) /\ Leads(s[i], w[i - 1], w[i], l, f)
  PROVE  Path(s, w[0], w[Len(s)], l, f)
<1> DEFINE Around(i) == CHOOSE J : <<s[i], w[i - 1], w[i], l, f>> \in J /\ Sound(J)
           Q == UNION {Around(i) : i \in 1 .. Len(s)}
<1>1. \A i \in 1 .. Len(s) : <<s[i], w[i - 1], w[i], l, f>> \in Around(i) /\ Sound(Around(i))
  BY DEF Leads
<1> HIDE DEF Around
<1>2. \A i \in 1 .. Len(s) : Around(i) \subseteq Q
  OBVIOUS
<1>3. \A y \in Q : \E i \in 1 .. Len(s) : y \in Around(i)
  OBVIOUS
<1> HIDE DEF Q
<1>4. ASSUME NEW x, NEW a, NEW b, NEW m, NEW g, <<x, a, b, m, g>> \in Q
      PROVE  Rule(Q, x, a, b, m, g)
  <2>1. PICK i \in 1 .. Len(s) : <<x, a, b, m, g>> \in Around(i)
    BY <1>3, <1>4
  <2>2. Rule(Around(i), x, a, b, m, g)
    BY <1>1, <2>1 DEF Sound
  <2> QED BY <1>2, <2>2, RuleMore
<1>5. Sound(Q)
  BY <1>4 DEF Sound
<1>6. \A i \in 1 .. Len(s) : <<s[i], w[i - 1], w[i], l, f>> \in Q
  BY <1>1, <1>2
<1>7. PathIn(Q, s, w[0], w[Len(s)], l, f)
  <2>1. \A i \in 1 .. Len(s) : Fresh(s[i])
    OBVIOUS
  <2> QED BY <1>6, <2>1, Zenon DEF PathIn
<1> QED BY <1>5, <1>7, Zenon DEF Path

LEMMA PathPoints ==
  ASSUME NEW s, NEW a, NEW b, NEW l, NEW f, Path(s, a, b, l, f)
  PROVE  /\ \E T : s \in Seq(T)
         /\ \E w \in [0 .. Len(s) -> Stacks] :
              /\ w[0] = a /\ w[Len(s)] = b
              /\ \A i \in 1 .. Len(s) : Fresh(s[i]) /\ Leads(s[i], w[i - 1], w[i], l, f)
<1>1. PICK J : Sound(J) /\ PathIn(J, s, a, b, l, f)
  BY DEF Path
<1>2. PICK w \in [0 .. Len(s) -> Stacks] :
        /\ w[0] = a /\ w[Len(s)] = b
        /\ \A i \in 1 .. Len(s) : <<s[i], w[i - 1], w[i], l, f>> \in J
  BY <1>1 DEF PathIn
<1>3. \A i \in 1 .. Len(s) : Fresh(s[i]) /\ Leads(s[i], w[i - 1], w[i], l, f)
  BY <1>1, <1>2 DEF PathIn, Leads
<1> QED BY <1>1, <1>2, <1>3 DEF PathIn

\* Rule, of things in general.
Does(x, a, b, l, f) ==
  /\ a \in Stacks /\ b \in Stacks
  /\ \/ x.op = "expect" /\ Took(x.of, a, b)
     \/ /\ x.op = "match"
        /\ \E c \in Stacks : Took(x.of, a, c) /\ Pass(x.then, c, b, l, f)
        /\ Pass(x.else, a, b, l, f)
     \/ /\ x.op = "check"
        /\ \/ Pass(x.then, a, b, l, f)
           \/ NoBracket(x.of) /\ TakePath(x.then, a, b, l, f)
        /\ Pass(x.else, a, b, l, f)
     \/ x.op = "loop" /\ a = b /\ Pass(x.then, a, a, {a}, f)
     \/ x.op = "again" /\ a = b /\ NoBracket(x.of) /\ Path(x.then, a, a, l, f)
     \/ x.op = "break" /\ a \in l
     \/ x.op = "return" /\ a \in f
     \/ x.op = "unsafe fn" /\ a = b /\ Pass(x.then, a, a, l, f)
     \/ x.op \in {"call", "ifnull", "infix", "end", "generics"} /\ a = b
     \/ x.op = "error"

LEMMA LeadsDoes ==
  ASSUME NEW x, NEW a, NEW b, NEW l, NEW f
  PROVE  Leads(x, a, b, l, f) <=> Does(x, a, b, l, f)
<1>1. ASSUME Leads(x, a, b, l, f) PROVE Does(x, a, b, l, f)
  <2>1. PICK J : Sound(J) /\ Rule(J, x, a, b, l, f)
    BY <1>1, LeadsParts
  <2>2. \A s, c, d, m, g : /\ PathIn(J, s, c, d, m, g) => Path(s, c, d, m, g)
                           /\ PassIn(J, s, c, d, m, g) => Pass(s, c, d, m, g)
                           /\ TakeIn(J, s, c, d, m, g) => TakePath(s, c, d, m, g)
    BY <2>1, Zenon DEF Path, Pass, TakePath
  <2> QED BY <2>1, <2>2, Zenon DEF Rule, Does
<1>2. ASSUME Does(x, a, b, l, f) PROVE Leads(x, a, b, l, f)
  <2> DEFINE Small == \/ x.op = "expect" /\ Took(x.of, a, b)
                      \/ x.op = "break" /\ a \in l
                      \/ x.op = "return" /\ a \in f
                      \/ x.op \in {"call", "ifnull", "infix", "end", "generics"} /\ a = b
                      \/ x.op = "error"
  <2>1. a \in Stacks /\ b \in Stacks
    BY <1>2 DEF Does
  <2>2. CASE Small
    <3>1. Rule({}, x, a, b, l, f)
      BY <2>1, <2>2, Zenon DEF Rule
    <3>2. Sound({})
      BY DEF Sound
    <3> QED BY <3>1, <3>2, LeadsMade
  <2>3. CASE /\ x.op = "match"
             /\ \E c \in Stacks : Took(x.of, a, c) /\ Pass(x.then, c, b, l, f)
             /\ Pass(x.else, a, b, l, f)
    <3>1. PICK c \in Stacks : Took(x.of, a, c) /\ Pass(x.then, c, b, l, f)
      BY <2>3
    <3>2. PICK J : Sound(J) /\ PassIn(J, x.then, c, b, l, f)
      BY <3>1 DEF Pass
    <3>3. PICK R : Sound(R) /\ PassIn(R, x.else, a, b, l, f)
      BY <2>3 DEF Pass
    <3>4. PICK Q : Sound(Q) /\ J \subseteq Q /\ R \subseteq Q
      BY <3>2, <3>3, SoundJoined
    <3>5. PassIn(Q, x.then, c, b, l, f) /\ PassIn(Q, x.else, a, b, l, f)
      BY <3>2, <3>3, <3>4, PathMore
    <3>6. Rule(Q, x, a, b, l, f)
      BY <2>1, <2>3, <3>1, <3>5, Zenon DEF Rule
    <3> QED BY <3>4, <3>6, LeadsMade
  <2>4. CASE /\ x.op = "check"
             /\ \/ Pass(x.then, a, b, l, f)
                \/ NoBracket(x.of) /\ TakePath(x.then, a, b, l, f)
             /\ Pass(x.else, a, b, l, f)
    <3>1. PICK J : /\ Sound(J)
                   /\ \/ PassIn(J, x.then, a, b, l, f)
                      \/ NoBracket(x.of) /\ TakeIn(J, x.then, a, b, l, f)
      BY <2>4, Zenon DEF Pass, TakePath
    <3>2. PICK R : Sound(R) /\ PassIn(R, x.else, a, b, l, f)
      BY <2>4 DEF Pass
    <3>3. PICK Q : Sound(Q) /\ J \subseteq Q /\ R \subseteq Q
      BY <3>1, <3>2, SoundJoined
    <3>4. /\ \/ PassIn(Q, x.then, a, b, l, f)
             \/ NoBracket(x.of) /\ TakeIn(Q, x.then, a, b, l, f)
          /\ PassIn(Q, x.else, a, b, l, f)
      BY <3>1, <3>2, <3>3, PathMore
    <3>5. Rule(Q, x, a, b, l, f)
      BY <2>1, <2>4, <3>4, Zenon DEF Rule
    <3> QED BY <3>3, <3>5, LeadsMade
  <2>5. CASE x.op = "loop" /\ a = b /\ Pass(x.then, a, a, {a}, f)
    <3>1. PICK J : Sound(J) /\ PassIn(J, x.then, a, a, {a}, f)
      BY <2>5 DEF Pass
    <3>2. Rule(J, x, a, b, l, f)
      BY <2>1, <2>5, <3>1, Zenon DEF Rule
    <3> QED BY <3>1, <3>2, LeadsMade
  <2>6. CASE x.op = "again" /\ a = b /\ NoBracket(x.of) /\ Path(x.then, a, a, l, f)
    <3>1. PICK J : Sound(J) /\ PathIn(J, x.then, a, a, l, f)
      BY <2>6 DEF Path
    <3>2. Rule(J, x, a, b, l, f)
      BY <2>1, <2>6, <3>1, Zenon DEF Rule
    <3> QED BY <3>1, <3>2, LeadsMade
  <2>7. CASE x.op = "unsafe fn" /\ a = b /\ Pass(x.then, a, a, l, f)
    <3>1. PICK J : Sound(J) /\ PassIn(J, x.then, a, a, l, f)
      BY <2>7 DEF Pass
    <3>2. Rule(J, x, a, b, l, f)
      BY <2>1, <2>7, <3>1, Zenon DEF Rule
    <3> QED BY <3>1, <3>2, LeadsMade
  <2> QED BY <1>2, <2>2, <2>3, <2>4, <2>5, <2>6, <2>7, Zenon DEF Does
<1> QED BY <1>1, <1>2

LEMMA PassIs ==
  ASSUME NEW s, NEW a, NEW b, NEW l, NEW f
  PROVE  /\ Pass(s, a, b, l, f) <=> Fails(s) \/ Path(s, a, b, l, f)
         /\ TakePath(s, a, b, l, f) <=> \E r : s = <<Take>> \o r /\ Path(r, a, b, l, f)
<1>1. Sound({})
  BY DEF Sound
<1>2. Pass(s, a, b, l, f) <=> Fails(s) \/ Path(s, a, b, l, f)
  BY <1>1, Zenon DEF Pass, PassIn, Path
<1>3. TakePath(s, a, b, l, f) <=> \E r : s = <<Take>> \o r /\ Path(r, a, b, l, f)
  BY Zenon DEF TakePath, TakeIn, Path
<1> QED BY <1>2, <1>3, Zenon

\* A thing of a sequence that leads from a to b, or back to a.
Step(x, a, b, l, f) == Fresh(x) /\ Leads(x, a, b, l, f)
Flat(x, a, l, f) == Step(x, a, a, l, f)

LEMMA PathEmpty ==
  ASSUME NEW a \in Stacks, NEW l, NEW f
  PROVE  Path(<< >>, a, a, l, f)
<1> DEFINE w == [k \in 0 .. 0 |-> a]
<1>1. << >> \in Seq({}) /\ Len(<< >>) = 0 /\ w \in [0 .. 0 -> Stacks] /\ w[0] = a
  OBVIOUS
<1>2. \A i \in 1 .. Len(<< >>) : FALSE
  OBVIOUS
<1> HIDE DEF w
<1> QED BY <1>1, <1>2, PathMade

LEMMA PathThen ==
  ASSUME NEW s, NEW t, NEW a, NEW b, NEW c, NEW l, NEW f, Path(s, a, b, l, f), Path(t, b, c, l, f)
  PROVE  Path(s \o t, a, c, l, f)
<1> DEFINE Way(r, w, i) == Fresh(r[i]) /\ Leads(r[i], w[i - 1], w[i], l, f)
<1>1. PICK v \in [0 .. Len(s) -> Stacks] :
        v[0] = a /\ v[Len(s)] = b /\ \A i \in 1 .. Len(s) : Way(s, v, i)
  BY PathPoints
<1>2. PICK w \in [0 .. Len(t) -> Stacks] :
        w[0] = b /\ w[Len(t)] = c /\ \A i \in 1 .. Len(t) : Way(t, w, i)
  BY PathPoints
<1>0. PICK S, T : s \in Seq(S) /\ t \in Seq(T)
  BY PathPoints
<1> HIDE DEF Way
<1> DEFINE r == s \o t
           u == [i \in 0 .. Len(s) + Len(t) |-> IF i <= Len(s) THEN v[i] ELSE w[i - Len(s)]]
<1>3. s \in Seq(S \cup T) /\ t \in Seq(S \cup T)
  BY <1>0
<1>4. /\ r \in Seq(S \cup T) /\ Len(s) \in Nat /\ Len(t) \in Nat /\ Len(r) = Len(s) + Len(t)
      /\ \A i \in 1 .. Len(s) : r[i] = s[i]
      /\ \A i \in 1 .. Len(t) : r[Len(s) + i] = t[i]
  BY <1>3
<1> HIDE DEF r
<1>5. \A i \in 0 .. Len(s) : u[i] = v[i]
  BY <1>4
<1>6. ASSUME NEW i \in 0 .. Len(t) PROVE u[Len(s) + i] = w[i]
  <2>1. Len(s) + i \in 0 .. Len(s) + Len(t) /\ (Len(s) + i) - Len(s) = i
    BY <1>4
  <2>2. CASE i = 0
    BY <1>1, <1>2, <1>4, <2>1, <2>2
  <2>3. CASE i # 0
    <3>1. ~(Len(s) + i <= Len(s))
      BY <1>4, <2>3
    <3> QED BY <2>1, <3>1
  <2> QED BY <2>2, <2>3
<1>7. u \in [0 .. Len(r) -> Stacks]
  BY <1>4
<1> HIDE DEF u
<1>8. u[0] = a /\ u[Len(r)] = c
  BY <1>1, <1>2, <1>4, <1>5, <1>6
<1>9. ASSUME NEW i \in 1 .. Len(r) PROVE Way(r, u, i)
  <2>1. CASE i <= Len(s)
    <3>1. i \in 1 .. Len(s) /\ i \in 0 .. Len(s) /\ i - 1 \in 0 .. Len(s)
      BY <1>4, <2>1
    <3>2. r[i] = s[i] /\ u[i] = v[i] /\ u[i - 1] = v[i - 1] /\ Way(s, v, i)
      BY <1>1, <1>4, <1>5, <3>1
    <3> QED BY <3>2 DEF Way
  <2>2. CASE ~(i <= Len(s))
    <3> DEFINE k == i - Len(s)
    <3>1. /\ k \in 1 .. Len(t) /\ k \in 0 .. Len(t) /\ k - 1 \in 0 .. Len(t)
          /\ i = Len(s) + k /\ i - 1 = Len(s) + (k - 1)
      BY <1>4, <2>2
    <3> HIDE DEF k
    <3>2. r[i] = t[k] /\ u[i] = w[k] /\ u[i - 1] = w[k - 1] /\ Way(t, w, k)
      BY <1>2, <1>4, <1>6, <3>1
    <3> QED BY <3>2 DEF Way
  <2> QED BY <2>1, <2>2
<1>10. Path(r, u[0], u[Len(r)], l, f)
  BY <1>4, <1>7, <1>9, PathMade DEF Way
<1> QED BY <1>8, <1>10 DEF r

LEMMA PathSingle ==
  ASSUME NEW x, NEW a \in Stacks, NEW b \in Stacks, NEW l, NEW f, Step(x, a, b, l, f)
  PROVE  Path(<<x>>, a, b, l, f)
<1> DEFINE s == <<x>>
           w == [k \in 0 .. 1 |-> IF k = 0 THEN a ELSE b]
<1>1. s \in Seq({x}) /\ Len(s) = 1 /\ w \in [0 .. 1 -> Stacks] /\ w[0] = a /\ w[1] = b /\ s[1] = x
  OBVIOUS
<1> HIDE DEF s, w
<1>2. \A i \in 1 .. Len(s) : Step(s[i], w[i - 1], w[i], l, f)
  BY <1>1
<1>3. Path(s, w[0], w[Len(s)], l, f)
  BY <1>1, <1>2, PathMade DEF Step
<1> QED BY <1>1, <1>3 DEF s

LEMMA PathAppend ==
  ASSUME NEW s, NEW x, NEW a, NEW b \in Stacks, NEW c \in Stacks, NEW l, NEW f,
         Path(s, a, b, l, f), Step(x, b, c, l, f)
  PROVE  Path(Append(s, x), a, c, l, f)
<1>1. Path(<<x>>, b, c, l, f)
  BY PathSingle
<1>2. PICK T : s \in Seq(T)
  BY PathPoints
<1>3. Append(s, x) = s \o <<x>>
  BY <1>2
<1> QED BY <1>1, <1>3, PathThen

LEMMA Chain2 ==
  ASSUME NEW x, NEW y, NEW l, NEW f,
         NEW a \in Stacks, NEW b \in Stacks, NEW c \in Stacks,
         Step(x, a, b, l, f), Step(y, b, c, l, f)
  PROVE  Path(<<x, y>>, a, c, l, f)
<1>1. Path(<<x>>, a, b, l, f)
  BY PathSingle
<1>2. <<x, y>> = Append(<<x>>, y)
  OBVIOUS
<1> QED BY <1>1, <1>2, PathAppend

LEMMA Chain3 ==
  ASSUME NEW x, NEW y, NEW z, NEW l, NEW f,
         NEW a \in Stacks, NEW b \in Stacks, NEW c \in Stacks, NEW d \in Stacks,
         Step(x, a, b, l, f), Step(y, b, c, l, f), Step(z, c, d, l, f)
  PROVE  Path(<<x, y, z>>, a, d, l, f)
<1>1. Path(<<x, y>>, a, c, l, f)
  BY Chain2
<1>2. <<x, y, z>> = Append(<<x, y>>, z)
  OBVIOUS
<1> QED BY <1>1, <1>2, PathAppend

LEMMA Chain4 ==
  ASSUME NEW x, NEW y, NEW z, NEW u, NEW l, NEW f,
         NEW a \in Stacks, NEW b \in Stacks, NEW c \in Stacks, NEW d \in Stacks,
         NEW e \in Stacks,
         Step(x, a, b, l, f), Step(y, b, c, l, f), Step(z, c, d, l, f),
         Step(u, d, e, l, f)
  PROVE  Path(<<x, y, z, u>>, a, e, l, f)
<1>1. Path(<<x, y, z>>, a, d, l, f)
  BY Chain3
<1>2. <<x, y, z, u>> = Append(<<x, y, z>>, u)
  OBVIOUS
<1> QED BY <1>1, <1>2, PathAppend

LEMMA Chain5 ==
  ASSUME NEW x, NEW y, NEW z, NEW u, NEW v, NEW l, NEW f,
         NEW a \in Stacks, NEW b \in Stacks, NEW c \in Stacks, NEW d \in Stacks,
         NEW e \in Stacks, NEW g \in Stacks,
         Step(x, a, b, l, f), Step(y, b, c, l, f), Step(z, c, d, l, f),
         Step(u, d, e, l, f), Step(v, e, g, l, f)
  PROVE  Path(<<x, y, z, u, v>>, a, g, l, f)
<1>1. Path(<<x, y, z, u>>, a, e, l, f)
  BY Chain4
<1>2. <<x, y, z, u, v>> = Append(<<x, y, z, u>>, v)
  OBVIOUS
<1> QED BY <1>1, <1>2, PathAppend

LEMMA Chain6 ==
  ASSUME NEW x, NEW y, NEW z, NEW u, NEW v, NEW p, NEW l, NEW f,
         NEW a \in Stacks, NEW b \in Stacks, NEW c \in Stacks, NEW d \in Stacks,
         NEW e \in Stacks, NEW g \in Stacks, NEW h \in Stacks,
         Step(x, a, b, l, f), Step(y, b, c, l, f), Step(z, c, d, l, f),
         Step(u, d, e, l, f), Step(v, e, g, l, f), Step(p, g, h, l, f)
  PROVE  Path(<<x, y, z, u, v, p>>, a, h, l, f)
<1>1. Path(<<x, y, z, u, v>>, a, g, l, f)
  BY Chain5
<1>2. <<x, y, z, u, v, p>> = Append(<<x, y, z, u, v>>, p)
  OBVIOUS
<1> QED BY <1>1, <1>2, PathAppend

LEMMA Chain7 ==
  ASSUME NEW x, NEW y, NEW z, NEW u, NEW v, NEW p, NEW q, NEW l, NEW f,
         NEW a \in Stacks, NEW b \in Stacks, NEW c \in Stacks, NEW d \in Stacks,
         NEW e \in Stacks, NEW g \in Stacks, NEW h \in Stacks, NEW k \in Stacks,
         Step(x, a, b, l, f), Step(y, b, c, l, f), Step(z, c, d, l, f),
         Step(u, d, e, l, f), Step(v, e, g, l, f), Step(p, g, h, l, f),
         Step(q, h, k, l, f)
  PROVE  Path(<<x, y, z, u, v, p, q>>, a, k, l, f)
<1>1. Path(<<x, y, z, u, v, p>>, a, h, l, f)
  BY Chain6
<1>2. <<x, y, z, u, v, p, q>> = Append(<<x, y, z, u, v, p>>, q)
  OBVIOUS
<1> QED BY <1>1, <1>2, PathAppend

LEMMA FlatTuples ==
  /\ \A a \in Stacks : \A l, f : Path(<< >>, a, a, l, f)
  /\ \A a \in Stacks : \A l, f, x :
       Flat(x, a, l, f)
       => Path(<<x>>, a, a, l, f)
  /\ \A a \in Stacks : \A l, f, x, y :
       Flat(x, a, l, f) /\ Flat(y, a, l, f)
       => Path(<<x, y>>, a, a, l, f)
  /\ \A a \in Stacks : \A l, f, x, y, z :
       Flat(x, a, l, f) /\ Flat(y, a, l, f) /\ Flat(z, a, l, f)
       => Path(<<x, y, z>>, a, a, l, f)
  /\ \A a \in Stacks : \A l, f, x, y, z, u :
       Flat(x, a, l, f) /\ Flat(y, a, l, f) /\ Flat(z, a, l, f) /\ Flat(u, a, l, f)
       => Path(<<x, y, z, u>>, a, a, l, f)
  /\ \A a \in Stacks : \A l, f, x, y, z, u, v :
       /\ Flat(x, a, l, f) /\ Flat(y, a, l, f) /\ Flat(z, a, l, f) /\ Flat(u, a, l, f)
       /\ Flat(v, a, l, f)
       => Path(<<x, y, z, u, v>>, a, a, l, f)
  /\ \A a \in Stacks : \A l, f, x, y, z, u, v, p :
       /\ Flat(x, a, l, f) /\ Flat(y, a, l, f) /\ Flat(z, a, l, f) /\ Flat(u, a, l, f)
       /\ Flat(v, a, l, f) /\ Flat(p, a, l, f)
       => Path(<<x, y, z, u, v, p>>, a, a, l, f)
  /\ \A a \in Stacks : \A l, f, x, y, z, u, v, p, q :
       /\ Flat(x, a, l, f) /\ Flat(y, a, l, f) /\ Flat(z, a, l, f) /\ Flat(u, a, l, f)
       /\ Flat(v, a, l, f) /\ Flat(p, a, l, f) /\ Flat(q, a, l, f)
       => Path(<<x, y, z, u, v, p, q>>, a, a, l, f)
BY PathEmpty, PathSingle, Chain2, Chain3, Chain4, Chain5, Chain6, Chain7 DEF Flat

-----------------------------------------------------------------------------
(* Brackets opened and closed *)

\* t is to be closed as well.
Under(a, t) == Append(a, t)

LEMMA UnderIs ==
  /\ \A a \in Stacks : \A t \in Brackets : Under(a, t) \in Stacks
  /\ \A a \in Stacks : /\ Took({"("}, a, Under(a, ")")) /\ Took({")"}, Under(a, ")"), a)
                       /\ Took({"["}, a, Under(a, "]")) /\ Took({"]"}, Under(a, "]"), a)
                       /\ Took({"{"}, a, Under(a, "}")) /\ Took({"}"}, Under(a, "}"), a)
<1>1. /\ DOMAIN Closing = {"(", "[", "{"} /\ Brackets \ DOMAIN Closing = {")", "]", "}"}
      /\ Closing["("] = ")" /\ Closing["["] = "]" /\ Closing["{"] = "}"
  BY DEF Closing, Brackets
<1>2. ASSUME NEW T, NEW a \in Seq(T), NEW t \in T PROVE Append(a, t) \in Seq(T)
  OBVIOUS
<1>3. ASSUME NEW a \in Stacks
      PROVE  /\ Took({"("}, a, Under(a, ")")) /\ Took({")"}, Under(a, ")"), a)
             /\ Took({"["}, a, Under(a, "]")) /\ Took({"]"}, Under(a, "]"), a)
             /\ Took({"{"}, a, Under(a, "}")) /\ Took({"}"}, Under(a, "}"), a)
  BY <1>1 DEF Took, Under
<1>4. \A a \in Stacks : \A t \in Brackets : Under(a, t) \in Stacks
  BY <1>2, Zenon DEF Under, Stacks
<1> QED BY <1>3, <1>4

LEMMA StepExpect ==
  ASSUME NEW K, NEW a \in Stacks, NEW b \in Stacks, Took(K, a, b), NEW l, NEW f
  PROVE  Step(Expect(K), a, b, l, f)
<1> DEFINE x == Expect(K)
<1>1. x.op = "expect" /\ x.of = K
  BY DEF Expect
<1> HIDE DEF x
<1>2. Leads(x, a, b, l, f)
  BY <1>1, LeadsDoes DEF Does
<1> QED BY <1>1, <1>2 DEF x, Step, Fresh, Running

\* Things without parts.
LEMMA StepSimple ==
  ASSUME NEW a \in Stacks, NEW l, NEW f
  PROVE  /\ \A K : NoBracket(K) => Flat(Expect(K), a, l, f)
         /\ \A g, bp : Flat(Call(g, bp), a, l, f)
         /\ Flat(parse_expr, a, l, f) /\ Flat(parse_type, a, l, f) /\ Flat(parse_block, a, l, f)
         /\ Flat(parse_generic_params, a, l, f)
         /\ \A s : Flat(IfNull(s), a, l, f)
         /\ \A bp : Flat(Infix(bp), a, l, f)
         /\ Flat(Error, a, l, f)
         /\ a \in l => Flat(Break, a, l, f)
         /\ a \in f => \A what : Flat(Return(what), a, l, f)
<1> DEFINE Ops == {"call", "generics", "ifnull", "infix", "error"}
<1>1. ASSUME NEW x, x.op \in Ops \/ (x.op = "break" /\ a \in l) \/ (x.op = "return" /\ a \in f)
      PROVE  Flat(x, a, l, f)
  <2>1. Does(x, a, a, l, f)
    BY <1>1 DEF Does
  <2>2. Fresh(x)
    BY <1>1 DEF Fresh, Running
  <2> QED BY <2>1, <2>2, LeadsDoes DEF Flat, Step
<1>2. \A K : NoBracket(K) => Flat(Expect(K), a, l, f)
  <2>1. \A K : NoBracket(K) => Took(K, a, a)
    BY DEF Took
  <2> QED BY <2>1, StepExpect DEF Flat
<1>3. /\ \A g, bp : Call(g, bp).op \in Ops
      /\ parse_generic_params.op \in Ops
      /\ \A s : IfNull(s).op \in Ops
      /\ \A bp : Infix(bp).op \in Ops
      /\ Error.op \in Ops
      /\ Break.op = "break"
      /\ \A what : Return(what).op = "return"
  BY DEF Call, parse_generic_params, IfNull, Infix, Error, Break, Return
<1> HIDE DEF Ops
<1> QED BY <1>1, <1>2, <1>3 DEF parse_expr, parse_type, parse_block

LEMMA StepMatch ==
  ASSUME NEW K, NEW s, NEW t, NEW a \in Stacks, NEW b \in Stacks, NEW c \in Stacks, NEW l, NEW f,
         Took(K, a, c), Pass(s, c, b, l, f), Pass(t, a, b, l, f)
  PROVE  Step(Match(K, s, t), a, b, l, f)
<1> DEFINE x == Match(K, s, t)
<1>1. x.op = "match" /\ x.of = K /\ x.then = s /\ x.else = t
  BY DEF Match
<1> HIDE DEF x
<1>2. Leads(x, a, b, l, f)
  BY <1>1, LeadsDoes DEF Does
<1> QED BY <1>1, <1>2 DEF x, Step, Fresh, Running

LEMMA StepCheck ==
  ASSUME NEW K, NEW s, NEW t, NEW a \in Stacks, NEW b \in Stacks, NEW l, NEW f,
         Pass(s, a, b, l, f) \/ (NoBracket(K) /\ TakePath(s, a, b, l, f)), Pass(t, a, b, l, f)
  PROVE  Step(Check(K, s, t), a, b, l, f)
<1> DEFINE x == Check(K, s, t)
<1>1. x.op = "check" /\ x.of = K /\ x.then = s /\ x.else = t
  BY DEF Check
<1> HIDE DEF x
<1>2. Leads(x, a, b, l, f)
  BY <1>1, LeadsDoes DEF Does
<1> QED BY <1>1, <1>2 DEF x, Step, Fresh, Running

LEMMA StepLoop ==
  ASSUME NEW name, NEW K, NEW s, NEW a \in Stacks, NEW l, NEW f, Pass(s, a, a, {a}, f)
  PROVE  Flat(Loop(name, K, s), a, l, f)
<1> DEFINE x == Loop(name, K, s)
<1>1. x.op = "loop" /\ x.then = s /\ x.from = -1
  BY DEF Loop
<1> HIDE DEF x
<1>2. Leads(x, a, a, l, f)
  BY <1>1, LeadsDoes DEF Does
<1> QED BY <1>1, <1>2 DEF x, Flat, Step, Fresh, Running

LEMMA StepAgain ==
  ASSUME NEW K, NoBracket(K), NEW s, NEW a \in Stacks, NEW l, NEW f, Path(s, a, a, l, f)
  PROVE  Flat(Again(K, s), a, l, f)
<1> DEFINE x == Again(K, s)
<1>1. x.op = "again" /\ x.then = s /\ x.of = K
  BY DEF Again
<1> HIDE DEF x
<1>2. Leads(x, a, a, l, f)
  BY <1>1, LeadsDoes DEF Does
<1> QED BY <1>1, <1>2 DEF x, Flat, Step, Fresh, Running

LEMMA StepUnsafeFn ==
  ASSUME NEW s, NEW a \in Stacks, NEW l, NEW f, Path(s, a, a, l, f)
  PROVE  Flat([op |-> "unsafe fn", then |-> s], a, l, f)
<1> DEFINE x == [op |-> "unsafe fn", then |-> s]
<1>1. x.op = "unsafe fn" /\ x.then = s
  OBVIOUS
<1> HIDE DEF x
<1>2. Leads(x, a, a, l, f)
  BY <1>1, LeadsDoes, PassIs DEF Does
<1>3. Flat(x, a, l, f)
  BY <1>1, <1>2 DEF Flat, Step, Fresh, Running
<1> QED BY <1>3 DEF x

\* The ways the parse functions put things together, where brackets come in pairs.
LEMMA Levelling ==
  ASSUME NEW a \in Stacks, NEW l, NEW f
  PROVE  /\ \A s : Path(s, a, a, l, f) => Pass(s, a, a, l, f)
         /\ \A s : Fails(s) => Pass(s, a, a, l, f)
         /\ \A K, s, t : NoBracket(K) /\ Pass(s, a, a, l, f) /\ Pass(t, a, a, l, f)
              => Flat(Match(K, s, t), a, l, f)
         /\ \A K, s : NoBracket(K) /\ Pass(s, a, a, l, f) => Flat(Opt(K, s), a, l, f)
         /\ \A K : NoBracket(K) /\ a \in l => Flat(BreakUnless(K), a, l, f)
         /\ \A K, s, t : Pass(s, a, a, l, f) /\ Pass(t, a, a, l, f)
              => Flat(Check(K, s, t), a, l, f)
         /\ \A K, s : Pass(s, a, a, l, f) => Flat(When(K, s), a, l, f)
         /\ \A K, s : NoBracket(K) /\ Path(s, a, a, l, f)
              => Flat(When(K, <<Take>> \o s), a, l, f)
         /\ \A name, K, s : Pass(s, a, a, {a}, f) => Flat(Loop(name, K, s), a, l, f)
         /\ \A s : Path(s, a, a, l, f) => Path(CommaList(s), a, a, l, f)
         /\ \A s, x : Path(s, a, a, l, f) /\ Flat(x, a, l, f) => Path(Append(s, x), a, a, l, f)
         /\ \A s, t : Path(s, a, a, l, f) /\ Path(t, a, a, l, f) => Path(s \o t, a, a, l, f)
<1>1. /\ \A s : Path(s, a, a, l, f) => Pass(s, a, a, l, f)
      /\ \A s : Fails(s) => Pass(s, a, a, l, f)
  BY PassIs
<1>2. Pass(<< >>, a, a, l, f) /\ (a \in l => Pass(<<Break>>, a, a, l, f))
  BY <1>1, FlatTuples, StepSimple
<1>3. \A K : NoBracket(K) => Took(K, a, a)
  BY DEF Took
<1>4. \A K, s, t : NoBracket(K) /\ Pass(s, a, a, l, f) /\ Pass(t, a, a, l, f)
        => Flat(Match(K, s, t), a, l, f)
  BY <1>3, StepMatch DEF Flat
<1>5. \A K, s, t : Pass(s, a, a, l, f) /\ Pass(t, a, a, l, f) => Flat(Check(K, s, t), a, l, f)
  BY StepCheck DEF Flat
<1>6. ASSUME NEW K, NEW s, NoBracket(K), Path(s, a, a, l, f)
      PROVE  Flat(When(K, <<Take>> \o s), a, l, f)
  <2>1. TakePath(<<Take>> \o s, a, a, l, f)
    BY <1>6, PassIs
  <2> QED BY <1>2, <1>6, <2>1, StepCheck DEF When, Flat
<1>7. \A s, x : Path(s, a, a, l, f) /\ Flat(x, a, l, f) => Path(Append(s, x), a, a, l, f)
  BY PathAppend DEF Flat
<1>8. \A s : Path(s, a, a, l, f) => Path(CommaList(s), a, a, l, f)
  <2>1. NoBracket({","})
    BY DEF NoBracket, Brackets
  <2> QED BY <1>7, <2>1, StepAgain DEF CommaList
<1>9. \A s, t : Path(s, a, a, l, f) /\ Path(t, a, a, l, f) => Path(s \o t, a, a, l, f)
  BY PathThen
<1>10. \A K, s : NoBracket(K) /\ Pass(s, a, a, l, f) => Flat(Opt(K, s), a, l, f)
  BY <1>2, <1>4 DEF Opt
<1>11. \A K : NoBracket(K) /\ a \in l => Flat(BreakUnless(K), a, l, f)
  BY <1>2, <1>4 DEF BreakUnless
<1>12. \A K, s : Pass(s, a, a, l, f) => Flat(When(K, s), a, l, f)
  BY <1>2, <1>5 DEF When
<1>13. \A name, K, s : Pass(s, a, a, {a}, f) => Flat(Loop(name, K, s), a, l, f)
  BY StepLoop
<1> QED BY <1>1, <1>4, <1>5, <1>6, <1>7, <1>8, <1>9, <1>10, <1>11, <1>12, <1>13

\* An opening bracket is taken, and what is done then closes it.
LEMMA Opening ==
  ASSUME NEW a \in Stacks, NEW b \in Stacks, NEW l, NEW f
  PROVE  /\ Step(Expect({"("}), a, Under(a, ")"), l, f) /\ Step(Expect({")"}), Under(a, ")"), a, l, f)
         /\ Step(Expect({"["}), a, Under(a, "]"), l, f) /\ Step(Expect({"]"}), Under(a, "]"), a, l, f)
         /\ Step(Expect({"{"}), a, Under(a, "}"), l, f) /\ Step(Expect({"}"}), Under(a, "}"), a, l, f)
         /\ \A s, t : Pass(s, Under(a, ")"), b, l, f) /\ Pass(t, a, b, l, f)
              => Step(Match({"("}, s, t), a, b, l, f)
         /\ \A s, t : Pass(s, Under(a, "]"), b, l, f) /\ Pass(t, a, b, l, f)
              => Step(Match({"["}, s, t), a, b, l, f)
         /\ \A s, t : Pass(s, Under(a, "}"), b, l, f) /\ Pass(t, a, b, l, f)
              => Step(Match({"{"}, s, t), a, b, l, f)
         /\ \A s, t : Pass(s, a, b, l, f) /\ Pass(t, Under(a, "]"), b, l, f)
              => Step(Match({"]"}, s, t), Under(a, "]"), b, l, f)
<1>1. Under(a, ")") \in Stacks /\ Under(a, "]") \in Stacks /\ Under(a, "}") \in Stacks
  BY UnderIs DEF Brackets
<1>2. /\ Took({"("}, a, Under(a, ")")) /\ Took({")"}, Under(a, ")"), a)
      /\ Took({"["}, a, Under(a, "]")) /\ Took({"]"}, Under(a, "]"), a)
      /\ Took({"{"}, a, Under(a, "}")) /\ Took({"}"}, Under(a, "}"), a)
  BY UnderIs
<1>3. /\ Step(Expect({"("}), a, Under(a, ")"), l, f) /\ Step(Expect({")"}), Under(a, ")"), a, l, f)
      /\ Step(Expect({"["}), a, Under(a, "]"), l, f) /\ Step(Expect({"]"}), Under(a, "]"), a, l, f)
      /\ Step(Expect({"{"}), a, Under(a, "}"), l, f) /\ Step(Expect({"}"}), Under(a, "}"), a, l, f)
  <2> HIDE DEF Expect, Under
  <2> QED BY <1>1, <1>2, StepExpect
<1>4. ASSUME NEW K, NEW c \in Stacks, NEW d \in Stacks, Took(K, c, d)
      PROVE  \A s, t : Pass(s, d, b, l, f) /\ Pass(t, c, b, l, f) => Step(Match(K, s, t), c, b, l, f)
  BY <1>4, StepMatch
<1>5. /\ \A s, t : Pass(s, Under(a, ")"), b, l, f) /\ Pass(t, a, b, l, f)
            => Step(Match({"("}, s, t), a, b, l, f)
      /\ \A s, t : Pass(s, Under(a, "]"), b, l, f) /\ Pass(t, a, b, l, f)
            => Step(Match({"["}, s, t), a, b, l, f)
      /\ \A s, t : Pass(s, Under(a, "}"), b, l, f) /\ Pass(t, a, b, l, f)
            => Step(Match({"{"}, s, t), a, b, l, f)
      /\ \A s, t : Pass(s, a, b, l, f) /\ Pass(t, Under(a, "]"), b, l, f)
            => Step(Match({"]"}, s, t), Under(a, "]"), b, l, f)
  BY <1>1, <1>2, <1>4
<1> QED BY <1>3, <1>5

-----------------------------------------------------------------------------
(* The brackets of the parse functions *)

LEMMA Words ==
  /\ NoBracket(Identifier) /\ NoBracket(AssignmentOps)
  /\ NoBracket({"#"}) /\ NoBracket({":"}) /\ NoBracket({","}) /\ NoBracket({"."})
  /\ NoBracket({";"}) /\ NoBracket({"="}) /\ NoBracket({"|"}) /\ NoBracket({"=>"})
  /\ NoBracket({"->"}) /\ NoBracket({".."}) /\ NoBracket({"&"}) /\ NoBracket({"?"})
  /\ NoBracket({"!"}) /\ NoBracket({"Id"}) /\ NoBracket({"str"})
  /\ NoBracket({"int", "str", "self", "id"}) /\ NoBracket({"*", "-", "!", "~"})
  /\ NoBracket({"const"}) /\ NoBracket({"try"}) /\ NoBracket({"else"}) /\ NoBracket({"unsafe"})
  /\ NoBracket({"as"}) /\ NoBracket({"const", "var"}) /\ NoBracket({"return"})
  /\ NoBracket({"if"}) /\ NoBracket({"while"}) /\ NoBracket({"for"}) /\ NoBracket({"in"})
  /\ NoBracket({"break", "continue"}) /\ NoBracket({"defer"}) /\ NoBracket({"errdefer"})
  /\ NoBracket({"match"}) /\ NoBracket({"int", "str"}) /\ NoBracket({"&", "*"})
  /\ NoBracket({"fn"}) /\ NoBracket({"type", "self"}) /\ NoBracket({"self"})
  /\ NoBracket({"type"}) /\ NoBracket({"with"}) /\ NoBracket({"comptime"}) /\ NoBracket({"pub"})
  /\ NoBracket({"struct", "union"}) /\ NoBracket({"enum"}) /\ NoBracket({"traits"})
  /\ NoBracket({"extend"}) /\ NoBracket({"test"}) /\ NoBracket({"module"}) /\ NoBracket({"import"})
BY DEF NoBracket, Brackets, Identifier, AssignmentOps

\* A message makes what follows free.
LEMMA FailsAtOnce ==
  /\ Fails(<<Error>>)
  /\ \A x : Fails(<<Error, x>>)
  /\ \A s, a, b, l, f : Fails(s) => Pass(s, a, b, l, f)
<1>1. Fails(<<Error>>)
  <2>1. <<Error>> \in Seq({Error}) /\ Len(<<Error>>) >= 1 /\ <<Error>>[1] = Error
    OBVIOUS
  <2> QED BY <2>1, Zenon DEF Fails
<1>2. ASSUME NEW x PROVE Fails(<<Error, x>>)
  <2>1. <<Error, x>> \in Seq({Error, x}) /\ Len(<<Error, x>>) >= 1 /\ <<Error, x>>[1] = Error
    OBVIOUS
  <2> QED BY <2>1, Zenon DEF Fails
<1> QED BY <1>1, <1>2, PassIs

\* Attributes and expressions.
LEMMA AttrsFlat ==
  ASSUME NEW a \in Stacks, NEW l, NEW f
  PROVE  Flat(parse_attrs, a, l, f)
<1> DEFINE sq == Under(a, "]")
           par == Under(sq, ")")
           args == Append(CommaList(<<parse_expr>>), Expect({")"}))
           attr == <<Expect({"#"}), Expect({"["}), Expect(Identifier), Opt({"("}, args), Expect({"]"})>>
<1>1. sq \in Stacks /\ par \in Stacks
  BY UnderIs DEF Brackets
<1>2. Path(CommaList(<<parse_expr>>), par, par, {a}, f)
  BY <1>1, StepSimple, Levelling, FlatTuples
<1>3. Path(args, par, sq, {a}, f)
  BY <1>1, <1>2, Opening, PathAppend
<1>4. Step(Opt({"("}, args), sq, sq, {a}, f)
  BY <1>1, <1>3, Opening, FlatTuples, PassIs DEF Opt
<1>5. Path(attr, a, a, {a}, f)
  <2>1. Step(Expect({"#"}), a, a, {a}, f) /\ Step(Expect(Identifier), sq, sq, {a}, f)
    BY <1>1, Words, StepSimple DEF Flat
  <2>2. Step(Expect({"["}), a, sq, {a}, f) /\ Step(Expect({"]"}), sq, a, {a}, f)
    BY <1>1, Opening
  <2> HIDE DEF sq, par, args
  <2> QED BY <1>1, <1>4, <2>1, <2>2, Chain5
<1>6. Path(<<Break>>, a, a, {a}, f)
  BY StepSimple, FlatTuples
<1>7. Path(<<Check({"#"}, attr, <<Break>>)>>, a, a, {a}, f)
  BY <1>5, <1>6, Levelling, FlatTuples
<1> QED BY <1>7, Levelling DEF parse_attrs

LEMMA StructLiteralFlat ==
  ASSUME NEW a \in Stacks, NEW l, NEW f
  PROVE  Path(parser_parse_struct_literal, a, a, l, f)
<1> DEFINE u == Under(a, "}")
           body == <<Expect(Identifier), Expect({":"}), parse_expr, BreakUnless({","})>>
<1>1. u \in Stacks /\ u \in {u}
  BY UnderIs DEF Brackets
<1>2. Path(body, u, u, {u}, f)
  BY <1>1, Words, StepSimple, Levelling, FlatTuples
<1>3. Flat(Loop("struct literal", {"}"}, body), u, l, f)
  BY <1>1, <1>2, Levelling
<1> QED BY <1>1, <1>3, Opening, Chain3 DEF parser_parse_struct_literal, Flat

LEMMA ArrayLiteralCloses ==
  ASSUME NEW a \in Stacks, NEW l, NEW f
  PROVE  Path(ArrayLiteral, Under(a, "]"), a, l, f)
<1> DEFINE sq == Under(a, "]")
           u == Under(a, "}")
           body == <<parse_expr, Match({","}, <<When({"}"}, <<Break>>)>>, <<Break>>)>>
           size == <<parse_expr, Expect({"]"}), parse_type>>
<1>1. sq \in Stacks /\ u \in Stacks /\ u \in {u}
  BY UnderIs DEF Brackets
<1>2. Path(body, u, u, {u}, f)
  BY <1>1, Words, StepSimple, Levelling, FlatTuples
<1>3. Flat(Loop("array literal", {"}"}, body), u, l, f)
  BY <1>1, <1>2, Levelling
<1>4. Path(size, sq, a, l, f)
  BY <1>1, StepSimple, Opening, Chain3 DEF Flat
<1>5. Path(<<parse_type>>, a, a, l, f)
  BY StepSimple, FlatTuples
<1>6. Step(Match({"]"}, <<parse_type>>, size), sq, a, l, f)
  BY <1>4, <1>5, PassIs, Opening
<1> QED BY <1>1, <1>3, <1>6, Opening, Chain4 DEF ArrayLiteral, Flat

LEMMA PrimaryFlat ==
  ASSUME NEW a \in Stacks, NEW l, NEW f, a \in f
  PROVE  Path(parser_parse_primary, a, a, l, f)
<1> DEFINE p == Under(a, ")")
           literal == <<When({"{"}, parser_parse_struct_literal), Return("node")>>
           inner == <<parse_expr, Expect({")"}), Return("same")>>
           array == Append(ArrayLiteral, Return("node"))
<1>1. p \in Stacks /\ Under(a, "]") \in Stacks
  BY UnderIs DEF Brackets
<1>2. Flat(Match({"int", "str", "self", "id"}, <<Return("node")>>, << >>), a, l, f)
  BY Words, StepSimple, Levelling, FlatTuples
<1>3. Path(literal, a, a, l, f)
  BY StructLiteralFlat, StepSimple, Levelling, FlatTuples
<1>4. Flat(Match({"Id"}, literal, << >>), a, l, f)
  BY <1>3, Words, Levelling, FlatTuples
<1>5. Path(inner, p, a, l, f)
  BY <1>1, StepSimple, Opening, Chain3 DEF Flat
<1>6. Flat(Match({"("}, inner, << >>), a, l, f)
  BY <1>5, FlatTuples, PassIs, Opening DEF Flat
<1>7. Path(array, Under(a, "]"), a, l, f)
  BY <1>1, ArrayLiteralCloses, StepSimple, PathAppend DEF Flat
<1>8. Flat(Match({"["}, array, <<Error, Return("null")>>), a, l, f)
  BY <1>7, FailsAtOnce, PassIs, Opening DEF Flat
<1> QED BY <1>2, <1>4, <1>6, <1>8, FlatTuples DEF parser_parse_primary

LEMMA PrefixFlat ==
  ASSUME NEW a \in Stacks, NEW l, NEW f, a \in f
  PROVE  Path(parser_parse_prefix, a, a, l, f)
<1> DEFINE ref == <<Opt({"const"}, << >>), Call("expr_bp", 110), Return("node")>>
           unary == <<Call("expr_bp", 110), Return("node")>>
           other == <<Expect({"|"}), Expect(Identifier), Expect({"|"}), parse_block>>
           try == <<Call("expr_bp", 1), Opt({"else"}, other), Return("node")>>
           unsafe == <<parse_block, Return("node")>>
<1>1. Path(ref, a, a, l, f) /\ Path(unary, a, a, l, f) /\ Path(unsafe, a, a, l, f)
  BY Words, StepSimple, Levelling, FlatTuples
<1>2. Path(other, a, a, l, f)
  BY Words, StepSimple, FlatTuples
<1>3. Path(try, a, a, l, f)
  BY <1>2, Words, StepSimple, Levelling, FlatTuples
<1>4. /\ Flat(Opt({"&"}, ref), a, l, f) /\ Flat(Opt({"*", "-", "!", "~"}, unary), a, l, f)
      /\ Flat(Opt({"try"}, try), a, l, f) /\ Flat(Opt({"unsafe"}, unsafe), a, l, f)
  BY <1>1, <1>3, Words, Levelling
<1>5. Flat(Call("primary", 0), a, l, f) /\ Flat(Return("same"), a, l, f)
  BY StepSimple
<1> QED BY <1>4, <1>5, FlatTuples DEF parser_parse_prefix

LEMMA ArgumentsClose ==
  ASSUME NEW a \in Stacks, NEW l, NEW f
  PROVE  Path(Arguments, Under(a, ")"), a, l, f)
<1> DEFINE p == Under(a, ")")
<1>1. p \in Stacks
  BY UnderIs DEF Brackets
<1>2. Flat(Check({")"}, << >>, CommaList(<<parse_expr>>)), p, l, f)
  BY <1>1, StepSimple, Levelling, FlatTuples
<1> QED BY <1>1, <1>2, Opening, Chain2 DEF Arguments, Flat

LEMMA PostfixFlat ==
  ASSUME NEW a \in Stacks, NEW l, NEW f
  PROVE  Flat(parser_parse_postfix, a, l, f)
<1> DEFINE sq == Under(a, "]")
           dots == Match({".."}, <<parse_expr, Expect({"]"})>>, <<Expect({"]"})>>)
           index == Match({"["}, <<parse_expr, dots>>, <<Break>>)
           call == Match({"("}, Arguments, <<index>>)
           member == Match(Identifier, <<Opt({"("}, Arguments)>>, <<Error, Break>>)
<1>1. sq \in Stacks /\ Under(a, ")") \in Stacks /\ a \in {a}
  BY UnderIs DEF Brackets
<1>2. Path(<<parse_expr, Expect({"]"})>>, sq, a, {a}, f) /\ Path(<<Expect({"]"})>>, sq, a, {a}, f)
  BY <1>1, StepSimple, Opening, Chain2, PathSingle DEF Flat
<1>3. Step(dots, sq, a, {a}, f)
  <2>1. Took({".."}, sq, sq)
    BY Words DEF Took
  <2> QED BY <1>1, <1>2, <2>1, PassIs, StepMatch
<1>4. Path(<<parse_expr, dots>>, sq, a, {a}, f)
  <2>1. Step(parse_expr, sq, sq, {a}, f)
    BY <1>1, StepSimple DEF Flat
  <2> HIDE DEF dots, sq
  <2> QED BY <1>1, <1>3, <2>1, Chain2
<1>5. Flat(index, a, {a}, f)
  <2>1. Path(<<Break>>, a, a, {a}, f)
    BY <1>1, StepSimple, FlatTuples
  <2> HIDE DEF dots
  <2> QED BY <1>4, <2>1, PassIs, Opening DEF Flat
<1>6. Flat(call, a, {a}, f)
  <2> HIDE DEF index
  <2>1. Path(<<index>>, a, a, {a}, f)
    BY <1>5, FlatTuples
  <2> QED BY <2>1, ArgumentsClose, PassIs, Opening DEF Flat
<1>7. Flat(Opt({"("}, Arguments), a, {a}, f)
  BY ArgumentsClose, FlatTuples, PassIs, Opening DEF Flat, Opt
<1>8. Flat(member, a, {a}, f)
  BY <1>7, Words, FlatTuples, FailsAtOnce, Levelling
<1> HIDE DEF call, member
<1>9. Path(<<Match({"."}, <<member>>, <<call>>)>>, a, a, {a}, f)
  BY <1>6, <1>8, Words, FlatTuples, Levelling
<1> QED BY <1>9, Levelling DEF parser_parse_postfix, call, member

LEMMA ExprFlat ==
  ASSUME NEW a \in Stacks, NEW l, NEW f, a \in f, NEW bp
  PROVE  Path(parser_parse_expr_bp(bp), a, a, l, f)
<1>1. /\ Flat(Call("prefix", 0), a, l, f) /\ Flat(IfNull(<<Return("null")>>), a, l, f)
      /\ Flat(Infix(bp), a, l, f) /\ Flat(Return("node"), a, l, f)
      /\ Flat(parser_parse_postfix, a, l, f)
  BY StepSimple, PostfixFlat
<1>2. Flat(Opt({"as"}, <<parse_type>>), a, l, f)
  BY StepSimple, FlatTuples, Words, Levelling
<1> QED BY <1>1, <1>2, FlatTuples DEF parser_parse_expr_bp

\* Blocks and statements.
LEMMA BlockFlat ==
  ASSUME NEW a \in Stacks, NEW l, NEW f
  PROVE  Path(parser_parse_block, a, a, l, f)
<1> DEFINE u == Under(a, "}")
           stmt == <<Call("stmt", 0), IfNull(<<Break>>)>>
           last == Check({"}"}, <<Break>>, <<Error, Break>>)
           semicolon == Match({";"}, << >>, <<last>>)
           assign == Match(AssignmentOps, <<parse_expr, Expect({";"})>>, <<semicolon>>)
           expr == <<parse_expr, IfNull(<<Break>>), assign>>
           body == <<Check(StatementStarts, stmt, expr)>>
<1>1. u \in Stacks /\ u \in {u}
  BY UnderIs DEF Brackets
<1>2. Path(stmt, u, u, {u}, f) /\ Path(<<parse_expr, Expect({";"})>>, u, u, {u}, f)
  BY <1>1, StepSimple, FlatTuples, Words
<1>3. Flat(last, u, {u}, f)
  BY <1>1, StepSimple, FlatTuples, Levelling
<1>4. Flat(semicolon, u, {u}, f)
  <2> HIDE DEF last
  <2> QED BY <1>1, <1>3, FlatTuples, Words, Levelling
<1>5. Flat(assign, u, {u}, f)
  <2> HIDE DEF semicolon
  <2> QED BY <1>1, <1>2, <1>4, FlatTuples, Words, Levelling
<1>6. Path(expr, u, u, {u}, f)
  <2> HIDE DEF assign
  <2> QED BY <1>1, <1>5, StepSimple, FlatTuples
<1>7. Path(body, u, u, {u}, f)
  <2> HIDE DEF stmt, expr
  <2> QED BY <1>1, <1>2, <1>6, FlatTuples, Levelling
<1>8. Flat(Loop("block", {"}"}, body), u, l, f)
  <2> HIDE DEF body
  <2> QED BY <1>1, <1>7, Levelling
<1>9. Step(Match({"{"}, << >>, <<Error, Return("null")>>), a, u, l, f)
  BY <1>1, FailsAtOnce, FlatTuples, PassIs, Opening
<1>10. Step(Expect({"}"}), u, a, l, f)
  BY Opening
<1>11. parser_parse_block = <<Match({"{"}, << >>, <<Error, Return("null")>>),
                              Loop("block", {"}"}, body), Expect({"}"})>>
  BY DEF parser_parse_block
<1> HIDE DEF body, u
<1> QED BY <1>1, <1>8, <1>9, <1>10, <1>11, Chain3 DEF Flat

LEMMA FlatLong ==
  /\ \A a \in Stacks : \A l, f, x1, x2, x3, x4, x5, x6, x7, x8, x9, x10, x11 :
       /\ Flat(x1, a, l, f) /\ Flat(x2, a, l, f) /\ Flat(x3, a, l, f) /\ Flat(x4, a, l, f)
       /\ Flat(x5, a, l, f) /\ Flat(x6, a, l, f) /\ Flat(x7, a, l, f) /\ Flat(x8, a, l, f)
       /\ Flat(x9, a, l, f) /\ Flat(x10, a, l, f) /\ Flat(x11, a, l, f)
       => Path(<<x1, x2, x3, x4, x5, x6, x7, x8, x9, x10, x11>>, a, a, l, f)
  /\ \A a \in Stacks : \A l, f, x1, x2, x3, x4, x5, x6, x7, x8, x9, x10, x11, x12, x13 :
       /\ Flat(x1, a, l, f) /\ Flat(x2, a, l, f) /\ Flat(x3, a, l, f) /\ Flat(x4, a, l, f)
       /\ Flat(x5, a, l, f) /\ Flat(x6, a, l, f) /\ Flat(x7, a, l, f) /\ Flat(x8, a, l, f)
       /\ Flat(x9, a, l, f) /\ Flat(x10, a, l, f) /\ Flat(x11, a, l, f) /\ Flat(x12, a, l, f)
       /\ Flat(x13, a, l, f)
       => Path(<<x1, x2, x3, x4, x5, x6, x7, x8, x9, x10, x11, x12, x13>>, a, a, l, f)
<1>1. ASSUME NEW a \in Stacks, NEW l, NEW f,
             NEW x1, NEW x2, NEW x3, NEW x4, NEW x5, NEW x6, NEW x7,
             NEW x8, NEW x9, NEW x10, NEW x11,
       /\ Flat(x1, a, l, f) /\ Flat(x2, a, l, f) /\ Flat(x3, a, l, f) /\ Flat(x4, a, l, f)
       /\ Flat(x5, a, l, f) /\ Flat(x6, a, l, f) /\ Flat(x7, a, l, f) /\ Flat(x8, a, l, f)
       /\ Flat(x9, a, l, f) /\ Flat(x10, a, l, f) /\ Flat(x11, a, l, f)
      PROVE  Path(<<x1, x2, x3, x4, x5, x6, x7, x8, x9, x10, x11>>, a, a, l, f)
  <2>1. Path(<<x1, x2, x3, x4, x5, x6, x7>>, a, a, l, f) /\ Path(<<x8, x9, x10, x11>>, a, a, l, f)
    BY <1>1, FlatTuples
  <2>2. <<x1, x2, x3, x4, x5, x6, x7, x8, x9, x10, x11>> = <<x1, x2, x3, x4, x5, x6, x7>> \o <<x8, x9, x10, x11>>
    OBVIOUS
  <2> QED BY <2>1, <2>2, PathThen
<1>2. ASSUME NEW a \in Stacks, NEW l, NEW f,
             NEW x1, NEW x2, NEW x3, NEW x4, NEW x5, NEW x6, NEW x7,
             NEW x8, NEW x9, NEW x10, NEW x11, NEW x12, NEW x13,
       /\ Flat(x1, a, l, f) /\ Flat(x2, a, l, f) /\ Flat(x3, a, l, f) /\ Flat(x4, a, l, f)
       /\ Flat(x5, a, l, f) /\ Flat(x6, a, l, f) /\ Flat(x7, a, l, f) /\ Flat(x8, a, l, f)
       /\ Flat(x9, a, l, f) /\ Flat(x10, a, l, f) /\ Flat(x11, a, l, f) /\ Flat(x12, a, l, f)
       /\ Flat(x13, a, l, f)
      PROVE  Path(<<x1, x2, x3, x4, x5, x6, x7, x8, x9, x10, x11, x12, x13>>, a, a, l, f)
  <2>1. Path(<<x1, x2, x3, x4, x5, x6, x7>>, a, a, l, f) /\ Path(<<x8, x9, x10, x11, x12, x13>>, a, a, l, f)
    BY <1>2, FlatTuples
  <2>2. <<x1, x2, x3, x4, x5, x6, x7, x8, x9, x10, x11, x12, x13>> = <<x1, x2, x3, x4, x5, x6, x7>> \o <<x8, x9, x10, x11, x12, x13>>
    OBVIOUS
  <2> QED BY <2>1, <2>2, PathThen
<1> QED BY <1>1, <1>2, Zenon

LEMMA VarDeclFlat ==
  ASSUME NEW a \in Stacks, NEW l, NEW f
  PROVE  Path(VarDecl, a, a, l, f)
<1>1. Flat(Opt({":"}, <<parse_type>>), a, l, f)
  BY StepSimple, FlatTuples, Words, Levelling
<1> QED BY <1>1, StepSimple, FlatTuples, Words DEF VarDecl

LEMMA StmtFlat ==
  ASSUME NEW a \in Stacks, NEW l, NEW f, a \in f
  PROVE  Path(parser_parse_stmt, a, a, l, f)
<1> DEFINE u == Under(a, "}")
           value == Match({";"}, << >>, <<parse_expr, Expect({";"})>>)
           ret_ == <<value, Return("node")>>
           else == Opt({"else"}, <<Check({"if"}, <<Call("stmt", 0)>>, <<parse_block>>)>>)
           if == <<parse_expr, parse_block, else, Return("node")>>
           for == <<Expect(Identifier), Expect({":"}), parse_type, Expect({"in"}), parse_expr,
                    parse_block, Return("node")>>
           arm == <<Call("pattern", 0), Expect({"=>"}), parse_expr, Opt({","}, << >>)>>
           match == <<parse_expr, Expect({"{"}), MatchArms, Expect({"}"}), Return("node")>>
<1>1. u \in Stacks
  BY UnderIs DEF Brackets
<1>2. Flat(Opt({"const", "var"}, Append(VarDecl, Return("node"))), a, l, f)
  BY VarDeclFlat, StepSimple, Words, Levelling
<1>3. Flat(Opt({"return"}, ret_), a, l, f)
  <2>1. Flat(value, a, l, f)
    BY StepSimple, FlatTuples, Words, Levelling
  <2> HIDE DEF value
  <2>2. Path(ret_, a, a, l, f)
    BY <2>1, StepSimple, FlatTuples
  <2> QED BY <2>2, Words, Levelling
<1>4. Flat(Opt({"if"}, if), a, l, f)
  <2>1. Flat(Check({"if"}, <<Call("stmt", 0)>>, <<parse_block>>), a, l, f)
    BY StepSimple, FlatTuples, Levelling
  <2>2. Flat(else, a, l, f)
    BY <2>1, FlatTuples, Words, Levelling
  <2> HIDE DEF else
  <2>3. Path(if, a, a, l, f)
    BY <2>2, StepSimple, FlatTuples
  <2> QED BY <2>3, Words, Levelling
<1>5. Flat(Opt({"while"}, <<parse_expr, parse_block, Return("node")>>), a, l, f)
  BY StepSimple, FlatTuples, Words, Levelling
<1>6. Flat(Opt({"for"}, for), a, l, f)
  <2>1. Path(for, a, a, l, f)
    BY StepSimple, FlatTuples, Words
  <2> QED BY <2>1, Words, Levelling
<1>7. /\ Flat(Opt({"break", "continue"}, <<Expect({";"}), Return("node")>>), a, l, f)
      /\ Flat(Opt({"defer"}, <<parse_expr, Expect({";"}), Return("node")>>), a, l, f)
      /\ Flat(Opt({"errdefer"}, <<parse_block, Return("node")>>), a, l, f)
  BY StepSimple, FlatTuples, Words, Levelling
<1>8. Flat(Opt({"match"}, match), a, l, f)
  <2>1. Path(arm, u, u, {u}, f)
    BY <1>1, StepSimple, FlatTuples, Words, Levelling
  <2>2. Flat(MatchArms, u, l, f)
    BY <1>1, <2>1, Levelling DEF MatchArms
  <2>3. Flat(parse_expr, a, l, f) /\ Flat(Return("node"), a, l, f)
    BY StepSimple
  <2>4. Path(match, a, a, l, f)
    <3>1. Step(Expect({"{"}), a, u, l, f) /\ Step(Expect({"}"}), u, a, l, f)
      BY Opening
    <3> HIDE DEF u
    <3> QED BY <1>1, <2>2, <2>3, <3>1, Chain5 DEF Flat
  <2> QED BY <2>4, Words, Levelling
<1>9. /\ Flat(parse_block, a, l, f) /\ Flat(Return("same"), a, l, f)
  BY StepSimple
<1> HIDE DEF ret_, if, for, match
<1>10. Path(<<Opt({"const", "var"}, Append(VarDecl, Return("node"))), Opt({"return"}, ret_),
              Opt({"if"}, if), Opt({"while"}, <<parse_expr, parse_block, Return("node")>>),
              Opt({"for"}, for), Opt({"break", "continue"}, <<Expect({";"}), Return("node")>>),
              Opt({"defer"}, <<parse_expr, Expect({";"}), Return("node")>>),
              Opt({"errdefer"}, <<parse_block, Return("node")>>), Opt({"match"}, match),
              parse_block, Return("same")>>, a, a, l, f)
  BY <1>2, <1>3, <1>4, <1>5, <1>6, <1>7, <1>8, <1>9, FlatLong
<1> QED BY <1>10 DEF parser_parse_stmt, ret_, if, for, match

LEMMA PatternFlat ==
  ASSUME NEW a \in Stacks, NEW l, NEW f, a \in f
  PROVE  Path(parser_parse_pattern, a, a, l, f)
<1> DEFINE u == Under(a, "}")
           p == Under(a, ")")
           body == <<Expect(Identifier), Expect({":"}), Call("pattern", 0), BreakUnless({","})>>
           fields == <<Loop("struct pattern", {"}"}, body), Expect({"}"})>>
           inner == <<Call("pattern", 0), Expect({")"})>>
           variant == <<Expect(Identifier), Opt({"("}, inner)>>
           form == Match({"{"}, fields, variant)
<1>1. u \in Stacks /\ p \in Stacks /\ u \in {u}
  BY UnderIs DEF Brackets
<1>2. Path(body, u, u, {u}, f)
  BY <1>1, StepSimple, FlatTuples, Words, Levelling
<1>3. Flat(Loop("struct pattern", {"}"}, body), u, l, f)
  <2> HIDE DEF body
  <2> QED BY <1>1, <1>2, Levelling
<1>4. Path(fields, u, a, l, f)
  <2> HIDE DEF body
  <2> QED BY <1>1, <1>3, Opening, Chain2 DEF Flat
<1>5. Path(inner, p, a, l, f)
  BY <1>1, StepSimple, Opening, Chain2 DEF Flat
<1>6. Flat(Opt({"("}, inner), a, l, f)
  BY <1>5, FlatTuples, PassIs, Opening DEF Flat, Opt
<1>7. Path(variant, a, a, l, f)
  <2> HIDE DEF inner
  <2> QED BY <1>6, StepSimple, FlatTuples, Words
<1>8. Flat(form, a, l, f)
  <2> HIDE DEF fields, variant
  <2> QED BY <1>4, <1>7, PassIs, Opening DEF Flat
<1>9. Flat(Opt({"."}, <<form, Return("node")>>), a, l, f)
  <2> HIDE DEF form
  <2> QED BY <1>8, StepSimple, FlatTuples, Words, Levelling
<1>10. Flat(Opt({"int", "str"}, <<Return("node")>>), a, l, f)
  BY StepSimple, FlatTuples, Words, Levelling
<1>11. Flat(Match(Identifier, << >>, <<Error>>), a, l, f)
  BY StepSimple, FlatTuples, Words, Levelling
<1> QED BY <1>9, <1>10, <1>11, FlatTuples DEF parser_parse_pattern

LEMMA TypeFlat ==
  ASSUME NEW a \in Stacks, NEW l, NEW f, a \in f
  PROVE  Path(parser_parse_type, a, a, l, f)
<1> DEFINE p == Under(a, ")")
           sq == Under(a, "]")
           arg == <<parse_type, BreakUnless({","})>>
           args == <<Loop("generic arguments", {")"}, arg), Expect({")"})>>
           named == Match(Identifier, <<Opt({"("}, args)>>, <<Error, Return("null")>>)
           self == Match({"type", "self"}, << >>, <<named>>)
           params == Check({")"}, << >>, CommaList(<<parse_type>>))
           fn == <<Expect({"("}), params, Expect({")"}), Opt({"->"}, <<parse_type>>)>>
           function == Match({"fn"}, fn, <<self>>)
           slice == <<Opt({"const"}, << >>), parse_type>>
           sized == <<parse_expr, Expect({"]"}), parse_type>>
           elements == Match({"]"}, slice, sized)
           array == Match({"["}, <<elements>>, <<function>>)
<1>1. p \in Stacks /\ sq \in Stacks /\ p \in {p}
  BY UnderIs DEF Brackets
<1>2. Path(arg, p, p, {p}, f)
  BY <1>1, StepSimple, FlatTuples, Words, Levelling
<1>3. Flat(Loop("generic arguments", {")"}, arg), p, l, f)
  <2> HIDE DEF arg
  <2> QED BY <1>1, <1>2, Levelling
<1>4. Path(args, p, a, l, f)
  <2> HIDE DEF arg
  <2> QED BY <1>1, <1>3, Opening, Chain2 DEF Flat
<1>5. Flat(Opt({"("}, args), a, l, f)
  <2> HIDE DEF args
  <2> QED BY <1>4, FlatTuples, PassIs, Opening DEF Flat, Opt
<1>6. Flat(named, a, l, f)
  <2> HIDE DEF args
  <2> QED BY <1>5, FlatTuples, FailsAtOnce, Words, Levelling
<1>7. Flat(self, a, l, f)
  <2> HIDE DEF named
  <2> QED BY <1>6, FlatTuples, Words, Levelling
<1>8. Flat(params, p, l, f) /\ Flat(Opt({"->"}, <<parse_type>>), a, l, f)
  BY <1>1, StepSimple, FlatTuples, Words, Levelling
<1>9. Path(fn, a, a, l, f)
  <2>1. Step(Expect({"("}), a, p, l, f) /\ Step(Expect({")"}), p, a, l, f)
    BY Opening
  <2> HIDE DEF params, p
  <2> QED BY <1>1, <1>8, <2>1, Chain4 DEF Flat
<1>10. Flat(function, a, l, f)
  <2> HIDE DEF fn, self
  <2> QED BY <1>7, <1>9, FlatTuples, Words, Levelling
<1>11. Path(slice, a, a, l, f)
  BY StepSimple, FlatTuples, Words, Levelling
<1>12. Path(sized, sq, a, l, f)
  BY <1>1, StepSimple, Opening, Chain3 DEF Flat
<1>13. Step(elements, sq, a, l, f)
  <2> HIDE DEF slice, sized
  <2> QED BY <1>11, <1>12, PassIs, Opening
<1>14. Path(<<elements>>, sq, a, l, f)
  <2> HIDE DEF elements
  <2> QED BY <1>1, <1>13, PathSingle
<1>15. Flat(array, a, l, f)
  <2> HIDE DEF elements, function
  <2>1. Path(<<function>>, a, a, l, f)
    BY <1>10, FlatTuples
  <2> QED BY <1>14, <2>1, PassIs, Opening DEF Flat
<1> HIDE DEF array
<1>16. Flat(Match({"&", "*"}, <<Opt({"const"}, << >>), parse_type>>, <<array>>), a, l, f)
  BY <1>11, <1>15, FlatTuples, Words, Levelling
<1>17. Flat(Match({"?"}, << >>, <<Opt({"!"}, <<parse_type>>)>>), a, l, f)
  BY StepSimple, FlatTuples, Words, Levelling
<1>18. Path(<<Match({"&", "*"}, <<Opt({"const"}, << >>), parse_type>>, <<array>>),
              Match({"?"}, << >>, <<Opt({"!"}, <<parse_type>>)>>)>>, a, a, l, f)
  BY <1>16, <1>17, FlatTuples
<1> QED BY <1>18 DEF parser_parse_type, array

\* Declarations.
LEMMA ParamFlat ==
  ASSUME NEW a \in Stacks, NEW l, NEW f
  PROVE  Path(parser_parse_param, a, a, l, f) /\ Flat(DefaultValue, a, l, f)
<1> DEFINE self == <<Opt({"&"}, <<Opt({"const"}, << >>)>>), Expect({"self"}), Opt({":"}, <<parse_type>>)>>
           other == <<Expect(Identifier), Expect({":"}), parse_type>>
<1>1. Flat(DefaultValue, a, l, f)
  BY StepSimple, FlatTuples, Words, Levelling DEF DefaultValue
<1>2. Path(other, a, a, l, f)
  BY StepSimple, FlatTuples, Words
<1>3. Flat(Opt({"&"}, <<Opt({"const"}, << >>)>>), a, l, f)
  BY FlatTuples, Words, Levelling
<1>4. Flat(Opt({":"}, <<parse_type>>), a, l, f)
  BY StepSimple, FlatTuples, Words, Levelling
<1>5. Path(self, a, a, l, f)
  BY <1>3, <1>4, StepSimple, FlatTuples, Words
<1> HIDE DEF self, other
<1>6. Flat(Check({"&", "self"}, self, other), a, l, f)
  BY <1>2, <1>5, Levelling
<1> QED BY <1>1, <1>6, FlatTuples DEF parser_parse_param, self, other

LEMMA GenericsFlat ==
  ASSUME NEW a \in Stacks, NEW l, NEW f
  PROVE  Path(GenericParams, a, a, l, f)
<1> DEFINE p == Under(a, ")")
           with == Opt({"with"}, CommaList(<<Expect(Identifier)>>))
           one == <<Expect(Identifier), Expect({":"}), Expect({"type"}), with>>
<1>1. p \in Stacks
  BY UnderIs DEF Brackets
<1>2. Flat(with, p, l, f)
  BY <1>1, StepSimple, FlatTuples, Words, Levelling
<1>3. Path(one, p, p, l, f)
  <2> HIDE DEF with
  <2> QED BY <1>1, <1>2, StepSimple, FlatTuples, Words
<1>4. Path(CommaList(one), p, p, l, f)
  <2> HIDE DEF one
  <2> QED BY <1>1, <1>3, Levelling
<1>5. Path(<<Expect({"("})>>, a, p, l, f) /\ Path(<<Expect({")"})>>, p, a, l, f)
  BY <1>1, Opening, PathSingle
<1>6. GenericParams = (<<Expect({"("})>> \o CommaList(one)) \o <<Expect({")"})>>
  BY DEF GenericParams
<1> HIDE DEF p, one
<1>7. Path(<<Expect({"("})>> \o CommaList(one), a, p, l, f)
  BY <1>4, <1>5, PathThen
<1> QED BY <1>5, <1>6, <1>7, PathThen

LEMMA FnFlat ==
  ASSUME NEW a \in Stacks, NEW l, NEW f
  PROVE  Path(Signature, a, a, l, f) /\ Path(FnRest, a, a, l, f) /\ Path(parser_parse_fn_decl, a, a, l, f)
<1> DEFINE p == Under(a, ")")
           params == Check({")"}, << >>, CommaList(<<Call("param", 0)>>))
<1>1. p \in Stacks
  BY UnderIs DEF Brackets
<1>2. Flat(params, p, l, f) /\ Flat(Opt({"->"}, <<parse_type>>), a, l, f)
  BY <1>1, StepSimple, FlatTuples, Words, Levelling
<1>3. Path(Signature, a, a, l, f)
  <2>1. Step(Expect({"("}), a, p, l, f) /\ Step(Expect({")"}), p, a, l, f)
    BY Opening
  <2>2. Signature = <<Expect({"("}), params, Expect({")"}), Opt({"->"}, <<parse_type>>)>>
    BY DEF Signature
  <2> HIDE DEF params, p
  <2> QED BY <1>1, <1>2, <2>1, <2>2, Chain4 DEF Flat
<1>4. Path(FnRest, a, a, l, f)
  <2>1. Path(<<Expect(Identifier), parse_generic_params>>, a, a, l, f)
    BY StepSimple, FlatTuples, Words
  <2>2. Path(<<Match({";"}, << >>, <<parse_block>>)>>, a, a, l, f)
    BY StepSimple, FlatTuples, Words, Levelling
  <2>3. Path(<<Expect(Identifier), parse_generic_params>> \o Signature, a, a, l, f)
    BY <1>3, <2>1, PathThen
  <2> QED BY <2>2, <2>3, PathThen DEF FnRest
<1>5. Path(<<Opt({"comptime"}, << >>), Opt({"unsafe"}, << >>), Expect({"fn"})>>, a, a, l, f)
  BY StepSimple, FlatTuples, Words, Levelling
<1>6. Path(parser_parse_fn_decl, a, a, l, f)
  BY <1>4, <1>5, PathThen DEF parser_parse_fn_decl
<1> QED BY <1>3, <1>4, <1>6

LEMMA FnOrSkipFlat ==
  ASSUME NEW a \in Stacks, NEW l, NEW f, NEW rest, Path(rest, a, a, l, f)
  PROVE  Flat(FnOrSkip(rest), a, l, f)
BY FailsAtOnce, Words, Levelling DEF FnOrSkip

\* The token a declaration starts with, taken because it has been seen.
LEMMA TakenFirst ==
  ASSUME NEW a \in Stacks, NEW l, NEW f, NEW K, NoBracket(K)
  PROVE  /\ \A x, y, z : Path(<<x, y, z>>, a, a, l, f)
              => Flat(When(K, Append(<<Take, x, y>>, z)), a, l, f)
         /\ \A x, y, z, u, v : Path(<<x, y, z, u, v>>, a, a, l, f)
              => Flat(When(K, Append(<<Take, x, y, z, u>>, v)), a, l, f)
         /\ \A x, y, z, u, v, p : Path(<<x, y, z, u, v, p>>, a, a, l, f)
              => Flat(When(K, Append(<<Take, x, y, z, u, v>>, p)), a, l, f)
         /\ \A x, y, z, u, v, p, q : Path(<<x, y, z, u, v, p, q>>, a, a, l, f)
              => Flat(When(K, Append(<<Take, x, y, z, u, v, p>>, q)), a, l, f)
<1>0. ASSUME NEW s, NEW t, t = <<Take>> \o s, Path(s, a, a, l, f)
      PROVE  Flat(When(K, t), a, l, f)
  BY <1>0, Levelling
<1>1. ASSUME NEW x, NEW y, NEW z, Path(<<x, y, z>>, a, a, l, f)
      PROVE  Flat(When(K, Append(<<Take, x, y>>, z)), a, l, f)
  <2>1. Append(<<Take, x, y>>, z) = <<Take>> \o <<x, y, z>>
    OBVIOUS
  <2> QED BY <1>0, <1>1, <2>1
<1>2. ASSUME NEW x, NEW y, NEW z, NEW u, NEW v, Path(<<x, y, z, u, v>>, a, a, l, f)
      PROVE  Flat(When(K, Append(<<Take, x, y, z, u>>, v)), a, l, f)
  <2>1. Append(<<Take, x, y, z, u>>, v) = <<Take>> \o <<x, y, z, u, v>>
    OBVIOUS
  <2> QED BY <1>0, <1>2, <2>1
<1>3. ASSUME NEW x, NEW y, NEW z, NEW u, NEW v, NEW p, Path(<<x, y, z, u, v, p>>, a, a, l, f)
      PROVE  Flat(When(K, Append(<<Take, x, y, z, u, v>>, p)), a, l, f)
  <2>1. Append(<<Take, x, y, z, u, v>>, p) = <<Take>> \o <<x, y, z, u, v, p>>
    OBVIOUS
  <2> QED BY <1>0, <1>3, <2>1
<1>4. ASSUME NEW x, NEW y, NEW z, NEW u, NEW v, NEW p, NEW q, Path(<<x, y, z, u, v, p, q>>, a, a, l, f)
      PROVE  Flat(When(K, Append(<<Take, x, y, z, u, v, p>>, q)), a, l, f)
  <2>1. Append(<<Take, x, y, z, u, v, p>>, q) = <<Take>> \o <<x, y, z, u, v, p, q>>
    OBVIOUS
  <2> QED BY <1>0, <1>4, <2>1
<1> QED BY <1>1, <1>2, <1>3, <1>4

LEMMA StructFlat ==
  ASSUME NEW a \in Stacks, NEW l, NEW f, a \in f
  PROVE  Flat(When({"struct", "union"}, Append(parser_parse_struct_decl, Return("node"))), a, l, f)
<1> DEFINE u == Under(a, "}")
           body == <<parse_attrs, Opt({"pub"}, << >>), Expect(Identifier), Expect({":"}), parse_type,
                     DefaultValue, BreakUnless({","})>>
           loop == Loop("fields", {"}"}, body)
<1>1. u \in Stacks /\ u \in {u}
  BY UnderIs DEF Brackets
<1>2. Flat(parse_attrs, u, {u}, f) /\ Flat(DefaultValue, u, {u}, f)
  BY <1>1, AttrsFlat, ParamFlat
<1>3. Path(body, u, u, {u}, f)
  BY <1>1, <1>2, StepSimple, FlatTuples, Words, Levelling
<1>4. Flat(loop, u, l, f)
  <2> HIDE DEF body
  <2> QED BY <1>1, <1>3, Levelling
<1>5. /\ Flat(Expect(Identifier), a, l, f) /\ Flat(parse_generic_params, a, l, f)
      /\ Flat(Return("node"), a, l, f)
      /\ Step(Expect({"{"}), a, u, l, f) /\ Step(Expect({"}"}), u, a, l, f)
  BY StepSimple, Words, Opening
<1>6. parser_parse_struct_decl
        = <<Take, Expect(Identifier), parse_generic_params, Expect({"{"}), loop, Expect({"}"})>>
  BY DEF parser_parse_struct_decl
<1> HIDE DEF u, loop
<1>7. Path(<<Expect(Identifier), parse_generic_params, Expect({"{"}), loop, Expect({"}"}),
             Return("node")>>, a, a, l, f)
  BY <1>1, <1>4, <1>5, Chain6 DEF Flat
<1> QED BY <1>6, <1>7, Words, TakenFirst

LEMMA EnumFlat ==
  ASSUME NEW a \in Stacks, NEW l, NEW f, a \in f
  PROVE  Flat(When({"enum"}, Append(parser_parse_enum_decl, Return("node"))), a, l, f)
<1> DEFINE u == Under(a, "}")
           p == Under(u, ")")
           payload == <<parse_type, Expect({")"})>>
           body == <<Expect(Identifier), Opt({"("}, payload), DefaultValue, BreakUnless({","})>>
           loop == Loop("variants", {"}"}, body)
<1>1. u \in Stacks /\ p \in Stacks /\ u \in {u}
  BY UnderIs DEF Brackets
<1>2. Path(payload, p, u, {u}, f)
  BY <1>1, StepSimple, Opening, Chain2 DEF Flat
<1>3. Flat(Opt({"("}, payload), u, {u}, f)
  <2> HIDE DEF payload
  <2> QED BY <1>1, <1>2, FlatTuples, PassIs, Opening DEF Flat, Opt
<1>4. Path(body, u, u, {u}, f)
  <2> HIDE DEF payload
  <2> QED BY <1>1, <1>3, ParamFlat, StepSimple, FlatTuples, Words, Levelling
<1>5. Flat(loop, u, l, f)
  <2> HIDE DEF body
  <2> QED BY <1>1, <1>4, Levelling
<1>6. /\ Flat(Expect(Identifier), a, l, f) /\ Flat(Return("node"), a, l, f)
      /\ Step(Expect({"{"}), a, u, l, f) /\ Step(Expect({"}"}), u, a, l, f)
  BY StepSimple, Words, Opening
<1>7. parser_parse_enum_decl
        = <<Take, Expect(Identifier), Expect({"{"}), loop, Expect({"}"})>>
  BY DEF parser_parse_enum_decl
<1> HIDE DEF u, loop
<1>8. Path(<<Expect(Identifier), Expect({"{"}), loop, Expect({"}"}), Return("node")>>, a, a, l, f)
  BY <1>1, <1>5, <1>6, Chain5 DEF Flat
<1> QED BY <1>7, <1>8, Words, TakenFirst

LEMMA TraitsFlat ==
  ASSUME NEW a \in Stacks, NEW l, NEW f, a \in f
  PROVE  Flat(When({"traits"}, Append(parser_parse_traits_decl, Return("node"))), a, l, f)
<1> DEFINE u == Under(a, "}")
           method == <<Expect(Identifier)>> \o Signature \o <<Expect({";"})>>
           body == <<Opt({"pub"}, << >>), FnOrSkip(method)>>
           loop == Loop("trait methods", {"}"}, body)
<1>1. u \in Stacks /\ u \in {u}
  BY UnderIs DEF Brackets
<1>2. Path(method, u, u, {u}, f)
  <2>1. Path(<<Expect(Identifier)>>, u, u, {u}, f) /\ Path(<<Expect({";"})>>, u, u, {u}, f)
    BY <1>1, StepSimple, FlatTuples, Words
  <2>2. Path(<<Expect(Identifier)>> \o Signature, u, u, {u}, f)
    BY <1>1, <2>1, FnFlat, PathThen
  <2> QED BY <2>1, <2>2, PathThen
<1>3. Path(body, u, u, {u}, f)
  <2> HIDE DEF method
  <2>1. Flat(FnOrSkip(method), u, {u}, f)
    BY <1>1, <1>2, FnOrSkipFlat
  <2> QED BY <1>1, <2>1, FlatTuples, Words, Levelling
<1>4. Flat(loop, u, l, f)
  <2> HIDE DEF body
  <2> QED BY <1>1, <1>3, Levelling
<1>5. /\ Flat(Expect(Identifier), a, l, f) /\ Flat(Return("node"), a, l, f)
      /\ Step(Expect({"{"}), a, u, l, f) /\ Step(Expect({"}"}), u, a, l, f)
  BY StepSimple, Words, Opening
<1>6. parser_parse_traits_decl
        = <<Take, Expect(Identifier), Expect({"{"}), loop, Expect({"}"})>>
  BY DEF parser_parse_traits_decl
<1> HIDE DEF u, loop
<1>7. Path(<<Expect(Identifier), Expect({"{"}), loop, Expect({"}"}), Return("node")>>, a, a, l, f)
  BY <1>1, <1>4, <1>5, Chain5 DEF Flat
<1> QED BY <1>6, <1>7, Words, TakenFirst

LEMMA ExtendFlat ==
  ASSUME NEW a \in Stacks, NEW l, NEW f, a \in f
  PROVE  Flat(When({"extend"}, Append(parser_parse_extend_decl, Return("node"))), a, l, f)
<1> DEFINE u == Under(a, "}")
           with == Opt({"with"}, CommaList(<<Expect(Identifier)>>))
           body == <<parse_attrs, Opt({"pub"}, << >>), Opt({"comptime"}, << >>),
                     Opt({"unsafe"}, << >>), FnOrSkip(FnRest)>>
           loop == Loop("methods", {"}"}, body)
<1>1. u \in Stacks /\ u \in {u}
  BY UnderIs DEF Brackets
<1>2. Flat(parse_attrs, u, {u}, f) /\ Flat(FnOrSkip(FnRest), u, {u}, f)
  BY <1>1, AttrsFlat, FnFlat, FnOrSkipFlat
<1>3. Path(body, u, u, {u}, f)
  BY <1>1, <1>2, FlatTuples, Words, Levelling
<1>4. Flat(loop, u, l, f)
  <2> HIDE DEF body
  <2> QED BY <1>1, <1>3, Levelling
<1>5. Flat(with, a, l, f)
  BY StepSimple, FlatTuples, Words, Levelling
<1>6. /\ Flat(Expect(Identifier), a, l, f) /\ Flat(Return("node"), a, l, f)
      /\ Flat(parse_generic_params, a, l, f)
      /\ Step(Expect({"{"}), a, u, l, f) /\ Step(Expect({"}"}), u, a, l, f)
  BY StepSimple, Words, Opening
<1>7. parser_parse_extend_decl
        = <<Take, Expect(Identifier), parse_generic_params, with, Expect({"{"}), loop, Expect({"}"})>>
  BY DEF parser_parse_extend_decl
<1> HIDE DEF u, loop, with
<1>8. Path(<<Expect(Identifier), parse_generic_params, with, Expect({"{"}), loop, Expect({"}"}),
             Return("node")>>, a, a, l, f)
  BY <1>1, <1>4, <1>5, <1>6, Chain7 DEF Flat
<1> QED BY <1>7, <1>8, Words, TakenFirst

LEMMA AliasTestFlat ==
  ASSUME NEW a \in Stacks, NEW l, NEW f, a \in f
  PROVE  /\ Flat(When({"type"}, Append(parser_parse_type_alias, Return("node"))), a, l, f)
         /\ Flat(When({"test"}, Append(parser_parse_test_decl, Return("node"))), a, l, f)
<1>1. /\ Path(<<Expect(Identifier), Expect({"="}), parse_type, Expect({";"}), Return("node")>>, a, a, l, f)
      /\ Path(<<Expect({"str"}), parse_block, Return("node")>>, a, a, l, f)
  BY StepSimple, FlatTuples, Words
<1> QED BY <1>1, Words, TakenFirst DEF parser_parse_type_alias, parser_parse_test_decl

LEMMA TopLevelFlat ==
  ASSUME NEW a \in Stacks, NEW l, NEW f, a \in f
  PROVE  Path(parser_parse_top_level_decl, a, a, l, f)
<1> DEFINE fn == Append(parser_parse_fn_decl, Return("node"))
           unsafe == [op |-> "unsafe fn", then |-> fn]
           var == Append(VarDecl, Return("node"))
<1>1. Flat(Return("node"), a, l, f) /\ Flat(Return("null"), a, l, f) /\ Flat(Error, a, l, f)
  BY StepSimple
<1>2. Path(fn, a, a, l, f) /\ Path(var, a, a, l, f)
  BY <1>1, FnFlat, VarDeclFlat, Levelling
<1>3. Flat(unsafe, a, l, f)
  <2> HIDE DEF fn
  <2> QED BY <1>2, StepUnsafeFn
<1>4. /\ Flat(When({"fn"}, fn), a, l, f) /\ Flat(Opt({"const", "var"}, var), a, l, f)
      /\ Flat(Opt({"pub"}, << >>), a, l, f)
  <2> HIDE DEF fn, var
  <2> QED BY <1>2, FlatTuples, Words, Levelling
<1> HIDE DEF fn, unsafe, var
<1>5. Path(<<parse_attrs, Opt({"pub"}, << >>), unsafe, When({"fn"}, fn),
             When({"struct", "union"}, Append(parser_parse_struct_decl, Return("node"))),
             When({"enum"}, Append(parser_parse_enum_decl, Return("node"))),
             When({"traits"}, Append(parser_parse_traits_decl, Return("node"))),
             When({"extend"}, Append(parser_parse_extend_decl, Return("node"))),
             When({"type"}, Append(parser_parse_type_alias, Return("node"))),
             When({"test"}, Append(parser_parse_test_decl, Return("node"))),
             Opt({"const", "var"}, var), Error, Return("null")>>, a, a, l, f)
  BY <1>1, <1>3, <1>4, AttrsFlat, StructFlat, EnumFlat, TraitsFlat, ExtendFlat, AliasTestFlat,
     FlatLong
<1> QED BY <1>5 DEF parser_parse_top_level_decl, fn, unsafe, var

\* Every function closes what it opens.
LEMMA BodiesFlat ==
  ASSUME NEW a \in Stacks, NEW g \in Functions, NEW bp
  PROVE  Path(Body(g, bp), a, a, {}, {a})
<1>1. a \in {a}
  OBVIOUS
<1>2. /\ Path(parser_parse_expr_bp(bp), a, a, {}, {a}) /\ Path(parser_parse_prefix, a, a, {}, {a})
      /\ Path(parser_parse_primary, a, a, {}, {a}) /\ Path(parser_parse_block, a, a, {}, {a})
      /\ Path(parser_parse_stmt, a, a, {}, {a}) /\ Path(parser_parse_pattern, a, a, {}, {a})
      /\ Path(parser_parse_type, a, a, {}, {a}) /\ Path(parser_parse_param, a, a, {}, {a})
      /\ Path(parser_parse_top_level_decl, a, a, {}, {a})
  BY <1>1, ExprFlat, PrefixFlat, PrimaryFlat, BlockFlat, StmtFlat, PatternFlat, TypeFlat, ParamFlat,
     TopLevelFlat
<1> QED BY <1>2 DEF Body, Functions

-----------------------------------------------------------------------------
(* What is to be done, and the brackets it closes *)

\* What is left of s where its first loop in a turn, or its first function, is left.
OutOfLoop(s, r) ==
  \E e \in 1 .. Len(s) : /\ Running(s[e]) /\ \A k \in 1 .. e - 1 : ~Running(s[k])
                         /\ r = SubSeq(s, e + 1, Len(s))
OutOfFn(s, r) ==
  \E e \in 1 .. Len(s) : /\ FunctionEnd(s[e]) /\ \A k \in 1 .. e - 1 : ~FunctionEnd(s[k])
                         /\ r = SubSeq(s, e + 1, Len(s))

\* The loop of parser_parse, in a turn or not.
Declarations(x) ==
  x.op = "loop" /\ x.of = {} /\ x.then = <<Call("top_level_decl", 0), Recover>>

\* s, begun with the brackets of a to be closed, ends with none, and with the loop
\* of parser_parse; so does whatever s can be cut down to.
AgendaRule(G, s, a) ==
  /\ \E T : s \in Seq(T)
  /\ \/ Len(s) = 1 /\ Declarations(s[1]) /\ a = << >>
     \/ /\ s # << >>
        /\ \E b, l, f :
             /\ Leads(s[1], a, b, l, f)
             /\ <<Tail(s), b>> \in G
             /\ \A v \in l : \E r : OutOfLoop(Tail(s), r) /\ <<r, v>> \in G
             /\ \A v \in f : \E r : OutOfFn(Tail(s), r) /\ <<r, v>> \in G
AgendaSet(G) == \A s, a : <<s, a>> \in G => AgendaRule(G, s, a)
Agenda(s, a) == \E G : <<s, a>> \in G /\ AgendaSet(G)

\* AgendaRule, of agendas in general.
Goal(s, a) ==
  /\ \E T : s \in Seq(T)
  /\ \/ Len(s) = 1 /\ Declarations(s[1]) /\ a = << >>
     \/ /\ s # << >>
        /\ \E b, l, f :
             /\ Leads(s[1], a, b, l, f)
             /\ Agenda(Tail(s), b)
             /\ \A v \in l : \E r : OutOfLoop(Tail(s), r) /\ Agenda(r, v)
             /\ \A v \in f : \E r : OutOfFn(Tail(s), r) /\ Agenda(r, v)

LEMMA AgendaRuleMore ==
  ASSUME NEW G, NEW H, G \subseteq H, NEW s, NEW a, AgendaRule(G, s, a)
  PROVE  AgendaRule(H, s, a)
BY Zenon DEF AgendaRule

\* Agendas that belong together.
LEMMA AgendasJoined ==
  ASSUME NEW Y, \A y \in Y : \E s, a : y = <<s, a>> /\ Agenda(s, a)
  PROVE  \E H : AgendaSet(H) /\ Y \subseteq H
<1> DEFINE Around(y) == CHOOSE G : y \in G /\ AgendaSet(G)
           H == UNION {Around(y) : y \in Y}
<1>1. ASSUME NEW y \in Y PROVE y \in Around(y) /\ AgendaSet(Around(y))
  <2>1. \E G : y \in G /\ AgendaSet(G)
    BY DEF Agenda
  <2> QED BY <2>1
<1> HIDE DEF Around
<1>2. \A y \in Y : Around(y) \subseteq H
  OBVIOUS
<1>3. \A z \in H : \E y \in Y : z \in Around(y)
  OBVIOUS
<1>4. Y \subseteq H
  BY <1>1, <1>2
<1> HIDE DEF H
<1>5. ASSUME NEW s, NEW a, <<s, a>> \in H PROVE AgendaRule(H, s, a)
  <2>1. PICK y \in Y : <<s, a>> \in Around(y)
    BY <1>3, <1>5
  <2>2. AgendaRule(Around(y), s, a)
    BY <1>1, <2>1 DEF AgendaSet
  <2> QED BY <1>2, <2>2, AgendaRuleMore
<1> QED BY <1>4, <1>5, Zenon DEF AgendaSet

LEMMA AgendaMade ==
  ASSUME NEW H, AgendaSet(H), NEW s, NEW a, AgendaRule(H, s, a)
  PROVE  Agenda(s, a)
<1> DEFINE Q == H \cup {<<s, a>>}
<1>1. H \subseteq Q /\ <<s, a>> \in Q
  OBVIOUS
<1>2. ASSUME NEW r, NEW b, <<r, b>> \in Q PROVE AgendaRule(Q, r, b)
  <2>1. AgendaRule(H, r, b)
    <3>1. CASE <<r, b>> \in H
      BY <3>1 DEF AgendaSet
    <3>2. CASE <<r, b>> = <<s, a>>
      <4>1. r = s /\ b = a
        BY <3>2
      <4> QED BY <4>1
    <3> QED BY <1>2, <3>1, <3>2
  <2> HIDE DEF Q
  <2> QED BY <1>1, <2>1, AgendaRuleMore
<1> HIDE DEF Q
<1> QED BY <1>1, <1>2, Zenon DEF Agenda, AgendaSet

LEMMA AgendaIs ==
  ASSUME NEW s, NEW a
  PROVE  Agenda(s, a) <=> Goal(s, a)
<1>1. ASSUME Agenda(s, a) PROVE Goal(s, a)
  <2>1. PICK G : <<s, a>> \in G /\ AgendaSet(G)
    BY <1>1 DEF Agenda
  <2>2. AgendaRule(G, s, a)
    BY <2>1 DEF AgendaSet
  <2>3. \A r, b : <<r, b>> \in G => Agenda(r, b)
    BY <2>1 DEF Agenda
  <2>4. CASE Len(s) = 1 /\ Declarations(s[1]) /\ a = << >>
    BY <2>2, <2>4, Zenon DEF AgendaRule, Goal
  <2>5. CASE /\ s # << >>
             /\ \E b, l, f :
                  /\ Leads(s[1], a, b, l, f)
                  /\ <<Tail(s), b>> \in G
                  /\ \A v \in l : \E r : OutOfLoop(Tail(s), r) /\ <<r, v>> \in G
                  /\ \A v \in f : \E r : OutOfFn(Tail(s), r) /\ <<r, v>> \in G
    <3>1. PICK b : \E l, f :
                  /\ Leads(s[1], a, b, l, f)
                  /\ <<Tail(s), b>> \in G
                  /\ \A v \in l : \E r : OutOfLoop(Tail(s), r) /\ <<r, v>> \in G
                  /\ \A v \in f : \E r : OutOfFn(Tail(s), r) /\ <<r, v>> \in G
      BY <2>5
    <3>2. PICK l, f :
                  /\ Leads(s[1], a, b, l, f)
                  /\ <<Tail(s), b>> \in G
                  /\ \A v \in l : \E r : OutOfLoop(Tail(s), r) /\ <<r, v>> \in G
                  /\ \A v \in f : \E r : OutOfFn(Tail(s), r) /\ <<r, v>> \in G
      BY <3>1
    <3>3. /\ Agenda(Tail(s), b)
          /\ \A v \in l : \E r : OutOfLoop(Tail(s), r) /\ Agenda(r, v)
          /\ \A v \in f : \E r : OutOfFn(Tail(s), r) /\ Agenda(r, v)
      BY <2>3, <3>2
    <3>4. \E T : s \in Seq(T)
      BY <2>2 DEF AgendaRule
    <3> QED BY <2>5, <3>2, <3>3, <3>4, Zenon DEF Goal
  <2> QED BY <2>2, <2>4, <2>5, Zenon DEF AgendaRule
<1>2. ASSUME Goal(s, a) PROVE Agenda(s, a)
  <2> DEFINE Only == Len(s) = 1 /\ Declarations(s[1]) /\ a = << >>
  <2>1. CASE Only
    <3>1. AgendaRule({}, s, a)
      BY <1>2, <2>1, Zenon DEF Goal, AgendaRule
    <3>2. AgendaSet({})
      BY DEF AgendaSet
    <3> QED BY <3>1, <3>2, AgendaMade
  <2>2. CASE ~Only
    <3>1. s # << >> /\ \E b : \E l, f :
                          /\ Leads(s[1], a, b, l, f)
                          /\ Agenda(Tail(s), b)
                          /\ \A v \in l : \E r : OutOfLoop(Tail(s), r) /\ Agenda(r, v)
                          /\ \A v \in f : \E r : OutOfFn(Tail(s), r) /\ Agenda(r, v)
      BY <1>2, <2>2, Zenon DEF Goal
    <3>2. PICK b : \E l, f :
                     /\ Leads(s[1], a, b, l, f)
                     /\ Agenda(Tail(s), b)
                     /\ \A v \in l : \E r : OutOfLoop(Tail(s), r) /\ Agenda(r, v)
                     /\ \A v \in f : \E r : OutOfFn(Tail(s), r) /\ Agenda(r, v)
      BY <3>1
    <3>3. PICK l, f :
                     /\ Leads(s[1], a, b, l, f)
                     /\ Agenda(Tail(s), b)
                     /\ \A v \in l : \E r : OutOfLoop(Tail(s), r) /\ Agenda(r, v)
                     /\ \A v \in f : \E r : OutOfFn(Tail(s), r) /\ Agenda(r, v)
      BY <3>2
    <3> DEFINE R(v) == CHOOSE r : OutOfLoop(Tail(s), r) /\ Agenda(r, v)
               F(v) == CHOOSE r : OutOfFn(Tail(s), r) /\ Agenda(r, v)
               Y == {<<Tail(s), b>>} \cup {<<R(v), v>> : v \in l} \cup {<<F(v), v>> : v \in f}
    <3>4. \A v \in l : OutOfLoop(Tail(s), R(v)) /\ Agenda(R(v), v)
      BY <3>3
    <3>5. \A v \in f : OutOfFn(Tail(s), F(v)) /\ Agenda(F(v), v)
      BY <3>3
    <3> HIDE DEF R, F
    <3>6. \A y \in Y : \E r, v : y = <<r, v>> /\ Agenda(r, v)
      BY <3>3, <3>4, <3>5
    <3>7. /\ <<Tail(s), b>> \in Y
          /\ \A v \in l : <<R(v), v>> \in Y
          /\ \A v \in f : <<F(v), v>> \in Y
      OBVIOUS
    <3> HIDE DEF Y
    <3>8. PICK H : AgendaSet(H) /\ Y \subseteq H
      BY <3>6, AgendasJoined
    <3>9. /\ <<Tail(s), b>> \in H
          /\ \A v \in l : OutOfLoop(Tail(s), R(v)) /\ <<R(v), v>> \in H
          /\ \A v \in f : OutOfFn(Tail(s), F(v)) /\ <<F(v), v>> \in H
      BY <3>4, <3>5, <3>7, <3>8
    <3>10. s # << >> /\ \E T : s \in Seq(T)
      BY <1>2, <3>1 DEF Goal
    <3>11. /\ Leads(s[1], a, b, l, f)
           /\ <<Tail(s), b>> \in H
           /\ \A v \in l : \E r : OutOfLoop(Tail(s), r) /\ <<r, v>> \in H
           /\ \A v \in f : \E r : OutOfFn(Tail(s), r) /\ <<r, v>> \in H
      BY <3>3, <3>9
    <3>12. AgendaRule(H, s, a)
      BY <3>10, <3>11, Zenon DEF AgendaRule
    <3> QED BY <3>8, <3>12, AgendaMade
  <2> QED BY <2>1, <2>2
<1> QED BY <1>1, <1>2

LEMMA SameSeq ==
  ASSUME NEW U, NEW p \in Seq(U), NEW q \in Seq(U), Len(p) = Len(q),
         \A i \in 1 .. Len(p) : p[i] = q[i]
  PROVE  p = q
OBVIOUS

LEMMA OneThen ==
  ASSUME NEW T, NEW t \in Seq(T), NEW x, NEW s, s = <<x>> \o t
  PROVE  /\ s \in Seq(T \cup {x}) /\ s # << >> /\ s[1] = x /\ Tail(s) = t
         /\ Len(t) \in Nat /\ Len(s) = Len(t) + 1
         /\ \A i \in 1 .. Len(t) : s[i + 1] = t[i]
<1>1. t \in Seq(T \cup {x}) /\ <<x>> \in Seq(T \cup {x}) /\ Len(<<x>>) = 1 /\ <<x>>[1] = x
  OBVIOUS
<1>2. /\ s \in Seq(T \cup {x}) /\ s[1] = x
      /\ Len(t) \in Nat /\ Len(s) = Len(t) + 1
      /\ \A i \in 1 .. Len(t) : s[i + 1] = t[i]
  BY <1>1
<1>3. s # << >>
  BY <1>2
<1>4. Tail(s) \in Seq(T \cup {x}) /\ Len(Tail(s)) = Len(t) /\ \A i \in 1 .. Len(t) : Tail(s)[i] = t[i]
  BY <1>2, <1>3
<1>5. Tail(s) = t
  BY <1>1, <1>4
<1> QED BY <1>2, <1>3, <1>5

\* What is put in front of s does not change where its loop, or its function, ends.
LEMMA OutShift ==
  ASSUME NEW T, NEW t \in Seq(T), NEW x, NEW s, s = <<x>> \o t, NEW r
  PROVE  /\ OutOfLoop(t, r) /\ ~Running(x) => OutOfLoop(s, r)
         /\ OutOfFn(t, r) /\ ~FunctionEnd(x) => OutOfFn(s, r)
<1>1. /\ s \in Seq(T \cup {x}) /\ s[1] = x
      /\ Len(t) \in Nat /\ Len(s) = Len(t) + 1
      /\ \A i \in 1 .. Len(t) : s[i + 1] = t[i]
  BY OneThen
<1>2. ASSUME NEW e \in 1 .. Len(t)
      PROVE  /\ e + 1 \in 1 .. Len(s) /\ s[e + 1] = t[e]
             /\ SubSeq(s, (e + 1) + 1, Len(s)) = SubSeq(t, e + 1, Len(t))
             /\ \A k \in 1 .. (e + 1) - 1 : k = 1 \/ (k - 1 \in 1 .. e - 1 /\ s[k] = t[k - 1])
  <2>1. e + 1 \in 1 .. Len(s) /\ s[e + 1] = t[e]
    BY <1>1
  <2>2. ASSUME NEW k \in 1 .. (e + 1) - 1, k # 1
        PROVE  k - 1 \in 1 .. e - 1 /\ s[k] = t[k - 1]
    <3>1. k - 1 \in 1 .. e - 1 /\ k - 1 \in 1 .. Len(t) /\ (k - 1) + 1 = k
      BY <1>1, <2>2
    <3>2. s[(k - 1) + 1] = t[k - 1]
      BY <1>1, <3>1
    <3> QED BY <3>1, <3>2
  <2>3. SubSeq(s, (e + 1) + 1, Len(s)) = SubSeq(t, e + 1, Len(t))
    <3> DEFINE p == SubSeq(s, (e + 1) + 1, Len(s))
               q == SubSeq(t, e + 1, Len(t))
    <3>1. e + 1 \in 1 .. Len(s) /\ t \in Seq(T \cup {x})
      BY <2>1
    <3>2. /\ p \in Seq(T \cup {x}) /\ Len(p) = Len(s) - (e + 1)
          /\ \A i \in 1 .. Len(p) : p[i] = s[(e + 1) + i]
      BY <1>1, <3>1
    <3>3. /\ q \in Seq(T \cup {x}) /\ Len(q) = Len(t) - e
          /\ \A i \in 1 .. Len(q) : q[i] = t[e + i]
      BY <3>1
    <3> HIDE DEF p, q
    <3>4. Len(p) = Len(q)
      BY <1>1, <3>2, <3>3
    <3>5. ASSUME NEW i \in 1 .. Len(p) PROVE p[i] = q[i]
      <4>1. e + i \in 1 .. Len(t) /\ (e + i) + 1 = (e + 1) + i
        BY <1>1, <3>2
      <4>2. s[(e + i) + 1] = t[e + i]
        BY <1>1, <4>1
      <4> QED BY <3>2, <3>3, <3>4, <4>1, <4>2
    <3>6. p = q
      BY <3>2, <3>3, <3>4, <3>5, SameSeq
    <3> QED BY <3>6 DEF p, q
  <2> QED BY <2>1, <2>2, <2>3
<1>3. ASSUME OutOfLoop(t, r), ~Running(x) PROVE OutOfLoop(s, r)
  <2>1. PICK e \in 1 .. Len(t) : /\ Running(t[e]) /\ \A k \in 1 .. e - 1 : ~Running(t[k])
                                 /\ r = SubSeq(t, e + 1, Len(t))
    BY <1>3 DEF OutOfLoop
  <2> DEFINE d == e + 1
  <2>2. /\ d \in 1 .. Len(s) /\ Running(s[d]) /\ r = SubSeq(s, d + 1, Len(s))
    BY <1>2, <2>1
  <2>3. \A k \in 1 .. d - 1 : ~Running(s[k])
    BY <1>1, <1>2, <1>3, <2>1
  <2> HIDE DEF d
  <2> QED BY <2>2, <2>3, Zenon DEF OutOfLoop
<1>4. ASSUME OutOfFn(t, r), ~FunctionEnd(x) PROVE OutOfFn(s, r)
  <2>1. PICK e \in 1 .. Len(t) : /\ FunctionEnd(t[e]) /\ \A k \in 1 .. e - 1 : ~FunctionEnd(t[k])
                                 /\ r = SubSeq(t, e + 1, Len(t))
    BY <1>4 DEF OutOfFn
  <2> DEFINE d == e + 1
  <2>2. /\ d \in 1 .. Len(s) /\ FunctionEnd(s[d]) /\ r = SubSeq(s, d + 1, Len(s))
    BY <1>2, <2>1
  <2>3. \A k \in 1 .. d - 1 : ~FunctionEnd(s[k])
    BY <1>1, <1>2, <1>4, <2>1
  <2> HIDE DEF d
  <2> QED BY <2>2, <2>3, Zenon DEF OutOfFn
<1> QED BY <1>3, <1>4

LEMMA OutFirst ==
  ASSUME NEW T, NEW t \in Seq(T), NEW x, NEW s, s = <<x>> \o t
  PROVE  /\ Running(x) => OutOfLoop(s, t)
         /\ FunctionEnd(x) => OutOfFn(s, t)
<1>1. s \in Seq(T \cup {x}) /\ s # << >> /\ s[1] = x /\ Tail(s) = t /\ Len(t) \in Nat /\ Len(s) = Len(t) + 1
  BY OneThen
<1>2. Tail(s) = SubSeq(s, 2, Len(s))
  BY <1>1
<1>3. 1 \in 1 .. Len(s) /\ 1 + 1 = 2 /\ \A k \in 1 .. 1 - 1 : FALSE
  BY <1>1
<1>4. t = SubSeq(s, 1 + 1, Len(s))
  BY <1>1, <1>2, <1>3
<1> QED BY <1>1, <1>3, <1>4, Zenon DEF OutOfLoop, OutOfFn

\* Where s leads to if its loop, or its function, is left with one of l, or of f.
Exits(s, l, f) ==
  /\ \A v \in l : \E r : OutOfLoop(s, r) /\ Agenda(r, v)
  /\ \A v \in f : \E r : OutOfFn(s, r) /\ Agenda(r, v)

LEMMA AgendaSeq ==
  ASSUME NEW s, NEW a, Agenda(s, a)
  PROVE  (\E T : s \in Seq(T)) /\ s # << >>
<1>1. Goal(s, a)
  BY AgendaIs
<1>2. PICK T : s \in Seq(T)
  BY <1>1 DEF Goal
<1>3. Len(s) = 1 => s # << >>
  BY <1>2
<1>4. s # << >>
  BY <1>1, <1>3, Zenon DEF Goal
<1> QED BY <1>2, <1>4

\* x is done before t.
LEMMA PushOne ==
  ASSUME NEW t, NEW b, Agenda(t, b), NEW x, NEW a, NEW l, NEW f,
         Leads(x, a, b, l, f), Exits(t, l, f)
  PROVE  /\ Agenda(<<x>> \o t, a)
         /\ Fresh(x) => \A m, g : Exits(t, m, g) => Exits(<<x>> \o t, m, g)
         /\ ~FunctionEnd(x) => \A g : Exits(t, {}, g) => Exits(<<x>> \o t, {}, g)
         /\ Running(x) => OutOfLoop(<<x>> \o t, t)
         /\ FunctionEnd(x) => OutOfFn(<<x>> \o t, t)
<1>1. PICK T : t \in Seq(T)
  BY AgendaSeq
<1> DEFINE s == <<x>> \o t
<1>2. s \in Seq(T \cup {x}) /\ s # << >> /\ s[1] = x /\ Tail(s) = t
  BY <1>1, OneThen
<1>3. /\ \A r : OutOfLoop(t, r) /\ ~Running(x) => OutOfLoop(s, r)
      /\ \A r : OutOfFn(t, r) /\ ~FunctionEnd(x) => OutOfFn(s, r)
      /\ Running(x) => OutOfLoop(s, t)
      /\ FunctionEnd(x) => OutOfFn(s, t)
  BY <1>1, OutShift, OutFirst
<1> HIDE DEF s
<1>4. Goal(s, a)
  <2>1. /\ Leads(s[1], a, b, l, f) /\ Agenda(Tail(s), b)
        /\ \A v \in l : \E r : OutOfLoop(Tail(s), r) /\ Agenda(r, v)
        /\ \A v \in f : \E r : OutOfFn(Tail(s), r) /\ Agenda(r, v)
    BY <1>2 DEF Exits
  <2> QED BY <1>2, <2>1, Zenon DEF Goal
<1>5. Agenda(s, a)
  BY <1>4, AgendaIs
<1>6. ASSUME Fresh(x), NEW m, NEW g, Exits(t, m, g) PROVE Exits(s, m, g)
  <2>1. ~Running(x) /\ ~FunctionEnd(x)
    BY <1>6 DEF Fresh, FunctionEnd
  <2> QED BY <1>3, <1>6, <2>1, Zenon DEF Exits
<1>7. ASSUME ~FunctionEnd(x), NEW g, Exits(t, {}, g) PROVE Exits(s, {}, g)
  BY <1>3, <1>7, Zenon DEF Exits
<1> QED BY <1>3, <1>5, <1>6, <1>7 DEF s

LEMMA JoinThree ==
  ASSUME NEW T, NEW x \in T, NEW r \in Seq(T), NEW t \in Seq(T)
  PROVE  (<<x>> \o r) \o t = <<x>> \o (r \o t)
OBVIOUS

\* The last k of q, and then t.
Back(q, t) == [k \in 0 .. Len(q) |-> SubSeq(q, Len(q) - k + 1, Len(q)) \o t]

LEMMA BackOf ==
  ASSUME NEW T, NEW q \in Seq(T), NEW t \in Seq(T)
  PROVE  /\ Back(q, t)[0] = t /\ Back(q, t)[Len(q)] = q \o t
         /\ \A k \in 1 .. Len(q) : Back(q, t)[k] = <<q[Len(q) - k + 1]>> \o Back(q, t)[k - 1]
<1> DEFINE n == Len(q)
           B == Back(q, t)
<1>0. \A k \in 0 .. n : B[k] = SubSeq(q, n - k + 1, n) \o t
  BY DEF Back
<1> HIDE DEF B
<1>1. n \in Nat /\ 0 \in 0 .. n /\ n \in 0 .. n /\ n - 0 + 1 = n + 1 /\ n - n + 1 = 1
  OBVIOUS
<1>2. B[0] = t
  <2>1. SubSeq(q, n + 1, n) = << >>
    BY <1>1
  <2>2. << >> \o t = t
    OBVIOUS
  <2>3. B[0] = SubSeq(q, n - 0 + 1, n) \o t
    BY <1>0, <1>1
  <2> QED BY <1>1, <2>1, <2>2, <2>3
<1>3. B[n] = q \o t
  <2>1. SubSeq(q, 1, n) = q
    BY <1>1
  <2> QED BY <1>0, <1>1, <2>1
<1>4. ASSUME NEW k \in 1 .. n PROVE B[k] = <<q[n - k + 1]>> \o B[k - 1]
  <2> DEFINE i == n - k + 1
             p == SubSeq(q, i, n)
             r == SubSeq(q, i + 1, n)
  <2>1. /\ k \in 0 .. n /\ k - 1 \in 0 .. n /\ n - (k - 1) + 1 = i + 1 /\ i \in 1 .. n /\ i \in 1 .. Len(q)
    BY <1>1
  <2>2. q[i] \in T
    BY <2>1
  <2>3. /\ p \in Seq(T) /\ r \in Seq(T) /\ Len(p) = n - i + 1 /\ Len(r) = n - i
        /\ (\A j \in 1 .. Len(p) : p[j] = q[i + j - 1])
        /\ \A j \in 1 .. Len(r) : r[j] = q[i + j]
    BY <1>1, <2>1
  <2> DEFINE u == <<q[i]>> \o r
  <2>4. /\ u \in Seq(T) /\ Len(u) = Len(r) + 1 /\ u[1] = q[i]
        /\ \A j \in 1 .. Len(r) : u[j + 1] = r[j]
    BY <2>2, <2>3, OneThen
  <2> HIDE DEF p, r, u, i
  <2>5. Len(u) = Len(p)
    BY <1>1, <2>1, <2>3, <2>4
  <2>6. ASSUME NEW j \in 1 .. Len(p) PROVE p[j] = u[j]
    <3>1. CASE j = 1
      <4>1. i + j - 1 = i
        BY <1>1, <2>1, <3>1
      <4> QED BY <2>3, <2>4, <3>1, <4>1
    <3>2. CASE j # 1
      <4>1. j - 1 \in 1 .. Len(r) /\ (j - 1) + 1 = j /\ i + j - 1 = i + (j - 1)
        BY <1>1, <2>1, <2>3, <3>2
      <4>2. u[(j - 1) + 1] = r[j - 1] /\ r[j - 1] = q[i + (j - 1)]
        BY <2>3, <2>4, <4>1
      <4> QED BY <2>3, <4>1, <4>2
    <3> QED BY <3>1, <3>2
  <2>7. p = u
    BY <2>3, <2>4, <2>5, <2>6, SameSeq
  <2>8. B[k] = p \o t /\ B[k - 1] = r \o t
    BY <1>0, <2>1 DEF p, r, i
  <2>9. (<<q[i]>> \o r) \o t = <<q[i]>> \o (r \o t)
    BY <2>2, <2>3, JoinThree
  <2> QED BY <2>7, <2>8, <2>9 DEF u, i
<1> QED BY <1>2, <1>3, <1>4 DEF B

LEMMA AppendThen ==
  ASSUME NEW S, NEW q \in Seq(S), NEW x, NEW T, NEW t \in Seq(T)
  PROVE  Append(q, x) \o t = q \o (<<x>> \o t)
<1> DEFINE U == S \cup T \cup {x}
<1>1. q \in Seq(U) /\ t \in Seq(U) /\ x \in U
  OBVIOUS
<1> HIDE DEF U
<1> QED BY <1>1

\* A row of things is done before t.
LEMMA PushRow ==
  ASSUME NEW t, NEW b, Agenda(t, b), NEW q, NEW a, NEW l, NEW f,
         Path(q, a, b, l, f), Exits(t, l, f)
  PROVE  Agenda(q \o t, a)
<1>1. PICK w \in [0 .. Len(q) -> Stacks] :
        /\ w[0] = a /\ w[Len(q)] = b
        /\ \A i \in 1 .. Len(q) : Fresh(q[i]) /\ Leads(q[i], w[i - 1], w[i], l, f)
  BY PathPoints
<1>2. PICK S, T : q \in Seq(S) /\ t \in Seq(T)
  BY PathPoints, AgendaSeq
<1>3. q \in Seq(S \cup T) /\ t \in Seq(S \cup T)
  BY <1>2
<1> DEFINE n == Len(q)
           B == Back(q, t)
<1>4. /\ n \in Nat /\ B[0] = t /\ B[n] = q \o t
      /\ \A k \in 1 .. n : B[k] = <<q[n - k + 1]>> \o B[k - 1]
  BY <1>3, BackOf
<1> HIDE DEF B, n
<1> DEFINE Good == {k \in Nat : Agenda(B[k], w[n - k]) /\ Exits(B[k], l, f)}
<1>5. 0 \in Good
  <2>1. n - 0 = n /\ w[n] = b
    BY <1>1, <1>4 DEF n
  <2> QED BY <1>4, <2>1
<1>6. ASSUME NEW k \in 1 .. n, k - 1 \in Good PROVE k \in Good
  <2> DEFINE i == n - k + 1
             x == q[i]
             s == B[k - 1]
  <2>1. /\ i \in 1 .. Len(q) /\ n - (k - 1) = i /\ n - k = i - 1 /\ k \in Nat
    BY <1>4 DEF n
  <2>2. Fresh(x) /\ Leads(x, w[i - 1], w[i], l, f)
    BY <1>1, <2>1
  <2>3. Agenda(s, w[i]) /\ Exits(s, l, f)
    BY <1>6, <2>1
  <2>4. B[k] = <<x>> \o s
    BY <1>4
  <2> HIDE DEF x, s, Good
  <2>5. Agenda(<<x>> \o s, w[i - 1]) /\ Exits(<<x>> \o s, l, f)
    BY <2>2, <2>3, PushOne
  <2>6. Agenda(B[k], w[n - k]) /\ Exits(B[k], l, f)
    BY <2>1, <2>4, <2>5
  <2> QED BY <2>1, <2>6 DEF Good
<1>7. Good \in SUBSET Nat
  OBVIOUS
<1> HIDE DEF Good
<1>8. \A k \in 0 .. n : k \in Good
  BY <1>4, <1>5, <1>6, <1>7, LevelByLevel
<1>9. n \in Good /\ n - n = 0
  BY <1>4, <1>8
<1> QED BY <1>1, <1>4, <1>9 DEF Good

\* q and then t, unless q starts with a message.
Comes(q, t, a) == Fails(q) \/ Agenda(q \o t, a)

LEMMA PushPass ==
  ASSUME NEW t, NEW b, Agenda(t, b), NEW q, NEW a, NEW l, NEW f,
         Pass(q, a, b, l, f), Exits(t, l, f)
  PROVE  Comes(q, t, a)
<1>1. Fails(q) \/ Path(q, a, b, l, f)
  BY PassIs
<1> QED BY <1>1, PushRow DEF Comes

LEMMA AgendaParts ==
  ASSUME NEW s, NEW a, Agenda(s, a)
  PROVE  \/ Len(s) = 1 /\ Declarations(s[1]) /\ a = << >>
         \/ \E b, l, f : Does(s[1], a, b, l, f) /\ Agenda(Tail(s), b) /\ Exits(Tail(s), l, f)
<1>1. Goal(s, a)
  BY AgendaIs
<1>2. ASSUME NEW b, NEW l, NEW f, Leads(s[1], a, b, l, f) PROVE Does(s[1], a, b, l, f)
  BY <1>2, LeadsDoes
<1> QED BY <1>1, <1>2, Zenon DEF Goal, Exits

\* The first thing leads somewhere.
First(x, t, a) == \E b, l, f : Does(x, a, b, l, f) /\ Agenda(t, b) /\ Exits(t, l, f)

LEMMA FirstExpect ==
  ASSUME NEW x, NEW t, NEW a, First(x, t, a), x.op = "expect"
  PROVE  a \in Stacks /\ \E b \in Stacks : Took(x.of, a, b) /\ Agenda(t, b)
BY DEF First, Does

LEMMA FirstMatch ==
  ASSUME NEW x, NEW t, NEW a, First(x, t, a), x.op = "match"
  PROVE  /\ a \in Stacks
         /\ \E c \in Stacks : Took(x.of, a, c) /\ Comes(x.then, t, c)
         /\ Comes(x.else, t, a)
<1>1. PICK b, l, f : Does(x, a, b, l, f) /\ Agenda(t, b) /\ Exits(t, l, f)
  BY DEF First
<1>2. /\ a \in Stacks /\ Pass(x.else, a, b, l, f)
      /\ \E c \in Stacks : Took(x.of, a, c) /\ Pass(x.then, c, b, l, f)
  BY <1>1 DEF Does
<1>3. PICK c \in Stacks : Took(x.of, a, c) /\ Pass(x.then, c, b, l, f)
  BY <1>2
<1> QED BY <1>1, <1>2, <1>3, PushPass

LEMMA FirstCheck ==
  ASSUME NEW x, NEW t, NEW a, First(x, t, a), x.op = "check"
  PROVE  /\ Comes(x.else, t, a)
         /\ \/ Comes(x.then, t, a)
            \/ NoBracket(x.of) /\ \E r : x.then = <<Take>> \o r /\ Agenda(r \o t, a) /\ \E T : r \in Seq(T)
<1>1. PICK b, l, f : Does(x, a, b, l, f) /\ Agenda(t, b) /\ Exits(t, l, f)
  BY DEF First
<1>2. /\ Pass(x.else, a, b, l, f)
      /\ \/ Pass(x.then, a, b, l, f)
         \/ NoBracket(x.of) /\ TakePath(x.then, a, b, l, f)
  BY <1>1 DEF Does
<1>3. CASE Pass(x.then, a, b, l, f)
  BY <1>1, <1>2, <1>3, PushPass
<1>4. CASE NoBracket(x.of) /\ TakePath(x.then, a, b, l, f)
  <2>1. PICK r : x.then = <<Take>> \o r /\ Path(r, a, b, l, f)
    BY <1>4, PassIs
  <2>2. Agenda(r \o t, a)
    BY <1>1, <2>1, PushRow
  <2>3. \E T : r \in Seq(T)
    BY <2>1, PathPoints
  <2>4. Comes(x.else, t, a)
    BY <1>1, <1>2, PushPass
  <2> QED BY <1>4, <2>1, <2>2, <2>3, <2>4, Zenon
<1> QED BY <1>2, <1>3, <1>4

LEMMA FirstLoop ==
  ASSUME NEW x, NEW t, NEW a, First(x, t, a), x.op = "loop",
         NEW y, Running(y), y.op = "loop", y.then = x.then
  PROVE  Agenda(t, a) /\ Comes(x.then, <<y>> \o t, a)
<1>1. PICK b, l, f : Does(x, a, b, l, f) /\ Agenda(t, b) /\ Exits(t, l, f)
  BY DEF First
<1>2. a = b /\ a \in Stacks /\ Pass(x.then, a, a, {a}, f)
  BY <1>1 DEF Does
<1>3. Does(y, a, a, l, f)
  BY <1>2 DEF Does
<1>4. Leads(y, a, a, l, f)
  BY <1>3, LeadsDoes
<1>5. Agenda(t, a)
  BY <1>1, <1>2
<1>6. Exits(t, {}, f)
  BY <1>1, Zenon DEF Exits
<1>7. ~FunctionEnd(y)
  BY DEF FunctionEnd
<1>8. Agenda(<<y>> \o t, a) /\ OutOfLoop(<<y>> \o t, t) /\ Exits(<<y>> \o t, {}, f)
  BY <1>1, <1>4, <1>5, <1>6, <1>7, PushOne
<1>9. \A v \in {a} : v = a
  OBVIOUS
<1>10. Exits(<<y>> \o t, {a}, f)
  BY <1>5, <1>8, <1>9, Zenon DEF Exits
<1> QED BY <1>2, <1>5, <1>8, <1>10, PushPass

LEMMA FirstAgain ==
  ASSUME NEW x, NEW t, NEW a, First(x, t, a), x.op = "again"
  PROVE  /\ a \in Stacks /\ NoBracket(x.of) /\ Agenda(t, a) /\ Agenda(x.then \o (<<x>> \o t), a)
         /\ \E S : x.then \in Seq(S)
<1>1. PICK b, l, f : Does(x, a, b, l, f) /\ Agenda(t, b) /\ Exits(t, l, f)
  BY DEF First
<1>2. a = b /\ a \in Stacks /\ NoBracket(x.of) /\ Path(x.then, a, a, l, f)
  BY <1>1 DEF Does
<1>3. Leads(x, a, a, l, f) /\ Fresh(x)
  BY <1>1, <1>2, LeadsDoes DEF Fresh, Running
<1>4. Agenda(<<x>> \o t, a) /\ Exits(<<x>> \o t, l, f)
  BY <1>1, <1>2, <1>3, PushOne
<1>5. Agenda(x.then \o (<<x>> \o t), a)
  BY <1>2, <1>4, PushRow
<1>6. \E S : x.then \in Seq(S)
  BY <1>2, PathPoints
<1> QED BY <1>1, <1>2, <1>5, <1>6

LEMMA FirstLeaves ==
  ASSUME NEW x, NEW t, NEW a, First(x, t, a)
  PROVE  /\ x.op = "break" => \E r : OutOfLoop(t, r) /\ Agenda(r, a)
         /\ x.op = "return" => \E r : OutOfFn(t, r) /\ Agenda(r, a)
BY DEF First, Does, Exits

LEMMA FirstOther ==
  ASSUME NEW x, NEW t, NEW a, First(x, t, a),
         x.op \in {"call", "ifnull", "infix", "end", "generics"}
  PROVE  /\ a \in Stacks /\ Agenda(t, a)
         /\ \A q : Path(q, a, a, {}, {}) => Agenda(q \o t, a)
<1>1. PICK b, l, f : Does(x, a, b, l, f) /\ Agenda(t, b) /\ Exits(t, l, f)
  BY DEF First
<1>2. a = b /\ a \in Stacks
  BY <1>1 DEF Does
<1>3. Exits(t, {}, {})
  BY Zenon DEF Exits
<1>4. Agenda(t, a)
  BY <1>1, <1>2
<1>5. \A q : Path(q, a, a, {}, {}) => Agenda(q \o t, a)
  BY <1>3, <1>4, PushRow
<1> QED BY <1>2, <1>4, <1>5

LEMMA FirstUnsafe ==
  ASSUME NEW x, NEW t, NEW a, First(x, t, a), x.op = "unsafe fn"
  PROVE  Agenda(t, a) /\ Comes(x.then, t, a)
<1>1. PICK b, l, f : Does(x, a, b, l, f) /\ Agenda(t, b) /\ Exits(t, l, f)
  BY DEF First
<1>2. a = b /\ Pass(x.then, a, a, l, f)
  BY <1>1 DEF Does
<1> QED BY <1>1, <1>2, PushPass

\* A function is called.
LEMMA FirstCall ==
  ASSUME NEW t, NEW a \in Stacks, Agenda(t, a), NEW g \in Functions, NEW bp
  PROVE  Agenda(Append(Body(g, bp), End) \o t, a)
<1>1. Leads(End, a, a, {}, {}) /\ FunctionEnd(End) /\ ~Running(End)
  <2>1. End.op = "end"
    BY DEF End
  <2>2. Does(End, a, a, {}, {})
    BY <2>1 DEF Does
  <2> QED BY <2>1, <2>2, LeadsDoes DEF FunctionEnd, Running
<1>2. Exits(t, {}, {})
  BY Zenon DEF Exits
<1>3. Agenda(<<End>> \o t, a) /\ OutOfFn(<<End>> \o t, t)
  BY <1>1, <1>2, PushOne
<1>4. \A v \in {a} : v = a
  OBVIOUS
<1>5. Exits(<<End>> \o t, {}, {a})
  BY <1>3, <1>4, Zenon DEF Exits
<1>6. Path(Body(g, bp), a, a, {}, {a})
  BY BodiesFlat
<1>7. Agenda(Body(g, bp) \o (<<End>> \o t), a)
  BY <1>3, <1>5, <1>6, PushRow
<1>8. (\E S : Body(g, bp) \in Seq(S)) /\ \E T : t \in Seq(T)
  BY <1>6, PathPoints, AgendaSeq
<1>9. Append(Body(g, bp), End) \o t = Body(g, bp) \o (<<End>> \o t)
  BY <1>8, AppendThen
<1> QED BY <1>7, <1>9

\* The loop of parser_parse.
LEMMA DeclarationsTurn ==
  ASSUME NEW y, Declarations(y)
  PROVE  /\ Agenda(<<y>>, << >>)
         /\ Agenda(<<Call("top_level_decl", 0), Recover>> \o <<y>>, << >>)
<1>1. <<y>> \in Seq({y}) /\ Len(<<y>>) = 1 /\ <<y>>[1] = y
  OBVIOUS
<1>2. Goal(<<y>>, << >>)
  BY <1>1, Zenon DEF Goal
<1>3. Agenda(<<y>>, << >>)
  BY <1>2, AgendaIs
<1>4. << >> \in Stacks
  BY DEF Stacks
<1>5. Path(<<Call("top_level_decl", 0), Recover>>, << >>, << >>, {}, {})
  BY <1>4, StepSimple, FlatTuples DEF Recover
<1>6. Exits(<<y>>, {}, {})
  BY Zenon DEF Exits
<1> QED BY <1>3, <1>5, <1>6, PushRow

LEMMA ModuleAgenda == Agenda(parser_parse, << >>)
<1> DEFINE e == << >>
           head == Opt({"module"}, <<Expect(Identifier), Expect({";"})>>)
           step == Loop("import path", {}, <<Match({"."}, <<Expect(Identifier)>>, <<Break>>)>>)
           import == <<Match({"import"}, << >>, <<Break>>), Expect(Identifier), step,
                       Opt({"as"}, <<Expect(Identifier)>>), Expect({";"})>>
           imports == Loop("imports", {}, import)
           loop == Loop("declarations", {}, <<Call("top_level_decl", 0), Recover>>)
<1>1. e \in Stacks /\ e \in {e}
  BY DEF Stacks
<1>2. Declarations(loop)
  BY DEF Declarations, Loop
<1>3. Agenda(<<loop>>, e)
  <2> HIDE DEF loop
  <2> QED BY <1>2, DeclarationsTurn
<1>4. parser_parse = <<head, imports>> \o <<loop>>
  <2>1. parser_parse = <<head, imports, loop>>
    BY DEF parser_parse, Recover
  <2> HIDE DEF head, imports, loop
  <2>2. <<head, imports, loop>> = <<head, imports>> \o <<loop>>
    OBVIOUS
  <2> QED BY <2>1, <2>2
<1> HIDE DEF e, loop
<1>5. Flat(head, e, {}, {})
  BY <1>1, StepSimple, FlatTuples, Words, Levelling
<1>6. Path(<<Match({"."}, <<Expect(Identifier)>>, <<Break>>)>>, e, e, {e}, {})
  BY <1>1, StepSimple, FlatTuples, Words, Levelling
<1>7. Flat(step, e, {e}, {})
  BY <1>1, <1>6, Levelling
<1>8. Path(import, e, e, {e}, {})
  <2> HIDE DEF step
  <2> QED BY <1>1, <1>7, StepSimple, FlatTuples, Words, Levelling
<1>9. Flat(imports, e, {}, {})
  <2> HIDE DEF import
  <2> QED BY <1>1, <1>8, Levelling
<1>10. Path(<<head, imports>>, e, e, {}, {})
  <2> HIDE DEF head, imports
  <2> QED BY <1>1, <1>5, <1>9, FlatTuples
<1>11. Exits(<<loop>>, {}, {})
  BY Zenon DEF Exits
<1>12. Agenda(<<head, imports>> \o <<loop>>, e)
  <2> HIDE DEF head, imports
  <2> QED BY <1>3, <1>10, <1>11, PushRow
<1> QED BY <1>4, <1>12 DEF e

-----------------------------------------------------------------------------
(* The brackets of the tokens *)

\* g gives the brackets to be closed behind each of the first n of s.
OpenedBy(g, s, n) ==
  g = [k \in 0 .. n |-> IF k = 0 THEN << >> ELSE Bracket(g[k - 1], s[k])]
Opened(s) == CHOOSE g : OpenedBy(g, s, Len(s))

LEMMA OpenedByIs ==
  ASSUME NEW g, NEW s, NEW n \in Nat
  PROVE  OpenedBy(g, s, n) <=> /\ g = [k \in 0 .. n |-> g[k]] /\ g[0] = << >>
                               /\ \A k \in 1 .. n : g[k] = Bracket(g[k - 1], s[k])
<1> DEFINE E == [k \in 0 .. n |-> IF k = 0 THEN << >> ELSE Bracket(g[k - 1], s[k])]
<1>1. ASSUME OpenedBy(g, s, n)
      PROVE  /\ g = [k \in 0 .. n |-> g[k]] /\ g[0] = << >>
             /\ \A k \in 1 .. n : g[k] = Bracket(g[k - 1], s[k])
  <2>1. g = E
    BY <1>1 DEF OpenedBy
  <2>2. E = [k \in 0 .. n |-> E[k]] /\ E[0] = << >>
        /\ \A k \in 1 .. n : E[k] = Bracket(g[k - 1], s[k])
    OBVIOUS
  <2> HIDE DEF E
  <2> QED BY <2>1, <2>2
<1>2. ASSUME /\ g = [k \in 0 .. n |-> g[k]] /\ g[0] = << >>
             /\ \A k \in 1 .. n : g[k] = Bracket(g[k - 1], s[k])
      PROVE  OpenedBy(g, s, n)
  <2>1. \A k \in 0 .. n : k = 0 \/ k \in 1 .. n
    OBVIOUS
  <2>2. \A k \in 0 .. n : g[k] = E[k]
    BY <1>2, <2>1
  <2>3. g = E
    BY <1>2, <2>2
  <2> QED BY <2>3 DEF OpenedBy
<1> QED BY <1>1, <1>2

LEMMA OpenedExists == \A s : \A n \in Nat : \E g : OpenedBy(g, s, n)
<1> SUFFICES ASSUME NEW s, NEW n \in Nat PROVE \E g : OpenedBy(g, s, n)
  OBVIOUS
<1> DEFINE Good == {m \in Nat : \E g : OpenedBy(g, s, m)}
<1>1. 0 \in Good
  <2> DEFINE g == [k \in 0 .. 0 |-> << >>]
  <2>1. g = [k \in 0 .. 0 |-> g[k]] /\ g[0] = << >> /\ \A k \in 1 .. 0 : FALSE
    OBVIOUS
  <2> HIDE DEF g
  <2>2. OpenedBy(g, s, 0)
    BY <2>1, OpenedByIs
  <2> QED BY <2>2
<1>2. ASSUME NEW m \in 1 .. n, m - 1 \in Good PROVE m \in Good
  <2>1. m \in Nat /\ m - 1 \in Nat /\ m # 0
    OBVIOUS
  <2>2. PICK f : OpenedBy(f, s, m - 1)
    BY <1>2
  <2>3. f[0] = << >> /\ \A k \in 1 .. m - 1 : f[k] = Bracket(f[k - 1], s[k])
    BY <2>1, <2>2, OpenedByIs
  <2> DEFINE g == [k \in 0 .. m |-> IF k = m THEN Bracket(f[m - 1], s[m]) ELSE f[k]]
  <2>4. g = [k \in 0 .. m |-> g[k]] /\ g[0] = << >> /\ g[m] = Bracket(f[m - 1], s[m])
        /\ \A k \in 0 .. m - 1 : g[k] = f[k]
    BY <2>1, <2>3
  <2> HIDE DEF g, Good
  <2>5. ASSUME NEW k \in 1 .. m PROVE g[k] = Bracket(g[k - 1], s[k])
    <3>1. CASE k = m
      <4>1. m - 1 \in 0 .. m - 1
        BY <2>1
      <4> QED BY <2>4, <3>1, <4>1
    <3>2. CASE k # m
      <4>1. k \in 1 .. m - 1 /\ k \in 0 .. m - 1 /\ k - 1 \in 0 .. m - 1
        BY <2>1, <3>2
      <4> QED BY <2>3, <2>4, <4>1
    <3> QED BY <3>1, <3>2
  <2>6. OpenedBy(g, s, m)
    BY <2>1, <2>4, <2>5, OpenedByIs
  <2> QED BY <2>1, <2>6 DEF Good
<1>3. Good \in SUBSET Nat /\ n \in 0 .. n
  OBVIOUS
<1> HIDE DEF Good
<1>4. n \in Good
  BY <1>1, <1>2, <1>3, LevelByLevel
<1> QED BY <1>4 DEF Good

LEMMA OpenedIs ==
  ASSUME NEW s, Len(s) \in Nat
  PROVE  /\ Opened(s)[0] = << >>
         /\ \A k \in 1 .. Len(s) : Opened(s)[k] = Bracket(Opened(s)[k - 1], s[k])
         /\ Unclosed(s) = Opened(s)[Len(s)]
<1>1. OpenedBy(Opened(s), s, Len(s))
  BY OpenedExists DEF Opened
<1>2. Unclosed(s) = Opened(s)[Len(s)]
  BY DEF Unclosed, Opened, OpenedBy
<1> QED BY <1>1, <1>2, OpenedByIs

\* A token taken from K, as the stack says.
LEMMA TookOpens ==
  ASSUME NEW a \in Stacks, NEW b \in Stacks, NEW K, Took(K, a, b), NEW t \in K
  PROVE  Bracket(a, t) = b
<1>1. /\ DOMAIN Closing = {"(", "[", "{"} /\ Range(Closing) = {")", "]", "}"}
      /\ Brackets \ DOMAIN Closing = {")", "]", "}"}
  <2>1. DOMAIN Closing = {"(", "[", "{"} /\ Brackets \ DOMAIN Closing = {")", "]", "}"}
        /\ Closing["("] = ")" /\ Closing["["] = "]" /\ Closing["{"] = "}"
    BY DEF Closing, Brackets
  <2>2. Range(Closing) = {Closing[u] : u \in DOMAIN Closing}
    BY DEF Range
  <2> QED BY <2>1, <2>2
<1>2. CASE NoBracket(K) /\ b = a
  BY <1>1, <1>2 DEF NoBracket, Brackets, Bracket
<1>3. CASE \E u \in DOMAIN Closing : K = {u} /\ b = Append(a, Closing[u])
  BY <1>3 DEF Bracket
<1>4. CASE \E u \in Brackets \ DOMAIN Closing : K = {u} /\ a = Append(b, u)
  <2>1. a = Append(b, t) /\ t \in Range(Closing) /\ t \notin DOMAIN Closing
    BY <1>1, <1>4
  <2>2. b \in Seq(Brackets) /\ t \in Brackets
    BY <1>4 DEF Stacks
  <2>3. Append(b, t) # << >> /\ Last(Append(b, t)) = t
    BY <2>2 DEF Last
  <2>4. Front(Append(b, t)) = b
    BY <2>2 DEF Front
  <2> QED BY <2>1, <2>3, <2>4 DEF Bracket
<1> QED BY <1>2, <1>3, <1>4 DEF Took

LEMMA LevelTaken ==
  ASSUME NEW s, Len(s) \in Nat, NEW p \in Nat, p < Len(s),
         NEW a \in Stacks, a = Opened(s)[p], NEW b \in Stacks, NEW K, Took(K, a, b), s[p + 1] \in K
  PROVE  Opened(s)[p + 1] = b
<1>1. p + 1 \in 1 .. Len(s) /\ (p + 1) - 1 = p
  OBVIOUS
<1>2. Opened(s)[p + 1] = Bracket(Opened(s)[(p + 1) - 1], s[p + 1])
  BY <1>1, OpenedIs
<1>3. Bracket(a, s[p + 1]) = b
  BY TookOpens
<1> QED BY <1>1, <1>2, <1>3

-----------------------------------------------------------------------------
(* The steps, seen from the brackets *)

\* The brackets to be closed at pos.
Level == Opened(tokens)[pos]

\* Unless an error has been reported, or is about to be, what is to be done closes
\* the brackets that are open.
Balanced ==
  \/ had_error
  \/ Doing("error")
  \/ todo = << >> /\ pos = Len(tokens) /\ Level = << >>
  \/ Doing("take") /\ parser_current \notin Brackets /\ Agenda(Tail(todo), Level)
  \/ Agenda(todo, Level)

Bracketed == Balanced /\ \A i \in 1 .. Len(tokens) : tokens[i] # "eof"

LEMMA HeadThenTail ==
  ASSUME NEW T, NEW s \in Seq(T), s # << >>
  PROVE  /\ s = <<s[1]>> \o Tail(s) /\ Tail(s) \in Seq(T) /\ Head(s) = s[1]
         /\ Len(s) = 1 => Tail(s) = << >>
<1>1. Tail(s) \in Seq(T) /\ Head(s) = s[1] /\ Len(s) \in Nat /\ Len(s) >= 1 /\ s[1] \in T
      /\ Len(Tail(s)) = Len(s) - 1 /\ \A i \in 1 .. Len(Tail(s)) : Tail(s)[i] = s[i + 1]
  OBVIOUS
<1> DEFINE t == Tail(s)
           r == <<s[1]>> \o t
           U == T \cup {s[1]}
<1>2. /\ r \in Seq(U) /\ r[1] = s[1] /\ Len(r) = Len(t) + 1
      /\ \A i \in 1 .. Len(t) : r[i + 1] = t[i]
  BY <1>1, OneThen
<1>3. Len(s) = Len(r) /\ s \in Seq(U)
  BY <1>1, <1>2
<1> HIDE DEF r, t, U
<1>4. ASSUME NEW i \in 1 .. Len(s) PROVE s[i] = r[i]
  <2>1. CASE i = 1
    BY <1>2, <2>1
  <2>2. CASE i # 1
    <3>1. i - 1 \in 1 .. Len(t) /\ (i - 1) + 1 = i
      BY <1>1, <2>2 DEF t
    <3>2. r[(i - 1) + 1] = t[i - 1] /\ t[i - 1] = s[(i - 1) + 1]
      BY <1>1, <1>2, <3>1 DEF t
    <3> QED BY <3>1, <3>2
  <2> QED BY <2>1, <2>2
<1>5. s = r
  BY <1>2, <1>3, <1>4, SameSeq
<1>6. Len(s) = 1 => t = << >>
  <2>1. \A u \in Seq(T) : Len(u) = 0 => u = << >>
    OBVIOUS
  <2>2. t \in Seq(T) /\ (Len(s) = 1 => Len(t) = 0)
    BY <1>1 DEF t
  <2> QED BY <2>1, <2>2
<1> QED BY <1>1, <1>5, <1>6 DEF r, t

\* The loop, or the function, that is left is the nearest.
LEMMA OutIsBehind ==
  ASSUME NEW T, todo \in Seq(T), NEW r
  PROVE  /\ OutOfLoop(todo, r) => r = Behind(Running)
         /\ OutOfFn(todo, r) => r = Behind(FunctionEnd)
<1>1. ASSUME NEW I \in SUBSET (1 .. Len(todo)), NEW e \in I, \A k \in 1 .. e - 1 : k \notin I
      PROVE  I # {} /\ Min(I) = e
  <2>1. I # {} /\ Min(I) \in I /\ Min(I) \in 1 .. Len(todo) /\ Min(I) <= e
    BY <1>1, Nearest
  <2>2. e \in Nat /\ ~(Min(I) \in 1 .. e - 1)
    BY <1>1, <2>1
  <2>3. ~(Min(I) < e)
    BY <2>1, <2>2
  <2> QED BY <2>1, <2>2, <2>3
<1>2. ASSUME OutOfLoop(todo, r) PROVE r = Behind(Running)
  <2> DEFINE I == {i \in 1 .. Len(todo) : Running(todo[i])}
  <2>1. PICK e \in 1 .. Len(todo) : /\ Running(todo[e]) /\ \A k \in 1 .. e - 1 : ~Running(todo[k])
                                    /\ r = SubSeq(todo, e + 1, Len(todo))
    BY <1>2 DEF OutOfLoop
  <2>2. I \in SUBSET (1 .. Len(todo)) /\ e \in I /\ \A k \in 1 .. e - 1 : k \notin I
    BY <2>1
  <2>3. SelectInSeq(todo, Running) = IF I # {} THEN Min(I) ELSE 0
    BY DEF SelectInSeq
  <2> HIDE DEF I
  <2>4. SelectInSeq(todo, Running) = e
    BY <1>1, <2>2, <2>3
  <2> QED BY <2>1, <2>4 DEF Behind
<1>3. ASSUME OutOfFn(todo, r) PROVE r = Behind(FunctionEnd)
  <2> DEFINE I == {i \in 1 .. Len(todo) : FunctionEnd(todo[i])}
  <2>1. PICK e \in 1 .. Len(todo) :
          /\ FunctionEnd(todo[e]) /\ \A k \in 1 .. e - 1 : ~FunctionEnd(todo[k])
          /\ r = SubSeq(todo, e + 1, Len(todo))
    BY <1>3 DEF OutOfFn
  <2>2. I \in SUBSET (1 .. Len(todo)) /\ e \in I /\ \A k \in 1 .. e - 1 : k \notin I
    BY <2>1
  <2>3. SelectInSeq(todo, FunctionEnd) = IF I # {} THEN Min(I) ELSE 0
    BY DEF SelectInSeq
  <2> HIDE DEF I
  <2>4. SelectInSeq(todo, FunctionEnd) = e
    BY <1>1, <2>2, <2>3
  <2> QED BY <2>1, <2>4 DEF Behind
<1> QED BY <1>2, <1>3

LEMMA InitBrackets == Init => Bracketed
<1> SUFFICES ASSUME Init PROVE Bracketed
  OBVIOUS
<1>1. PICK v \in Vocabularies : \E rest \in BoundedSeq(v.words, v.len) : tokens = v.prefix \o rest
  BY DEF Init, parser_init
<1>2. PICK rest \in BoundedSeq(v.words, v.len) : tokens = v.prefix \o rest
  BY <1>1
<1>3. /\ v.prefix \in Seq(STRING) /\ v.words \in SUBSET STRING /\ v.len \in Nat
      /\ "eof" \notin v.words /\ "eof" \notin Range(v.prefix)
  BY ParserAssumption
<1>4. PICK n \in 0 .. v.len : rest \in [1 .. n -> v.words]
  BY <1>2, <1>3 DEF BoundedSeq, SeqOf
<1>5. rest \in Seq(v.words) /\ rest \in Seq(STRING)
  <2>1. n \in Nat
    BY <1>3, <1>4
  <2>2. rest \in [1 .. n -> STRING]
    BY <1>3, <1>4
  <2> QED BY <1>4, <2>1, <2>2
<1>6. \A i \in 1 .. Len(v.prefix) : v.prefix[i] # "eof"
  <2>1. DOMAIN v.prefix = 1 .. Len(v.prefix)
    BY <1>3
  <2> QED BY <1>3, <2>1 DEF Range
<1>7. \A i \in 1 .. Len(rest) : rest[i] # "eof"
  BY <1>3, <1>5
<1>8. ASSUME NEW i \in 1 .. Len(tokens) PROVE tokens[i] # "eof"
  <2> DEFINE p == v.prefix
  <2>1. /\ Len(p) \in Nat /\ Len(rest) \in Nat /\ Len(tokens) = Len(p) + Len(rest)
        /\ (\A j \in 1 .. Len(p) : tokens[j] = p[j])
        /\ \A j \in 1 .. Len(rest) : tokens[Len(p) + j] = rest[j]
    BY <1>2, <1>3, <1>5, ConcatAt
  <2>2. CASE i \in 1 .. Len(p)
    BY <1>6, <2>1, <2>2
  <2>3. CASE i \notin 1 .. Len(p)
    <3>1. i - Len(p) \in 1 .. Len(rest) /\ Len(p) + (i - Len(p)) = i
      BY <2>1, <2>3
    <3> QED BY <1>7, <2>1, <3>1
  <2> QED BY <2>2, <2>3
<1>9. Len(tokens) \in Nat
  BY <1>2, <1>3, <1>5
<1>10. pos = 0 /\ todo = parser_parse
  BY DEF Init, parser_init
<1>11. Agenda(todo, Level)
  BY <1>9, <1>10, ModuleAgenda, OpenedIs DEF Level
<1> QED BY <1>8, <1>11, Zenon DEF Bracketed, Balanced

\* q is to be done next.
LEMMA BalancedThen ==
  ASSUME NEW T, NEW t \in Seq(T), NEW q, todo' = q \o t, NEW c, Comes(q, t, c),
         tokens' = tokens, Opened(tokens)[pos'] = c
  PROVE  Balanced'
<1>1. CASE Agenda(q \o t, c)
  <2>1. Agenda(todo', Opened(tokens')[pos'])
    BY <1>1
  <2> QED BY <2>1, Zenon DEF Balanced, Level
<1>2. CASE Fails(q)
  <2>1. PICK S : q \in Seq(S)
    BY <1>2 DEF Fails
  <2>2. Len(q) >= 1 /\ q[1] = Error /\ Error.op = "error"
    BY <1>2 DEF Fails, Error
  <2>3. q \in Seq(S \cup T) /\ t \in Seq(S \cup T)
    BY <2>1
  <2>4. q \o t # << >> /\ Head(q \o t) = q[1]
    BY <2>2, <2>3
  <2>5. Doing("error")'
    BY <2>2, <2>4 DEF Doing
  <2> QED BY <2>5, Zenon DEF Balanced
<1> QED BY <1>1, <1>2 DEF Comes

LEMMA BalancedTail ==
  ASSUME NEW T, NEW t \in Seq(T), todo' = << >> \o t, NEW c, Agenda(t, c),
         tokens' = tokens, Opened(tokens)[pos'] = c
  PROVE  Balanced'
<1>1. << >> \o t = t
  OBVIOUS
<1>2. Agenda(todo', Opened(tokens')[pos'])
  BY <1>1
<1> QED BY <1>2, Zenon DEF Balanced, Level

\* A token of K is taken.
LEMMA LevelNext ==
  ASSUME tokens \in Seq(STRING), pos \in Nat, pos' = pos + 1, pos + 1 <= Len(tokens),
         Level \in Stacks, NEW b \in Stacks, NEW K, Took(K, Level, b), parser_current \in K
  PROVE  Opened(tokens)[pos'] = b
<1>1. Len(tokens) \in Nat /\ pos < Len(tokens)
  OBVIOUS
<1>2. parser_current = tokens[pos + 1]
  BY <1>1 DEF parser_current, parser_peek
<1>3. tokens[pos + 1] \in K
  BY <1>2
<1> DEFINE a == Level
<1>4. a \in Stacks /\ a = Opened(tokens)[pos] /\ Took(K, a, b)
  BY DEF Level
<1> HIDE DEF a
<1>5. Opened(tokens)[pos + 1] = b
  BY <1>1, <1>3, <1>4, LevelTaken
<1> QED BY <1>5

LEMMA BracketsStep == ParserInv /\ Bracketed /\ [Next]_vars => Bracketed'
<1> SUFFICES ASSUME ParserInv, Bracketed, [Next]_vars PROVE Bracketed'
  OBVIOUS
<1>1. /\ tokens \in Seq(STRING) /\ Len(tokens) \in Nat /\ pos \in 0 .. Len(tokens) /\ pos \in Nat
      /\ Ready(todo)
  BY DEF ParserInv, TypeOK
<1>2. tokens' = tokens
  BY DEF Next, DoExpect, DoTake, DoMatch, DoCheck, DoLoop, DoAgain, DoBreak, DoCall, DoEnd,
         DoReturn, DoIfNull, DoError, DoInfix, DoGenerics, DoUnsafeFn, vars
<1>3. ParserInv'
  BY ParserStep
<1>4. pos' \in 0 .. Len(tokens)
  BY <1>2, <1>3 DEF ParserInv, TypeOK
<1>5. SUFFICES Balanced'
  <2>1. \A i \in 1 .. Len(tokens') : tokens'[i] # "eof"
    BY <1>2 DEF Bracketed
  <2> QED BY <2>1, Zenon DEF Bracketed
<1>6. CASE had_error
  <2>1. had_error' = TRUE \/ had_error' = had_error
    BY Zenon DEF Next, DoExpect, DoTake, DoMatch, DoCheck, DoLoop, DoAgain, DoBreak, DoCall, DoEnd,
         DoReturn, DoIfNull, DoError, DoInfix, DoGenerics, DoUnsafeFn, vars
  <2> QED BY <1>6, <2>1, Zenon DEF Balanced
<1>7. CASE UNCHANGED vars
  <2>1. todo' = todo /\ pos' = pos /\ had_error' = had_error
    BY <1>7 DEF vars
  <2> QED BY <1>2, <2>1, Zenon DEF Balanced, Bracketed, Level, Doing, parser_current, parser_peek
<1>8. CASE ~had_error /\ Next
  <2>1. PICK T : todo \in Seq(T)
    BY <1>1, PointwiseFits DEF Ready
  <2>2. \E op : Doing(op)
    BY <1>8 DEF Next, DoExpect, DoTake, DoMatch, DoCheck, DoLoop, DoAgain, DoBreak, DoCall, DoEnd,
         DoReturn, DoIfNull, DoError, DoInfix, DoGenerics, DoUnsafeFn
  <2>3. todo # << >>
    BY <2>2 DEF Doing
  <2> DEFINE x == todo[1]
             t == Tail(todo)
             a == Level
  <2>4. todo = <<x>> \o t /\ t \in Seq(T) /\ Head(todo) = x /\ (Len(todo) = 1 => t = << >>)
    BY <2>1, <2>3, HeadThenTail
  <2>5. \A op : Doing(op) <=> x.op = op
    BY <2>3, <2>4 DEF Doing
  <2> HIDE DEF x, t
  <2>6. x.op \notin {"error", "take"} =>
          \/ First(x, t, a)
          \/ Len(todo) = 1 /\ Declarations(x) /\ a = << >>
    <3>1. x.op \notin {"error", "take"} => Agenda(todo, a)
      BY <1>8, <2>3, <2>5 DEF Bracketed, Balanced
    <3> HIDE DEF a
    <3> QED BY <3>1, AgendaParts DEF First, x, t
  <2>7. x.op \notin {"error", "take", "loop"} => First(x, t, a)
    BY <2>6 DEF Declarations
  <2>8. Opened(tokens)[pos] = a
    BY DEF Level
  <2>9. ASSUME NEW K, NEW b \in Stacks, a \in Stacks, Took(K, a, b), parser_current \in K, Advance
        PROVE  Opened(tokens)[pos'] = b
    <3>1. pos' = pos + 1 /\ pos + 1 <= Len(tokens)
      BY <1>1, <1>4, <2>9 DEF Advance
    <3> QED BY <1>1, <2>9, <3>1, LevelNext
  <2>10. \A K : NoBracket(K) => Took(K, a, a)
    BY DEF Took
  <2>11. \A q : Then(q) => todo' = q \o t
    BY DEF Then, t
  <2> HIDE DEF a
  <2>12. CASE DoExpect
    <3>1. x.op = "expect" /\ First(x, t, a) /\ todo' = << >> \o t
      BY <2>5, <2>7, <2>11, <2>12 DEF DoExpect
    <3>2. CASE parser_current \in x.of /\ Advance
      <4>1. PICK b \in Stacks : a \in Stacks /\ Took(x.of, a, b) /\ Agenda(t, b)
        BY <3>1, FirstExpect
      <4>2. Opened(tokens)[pos'] = b
        BY <2>9, <3>2, <4>1
      <4> QED BY <1>2, <2>4, <3>1, <4>1, <4>2, BalancedTail
    <3>3. CASE had_error' = TRUE
      BY <3>3, Zenon DEF Balanced
    <3> QED BY <2>4, <2>12, <3>2, <3>3 DEF DoExpect
  <2>13. CASE DoTake
    <3>1. x.op = "take" /\ todo' = << >> \o t /\ Advance
      BY <2>5, <2>11, <2>13 DEF DoTake
    <3>2. ~Agenda(todo, a)
      <4>1. \A b, l, f : ~Does(x, a, b, l, f)
        BY <3>1 DEF Does
      <4> QED BY <3>1, <4>1, AgendaParts DEF Declarations, x
    <3>3. parser_current \notin Brackets /\ Agenda(t, a)
      BY <1>8, <2>3, <2>5, <3>1, <3>2 DEF Bracketed, Balanced, a, t
    <3>4. parser_current = tokens[pos + 1] /\ pos + 1 \in 1 .. Len(tokens) /\ pos' = pos + 1
          /\ (pos + 1) - 1 = pos
      BY <1>1, <1>4, <3>1 DEF parser_current, parser_peek, Advance
    <3>5. Opened(tokens)[pos'] = Bracket(Opened(tokens)[(pos + 1) - 1], tokens[pos + 1])
      BY <1>1, <3>4, OpenedIs
    <3>6. Bracket(a, parser_current) = a
      BY <3>3 DEF Bracket, Brackets, Closing, Range
    <3>7. Opened(tokens)[pos'] = a
      BY <2>8, <3>4, <3>5, <3>6
    <3> QED BY <1>2, <2>4, <3>1, <3>3, <3>7, BalancedTail
  <2>14. CASE DoMatch
    <3>1. x.op = "match" /\ First(x, t, a)
      BY <2>5, <2>7, <2>14 DEF DoMatch
    <3>2. CASE parser_current \in x.of /\ Advance /\ Then(x.then)
      <4>1. PICK c \in Stacks : a \in Stacks /\ Took(x.of, a, c) /\ Comes(x.then, t, c)
        BY <3>1, FirstMatch
      <4>2. Opened(tokens)[pos'] = c /\ todo' = x.then \o t
        BY <2>9, <2>11, <3>2, <4>1
      <4> QED BY <1>2, <2>4, <4>1, <4>2, BalancedThen
    <3>3. CASE pos' = pos /\ Then(x.else)
      <4>1. Comes(x.else, t, a)
        BY <3>1, FirstMatch
      <4>2. Opened(tokens)[pos'] = a /\ todo' = x.else \o t
        BY <2>8, <2>11, <3>3
      <4> QED BY <1>2, <2>4, <4>1, <4>2, BalancedThen
    <3> QED BY <2>4, <2>14, <3>2, <3>3 DEF DoMatch
  <2>15. CASE DoCheck
    <3>1. x.op = "check" /\ First(x, t, a) /\ pos' = pos
      BY <2>5, <2>7, <2>15 DEF DoCheck
    <3>2. Opened(tokens)[pos'] = a
      BY <2>8, <3>1
    <3>3. CASE parser_current \in x.of /\ Then(x.then)
      <4>1. todo' = x.then \o t
        BY <2>11, <3>3
      <4>2. CASE Comes(x.then, t, a)
        BY <1>2, <2>4, <3>2, <4>1, <4>2, BalancedThen
      <4>3. CASE NoBracket(x.of) /\ \E r : x.then = <<Take>> \o r /\ Agenda(r \o t, a) /\ \E R : r \in Seq(R)
        <5>1. PICK r : x.then = <<Take>> \o r /\ Agenda(r \o t, a) /\ \E R : r \in Seq(R)
          BY <4>3
        <5>2. PICK R : r \in Seq(R)
          BY <5>1
        <5> DEFINE U == R \cup T \cup {Take}
        <5>3. r \in Seq(U) /\ t \in Seq(U) /\ Take \in U
          BY <2>4, <5>2
        <5> HIDE DEF U
        <5>4. todo' = <<Take>> \o (r \o t) /\ r \o t \in Seq(U)
          BY <4>1, <5>1, <5>3, JoinThree
        <5>5. todo' # << >> /\ todo'[1] = Take /\ Tail(todo') = r \o t /\ todo' \in Seq(U \cup {Take})
          BY <5>4, OneThen
        <5>6. Doing("take")' /\ Tail(todo') = r \o t
          BY <5>5 DEF Doing, Take
        <5>7. parser_current' \notin Brackets
          BY <1>2, <3>1, <3>3, <4>3 DEF parser_current, parser_peek, NoBracket
        <5>8. Agenda(Tail(todo'), Opened(tokens')[pos'])
          BY <1>2, <3>2, <5>1, <5>6
        <5> QED BY <5>6, <5>7, <5>8, Zenon DEF Balanced, Level
      <4> QED BY <3>1, <4>2, <4>3, FirstCheck
    <3>4. CASE Then(x.else)
      <4>1. todo' = x.else \o t /\ Comes(x.else, t, a)
        BY <2>11, <3>1, <3>4, FirstCheck
      <4> QED BY <1>2, <2>4, <3>2, <4>1, BalancedThen
    <3> QED BY <2>4, <2>15, <3>3, <3>4 DEF DoCheck
  <2>16. CASE DoLoop
    <3>1. x.op = "loop" /\ pos' = pos
      BY <2>5, <2>16 DEF DoLoop
    <3>2. Opened(tokens)[pos'] = a
      BY <2>8, <3>1
    <3> DEFINE y == [x EXCEPT !.from = pos]
    <3>3. Thing(x) /\ \E S : x.then \in Seq(S)
      <4>1. Thing(x)
        <5>1. 1 \in 1 .. Len(todo) /\ Take.op = "take"
          BY <2>1, <2>3 DEF Take
        <5> QED BY <1>1, <3>1, <5>1, PointwiseFits DEF Ready, x
      <4>2. PartsOf(x)
        BY <1>1, <2>3, <2>4, <3>1, NextThing
      <4>3. Plain(x.then)
        BY <3>1, <4>2 DEF PartsOf
      <4> QED BY <4>1, <4>3, PointwiseFits DEF Plain
    <3>4. y.op = "loop" /\ y.of = x.of /\ y.then = x.then /\ y.from = pos
      BY <3>1, <3>3, LoopAgain
    <3>5. Running(y)
      BY <1>1, <3>4 DEF Running
    <3> HIDE DEF y
    <3>6. Append(x.then, y) \o t = x.then \o (<<y>> \o t)
      <4>1. PICK S : x.then \in Seq(S)
        BY <3>3
      <4> DEFINE z == x.then
      <4>2. z \in Seq(S) /\ t \in Seq(T)
        BY <2>4, <4>1
      <4> HIDE DEF z
      <4>3. Append(z, y) \o t = z \o (<<y>> \o t)
        BY <4>2, AppendThen
      <4> QED BY <4>3 DEF z
    <3>7. CASE First(x, t, a)
      <4>1. Agenda(t, a) /\ Comes(x.then, <<y>> \o t, a)
        BY <3>1, <3>4, <3>5, <3>7, FirstLoop
      <4>2. CASE Then(<< >>)
        <5>1. todo' = << >> \o t
          BY <2>11, <4>2
        <5> QED BY <1>2, <2>4, <3>2, <4>1, <5>1, BalancedTail
      <4>3. CASE Then(Append(x.then, y))
        <5>1. todo' = x.then \o (<<y>> \o t)
          BY <2>11, <3>6, <4>3
        <5>2. <<y>> \o t \in Seq(T \cup {y})
          BY <2>4, OneThen
        <5> QED BY <1>2, <3>2, <4>1, <5>1, <5>2, BalancedThen
      <4> QED BY <2>4, <2>16, <4>2, <4>3 DEF DoLoop, y
    <3>8. CASE Len(todo) = 1 /\ Declarations(x) /\ a = << >>
      <4>1. t = << >> /\ x.of = {} /\ x.then = <<Call("top_level_decl", 0), Recover>> /\ Declarations(y)
        BY <2>4, <3>4, <3>8 DEF Declarations
      <4>2. CASE LoopEnds(x) /\ Then(<< >>)
        <5>1. parser_current = "eof"
          BY <4>1, <4>2 DEF LoopEnds
        <5>2. ~(pos < Len(tokens))
          <6>1. pos < Len(tokens) => pos + 1 \in 1 .. Len(tokens) /\ parser_current = tokens[pos + 1]
            BY <1>1 DEF parser_current, parser_peek
          <6> QED BY <5>1, <6>1 DEF Bracketed
        <5>3. pos' = Len(tokens')
          BY <1>1, <1>2, <3>1, <5>2
        <5>4. << >> \o << >> = << >>
          OBVIOUS
        <5>5. todo' = << >>
          BY <2>11, <4>1, <4>2, <5>4
        <5>6. Opened(tokens')[pos'] = << >>
          BY <1>2, <3>2, <3>8
        <5> QED BY <5>3, <5>5, <5>6, Zenon DEF Balanced, Level
      <4>3. CASE Then(Append(x.then, y))
        <5>1. <<y>> \in Seq({y}) /\ <<y>> \o << >> = <<y>>
          OBVIOUS
        <5>2. todo' = x.then \o <<y>>
          BY <2>11, <3>6, <4>1, <4>3, <5>1
        <5>3. Comes(x.then, <<y>>, a)
          BY <3>8, <4>1, DeclarationsTurn DEF Comes
        <5> QED BY <1>2, <3>2, <5>1, <5>2, <5>3, BalancedThen
      <4> QED BY <2>4, <2>16, <4>2, <4>3 DEF DoLoop, y
    <3> QED BY <2>6, <3>1, <3>7, <3>8
  <2>17. CASE DoAgain
    <3>1. x.op = "again" /\ First(x, t, a)
      BY <2>5, <2>7, <2>17 DEF DoAgain
    <3>2. /\ a \in Stacks /\ NoBracket(x.of) /\ Agenda(t, a) /\ Agenda(x.then \o (<<x>> \o t), a)
          /\ \E S : x.then \in Seq(S)
      BY <3>1, FirstAgain
    <3>3. CASE parser_current \in x.of /\ Advance /\ Then(Append(x.then, x))
      <4>1. Opened(tokens)[pos'] = a
        BY <2>9, <2>10, <3>2, <3>3
      <4>2. todo' = x.then \o (<<x>> \o t)
        <5>1. PICK S : x.then \in Seq(S)
          BY <3>2
        <5> DEFINE z == x.then
        <5>2. z \in Seq(S) /\ t \in Seq(T)
          BY <2>4, <5>1
        <5> HIDE DEF z
        <5>3. Append(z, x) \o t = z \o (<<x>> \o t)
          BY <5>2, AppendThen
        <5> QED BY <2>11, <3>3, <5>3 DEF z
      <4>3. <<x>> \o t \in Seq(T \cup {x}) /\ Comes(x.then, <<x>> \o t, a)
        BY <2>4, <3>2, OneThen DEF Comes
      <4> QED BY <1>2, <4>1, <4>2, <4>3, BalancedThen
    <3>4. CASE pos' = pos /\ Then(<< >>)
      <4>1. Opened(tokens)[pos'] = a /\ todo' = << >> \o t
        BY <2>8, <2>11, <3>4
      <4> QED BY <1>2, <2>4, <3>2, <4>1, BalancedTail
    <3> QED BY <2>4, <2>17, <3>3, <3>4 DEF DoAgain
  <2>18. ASSUME NEW r, Agenda(r, a), todo' = r, pos' = pos PROVE Balanced'
    <3>1. Agenda(todo', Opened(tokens')[pos'])
      BY <1>2, <2>8, <2>18
    <3> QED BY <3>1, Zenon DEF Balanced, Level
  <2>19. CASE DoBreak
    <3>1. x.op = "break" /\ First(x, t, a) /\ todo' = Behind(Running) /\ pos' = pos
      BY <2>5, <2>7, <2>19 DEF DoBreak
    <3>2. PICK r : OutOfLoop(t, r) /\ Agenda(r, a)
      BY <3>1, FirstLeaves
    <3>3. OutOfLoop(todo, r)
      BY <2>4, <3>1, <3>2, OutShift DEF Running
    <3>4. todo' = r
      BY <2>1, <3>1, <3>3, OutIsBehind
    <3> QED BY <2>18, <3>1, <3>2, <3>4
  <2>20. CASE DoReturn
    <3>1. x.op = "return" /\ First(x, t, a) /\ todo' = Behind(FunctionEnd) /\ pos' = pos
      BY <2>5, <2>7, <2>20 DEF DoReturn
    <3>2. PICK r : OutOfFn(t, r) /\ Agenda(r, a)
      BY <3>1, FirstLeaves
    <3>3. OutOfFn(todo, r)
      BY <2>4, <3>1, <3>2, OutShift DEF FunctionEnd
    <3>4. todo' = r
      BY <2>1, <3>1, <3>3, OutIsBehind
    <3> QED BY <2>18, <3>1, <3>2, <3>4
  <2>21. CASE DoCall
    <3>1. x.op = "call" /\ First(x, t, a) /\ pos' = pos /\ Then(Append(Body(x.f, x.bp), End))
      BY <2>4, <2>5, <2>7, <2>21 DEF DoCall
    <3>2. PartsOf(x)
      BY <1>1, <2>3, <2>4, <3>1, NextThing
    <3>3. x.f \in Functions
      BY <3>1, <3>2 DEF PartsOf
    <3>4. a \in Stacks /\ Agenda(t, a)
      BY <3>1, FirstOther
    <3>5. Agenda(Append(Body(x.f, x.bp), End) \o t, a)
      BY <3>3, <3>4, FirstCall
    <3>6. todo' = Append(Body(x.f, x.bp), End) \o t
      BY <2>11, <3>1
    <3> QED BY <2>18, <3>1, <3>5, <3>6
  <2>22. ASSUME x.op \in {"ifnull", "infix", "end", "generics", "unsafe fn"}, First(x, t, a),
                Then(<< >>), pos' = pos
         PROVE  Balanced'
    <3>1. Agenda(t, a)
      BY <2>22, FirstOther, FirstUnsafe
    <3>2. todo' = << >> \o t /\ Opened(tokens)[pos'] = a
      BY <2>8, <2>11, <2>22
    <3> QED BY <1>2, <2>4, <3>1, <3>2, BalancedTail
  <2>23. CASE DoEnd
    BY <2>5, <2>7, <2>22, <2>23 DEF DoEnd
  <2>24. CASE DoIfNull
    <3>1. ret # "null"
      BY <1>8 DEF ParserInv, NullMeansError
    <3>2. Then(<< >>) /\ x.op = "ifnull" /\ pos' = pos
      BY <2>5, <2>24, <3>1 DEF DoIfNull
    <3> QED BY <2>7, <2>22, <3>2
  <2>25. CASE DoError
    <3>1. had_error' = TRUE
      BY <2>25 DEF DoError
    <3> QED BY <3>1, Zenon DEF Balanced
  <2>26. CASE DoInfix
    <3>1. x.op = "infix" /\ First(x, t, a)
      BY <2>5, <2>7, <2>26 DEF DoInfix
    <3>2. CASE pos' = pos /\ Then(<< >>)
      BY <2>22, <3>1, <3>2
    <3>3. CASE /\ parser_current \in DOMAIN infix_binding_power /\ Advance
               /\ \E n, m : Then(<<Call("expr_bp", n), IfNull(<<Return("node")>>), Infix(m)>>)
      <4>1. PICK n, m : Then(<<Call("expr_bp", n), IfNull(<<Return("node")>>), Infix(m)>>)
        BY <3>3
      <4> DEFINE q == <<Call("expr_bp", n), IfNull(<<Return("node")>>), Infix(m)>>
      <4>2. a \in Stacks
        BY <3>1, FirstOther
      <4>3. Path(q, a, a, {}, {})
        BY <4>2, StepSimple, FlatTuples
      <4>4. todo' = q \o t
        BY <2>11, <4>1
      <4> HIDE DEF q
      <4>5. Comes(q, t, a)
        BY <3>1, <4>3, FirstOther DEF Comes
      <4>6. NoBracket(DOMAIN infix_binding_power)
        BY DEF NoBracket, Brackets, infix_binding_power
      <4>7. Opened(tokens)[pos'] = a
        BY <2>9, <2>10, <3>3, <4>2, <4>6
      <4> QED BY <1>2, <2>4, <4>4, <4>5, <4>7, BalancedThen
    <3> QED BY <2>26, <3>2, <3>3 DEF DoInfix
  <2>27. CASE DoGenerics
    <3>1. x.op = "generics" /\ First(x, t, a) /\ pos' = pos
      BY <2>5, <2>7, <2>27 DEF DoGenerics
    <3>2. CASE Then(<< >>)
      BY <2>22, <3>1, <3>2
    <3>3. CASE Then(GenericParams)
      <4>1. Path(GenericParams, a, a, {}, {})
        BY <3>1, FirstOther, GenericsFlat
      <4>2. Comes(GenericParams, t, a)
        BY <3>1, <4>1, FirstOther DEF Comes
      <4> QED BY <1>2, <2>4, <2>8, <2>11, <3>1, <3>3, <4>2, BalancedThen
    <3> QED BY <2>27, <3>2, <3>3 DEF DoGenerics
  <2>28. CASE DoUnsafeFn
    <3>1. x.op = "unsafe fn" /\ First(x, t, a) /\ pos' = pos
      BY <2>5, <2>7, <2>28 DEF DoUnsafeFn
    <3>2. CASE Then(<< >>)
      BY <2>22, <3>1, <3>2
    <3>3. CASE Then(x.then)
      <4>1. Comes(x.then, t, a)
        BY <3>1, FirstUnsafe
      <4> QED BY <1>2, <2>4, <2>8, <2>11, <3>1, <3>3, <4>1, BalancedThen
    <3> QED BY <2>4, <2>28, <3>2, <3>3 DEF DoUnsafeFn
  <2> QED BY <1>8, <2>12, <2>13, <2>14, <2>15, <2>16, <2>17, <2>19, <2>20, <2>21, <2>23, <2>24,
             <2>25, <2>26, <2>27, <2>28 DEF Next
<1> QED BY <1>6, <1>7, <1>8

-----------------------------------------------------------------------------
(* The theorems *)

\* The parser never runs past the end-of-file token, whatever the tokens: who takes
\* a token unasked, a declaration its keyword and recovery the token nothing starts
\* with, knows that there is one.
THEOREM ParserTypeCorrect == Spec => []TypeOK
<1>1. ParserInv => TypeOK
  BY DEF ParserInv
<1> QED BY <1>1, InitParser, ParserStep, PTL DEF Spec

\* A parse function that returns NULL has reported an error, whatever the tokens:
\* main.c, which looks at had_error only, misses no tree with a hole in it.
THEOREM NullIsReported == Spec => []NullMeansError
<1>1. ParserInv => NullMeansError
  BY DEF ParserInv
<1> QED BY <1>1, InitParser, ParserStep, PTL DEF Spec

\* Every turn of every loop of the parser takes a token or leaves the loop, whatever
\* the tokens, except for an arm of a match, and then an error has been reported: no
\* loop of parser.c but that over the arms can turn round at one token for ever.
THEOREM LoopsMoveOn == Spec => []OnlyMatchArmsGetStuck
<1>1. Init => ParserInv /\ Moving
  BY InitParser, InitMoves
<1>2. (ParserInv /\ Moving) /\ [Next]_vars => (ParserInv /\ Moving)'
  BY ParserStep, MovesStep
<1> QED BY <1>1, <1>2, MovingLoops, PTL DEF Spec

\* A program the parser accepts, having reported no error, has been taken to its last
\* token and has its brackets in order, whatever the tokens: every parse function of
\* parser.c, on every way out of it, has taken the bracket that closes each one it
\* took, also where it leaves a loop or returns half-way.
THEOREM AcceptedBalances == Spec => []AcceptedIsBalanced
<1>1. Init => ParserInv /\ Bracketed
  BY InitParser, InitBrackets
<1>2. (ParserInv /\ Bracketed) /\ [Next]_vars => (ParserInv /\ Bracketed)'
  BY ParserStep, BracketsStep
<1>3. ParserInv /\ Bracketed => AcceptedIsBalanced
  <2> SUFFICES ASSUME ParserInv, Bracketed, todo = << >>, ~had_error
               PROVE  pos = Len(tokens) /\ Unclosed(tokens) = << >>
    BY DEF AcceptedIsBalanced
  <2>1. ~Agenda(todo, Level)
    BY AgendaSeq
  <2>2. pos = Len(tokens) /\ Level = << >>
    BY <2>1 DEF Bracketed, Balanced, Doing
  <2>3. Len(tokens) \in Nat
    BY DEF ParserInv
  <2> QED BY <2>2, <2>3, OpenedIs DEF Level
<1> QED BY <1>1, <1>2, <1>3, PTL DEF Spec
=============================================================================
