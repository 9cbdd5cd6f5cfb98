------------------------------ MODULE MCLexer ------------------------------
(* Lexer on all short texts over a few small alphabets.                     *)
EXTENDS Lexer

KeywordTable == {<<"i", "f">>}

\* Eight characters are a nested comment and a token behind it, or one level of
\* nesting too many.
Comments == [chars |-> {"/", "*", "nl"}, len |-> 8]
\* Strings and character literals, closed, escaped, broken off.
Quotes == [chars |-> {"/", "nl", "dq", "sq", "bs", "i"}, len |-> 5]
\* Numbers, operators, keywords.
Others == [chars |-> {"0", "1", "x", "o", "e", "+", ".", "<", "=", "i", "f", "$"}, len |-> 4]

AllTexts == {Comments, Quotes, Others}
OctalAndBinary == {[chars |-> {"0", "1", "o", "b"}, len |-> 4]}
=============================================================================
