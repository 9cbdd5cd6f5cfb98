------------------------------ MODULE MCParser ------------------------------
(* Parser on all short continuations of a few program beginnings.           *)
EXTENDS Parser

InFn == <<"fn", "id", "(", ")", "{">>

\* Whole programs, most of them wrong: recovery.
Declarations ==
  [prefix |-> << >>, len |-> 4,
   words |-> {"import", "struct", "extend", "pub", "id", "{", "}"}]
\* Generic parameters, parameters, return types.
Signatures ==
  [prefix |-> <<"unsafe", "fn", "id", "(", "id", ":">>, len |-> 5,
   words |-> {"id", "type", "(", ")", ";"}]
\* Blocks and struct literals both open a brace.
Statements ==
  [prefix |-> InFn, len |-> 4, words |-> {"if", "else", "Id", "{", "}", ";"}]
\* Calls, indexing, slices, and what closes them or not.
Expressions ==
  [prefix |-> InFn \o <<"id", "(">>, len |-> 4,
   words |-> {"id", ")", "[", "]", "..", "}"}]
\* Arms and patterns.
Arms ==
  [prefix |-> InFn \o <<"match", "int", "{">>, len |-> 4,
   words |-> {".", "id", "=>", ";", "{", "}"}]

AllPrograms == {Declarations, Signatures, Statements, Expressions, Arms}
OneArm == {[Arms EXCEPT !.len = 1]}
=============================================================================
