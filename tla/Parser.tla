------------------------------- MODULE Parser -------------------------------
(***************************************************************************)
(* The recursive descent parser (src/parser.c).                            *)
(*                                                                         *)
(* Each parse function is written down as the sequence of things it does:  *)
(* expect a token, take one if it is there, loop, call, leave. `todo` is   *)
(* what the parser has still to do, the C call stack included; each step   *)
(* does the first thing of it. The tree itself is left out except for      *)
(* whether a function returned NULL, on which its callers branch.          *)
(*                                                                         *)
(* Tokens are known by their text, "id" and "Id" standing for identifiers  *)
(* that start with a small and a capital letter, "int" for the number,     *)
(* character, true, false, null and undefined literals, "str" for strings, *)
(* "eof" for the token behind the last one. The lexer makes no             *)
(* TOK_UNDERSCORE, and no identifier with the text Self.                   *)
(***************************************************************************)
EXTENDS Integers, Sequences, SequencesExt

CONSTANT
  Vocabularies  \* what programs start with, the tokens they go on with, and a bound:
                \* how many

ASSUME ParserAssumption ==
  \A v \in Vocabularies :
    /\ v.prefix \in Seq(STRING) /\ v.words \in SUBSET STRING /\ v.len \in Nat
    /\ "eof" \notin v.words \cup Range(v.prefix)

VARIABLES
  tokens,    \* the program, without "eof"
  pos,
  had_error,
  ret,       \* did the last function return a "node", or "null"?
  todo       \* what is to be done, first thing first

vars == <<tokens, pos, had_error, ret, todo>>

parser_peek(n) == IF pos + n < Len(tokens) THEN tokens[pos + n + 1] ELSE "eof"
parser_current == parser_peek(0)
Identifier == {"id", "Id"}

-----------------------------------------------------------------------------
(* The things a parse function does. *)

\* parser_expect, its result ignored.
Expect(K) == [op |-> "expect", of |-> K]
\* p->pos++.
Take == [op |-> "take"]
\* parser_match: if a token of K is there, take it and do a, else do b.
Match(K, a, b) == [op |-> "match", of |-> K, then |-> a, else |-> b]
\* parser_check: the same, and the token stays.
Check(K, a, b) == [op |-> "check", of |-> K, then |-> a, else |-> b]
\* while (!parser_check(p, stop) && !parser_at_end(p)) body, from where the last
\* turn began.
Loop(name, stop, body) ==
  [op |-> "loop", name |-> name, of |-> stop, then |-> body, from |-> -1]
\* What follows a do-body: while (parser_match(p, separator)) body.
Again(separator, body) == [op |-> "again", of |-> separator, then |-> body]
Break == [op |-> "break"]
Call(f, bp) == [op |-> "call", f |-> f, bp |-> bp]
\* Return NULL, a node, or whatever the last call returned.
Return(what) == [op |-> "return", what |-> what]
IfNull(a) == [op |-> "ifnull", then |-> a]
Error == [op |-> "error"]
\* The infix loop of parser_parse_expr_bp.
Infix(min_bp) == [op |-> "infix", bp |-> min_bp]
\* Put behind the body of a called function.
End == [op |-> "end"]

Opt(K, a) == Match(K, a, << >>)
When(K, a) == Check(K, a, << >>)
BreakUnless(K) == Match(K, << >>, <<Break>>)
\* do body while (parser_match(p, ","))
CommaList(body) == Append(body, Again({","}, body))

parse_expr == Call("expr_bp", 0)
parse_type == Call("type", 0)
parse_block == Call("block", 0)

-----------------------------------------------------------------------------
(* Attributes, expressions *)

\* parser_parse_attribute and parser_parse_attrs
parse_attrs ==
  Loop("attrs", {},
    <<Check({"#"},
        <<Expect({"#"}), Expect({"["}), Expect(Identifier),
          Opt({"("}, Append(CommaList(<<parse_expr>>), Expect({")"}))),
          Expect({"]"})>>,
        <<Break>>)>>)

\* Left binding power; the right one is one more.
infix_binding_power ==
  [op \in {"||", "&&", "==", "!=", "<", ">", "<=", ">=", "|", "^", "&", "<<", ">>",
           "+", "-", "*", "/", "%", ".."} |->
     CASE op = "||" -> 10 [] op = "&&" -> 20 [] op \in {"==", "!="} -> 30
       [] op \in {"<", ">", "<=", ">="} -> 40 [] op = "|" -> 50 [] op = "^" -> 60
       [] op = "&" -> 70 [] op \in {"<<", ">>"} -> 80 [] op \in {"+", "-"} -> 90
       [] op \in {"*", "/", "%"} -> 100 [] op = ".." -> 45]

parser_parse_struct_literal ==
  <<Expect({"{"}),
    Loop("struct literal", {"}"},
      <<Expect(Identifier), Expect({":"}), parse_expr, BreakUnless({","})>>),
    Expect({"}"})>>

\* An array literal behind "[".
ArrayLiteral ==
  <<Match({"]"}, <<parse_type>>, <<parse_expr, Expect({"]"}), parse_type>>),
    Expect({"{"}),
    Loop("array literal", {"}"},
      <<parse_expr, Match({","}, <<When({"}"}, <<Break>>)>>, <<Break>>)>>),
    Expect({"}"})>>

\* Mutant: no message for a token that starts no expression.
parser_parse_primary_silent ==
  <<Opt({"int", "str", "self", "id", "Id"}, <<Return("node")>>), Return("null")>>

parser_parse_primary ==
  <<Match({"int", "str", "self", "id"}, <<Return("node")>>, << >>),
    Match({"Id"}, <<When({"{"}, parser_parse_struct_literal), Return("node")>>, << >>),
    Match({"("}, <<parse_expr, Expect({")"}), Return("same")>>, << >>),
    Match({"["}, Append(ArrayLiteral, Return("node")), <<Error, Return("null")>>)>>

parser_parse_prefix ==
  <<Opt({"&"}, <<Opt({"const"}, << >>), Call("expr_bp", 110), Return("node")>>),
    Opt({"*", "-", "!", "~"}, <<Call("expr_bp", 110), Return("node")>>),
    Opt({"try"},
      <<Call("expr_bp", 1),
        Opt({"else"}, <<Expect({"|"}), Expect(Identifier), Expect({"|"}), parse_block>>),
        Return("node")>>),
    Opt({"unsafe"}, <<parse_block, Return("node")>>),
    Call("primary", 0), Return("same")>>

\* Mutant: the closing parenthesis is taken if it is there.
Arguments_unclosed ==
  <<Check({")"}, << >>, CommaList(<<parse_expr>>)), Opt({")"}, << >>)>>

\* The arguments of a call, behind "(".
Arguments ==
  <<Check({")"}, << >>, CommaList(<<parse_expr>>)), Expect({")"})>>

\* for (;;): each form that applies continues, else the loop is left.
parser_parse_postfix ==
  Loop("postfix", {},
    <<Match({"."},
        <<Match(Identifier, <<Opt({"("}, Arguments)>>, <<Error, Break>>)>>,
        <<Match({"("}, Arguments,
           <<Match({"["},
               <<parse_expr,
                 Match({".."}, <<parse_expr, Expect({"]"})>>, <<Expect({"]"})>>)>>,
               <<Break>>)>>)>>)>>)

parser_parse_expr_bp(min_bp) ==
  <<Call("prefix", 0), IfNull(<<Return("null")>>),
    parser_parse_postfix,
    Infix(min_bp),
    Opt({"as"}, <<parse_type>>), Return("node")>>

-----------------------------------------------------------------------------
(* Blocks and statements *)

AssignmentOps ==
  {"=", "+=", "-=", "*=", "/=", "%=", "&=", "|=", "^=", "<<=", ">>="}
StatementStarts ==
  {"if", "while", "for", "match", "errdefer", "{",
   "return", "break", "continue", "defer", "const", "var"}

parser_parse_block ==
  <<Match({"{"}, << >>, <<Error, Return("null")>>),
    Loop("block", {"}"},
      <<Check(StatementStarts,
          <<Call("stmt", 0), IfNull(<<Break>>)>>,
          <<parse_expr, IfNull(<<Break>>),
            Match(AssignmentOps, <<parse_expr, Expect({";"})>>,
             <<Match({";"}, << >>,
                <<Check({"}"}, <<Break>>, <<Error, Break>>)>>)>>)>>)>>),
    Expect({"}"})>>

VarDecl ==
  <<Expect(Identifier), Opt({":"}, <<parse_type>>), Expect({"="}), parse_expr, Expect({";"})>>

MatchArms ==
  Loop("match arms", {"}"},
    <<Call("pattern", 0), Expect({"=>"}), parse_expr, Opt({","}, << >>)>>)

\* A statement behind each keyword that starts one. The block calls it for no
\* other token.
parser_parse_stmt ==
  <<Opt({"const", "var"}, Append(VarDecl, Return("node"))),
    Opt({"return"}, <<Match({";"}, << >>, <<parse_expr, Expect({";"})>>), Return("node")>>),
    Opt({"if"},
      <<parse_expr, parse_block,
        Opt({"else"}, <<Check({"if"}, <<Call("stmt", 0)>>, <<parse_block>>)>>),
        Return("node")>>),
    Opt({"while"}, <<parse_expr, parse_block, Return("node")>>),
    Opt({"for"},
      <<Expect(Identifier), Expect({":"}), parse_type, Expect({"in"}), parse_expr,
        parse_block, Return("node")>>),
    Opt({"break", "continue"}, <<Expect({";"}), Return("node")>>),
    Opt({"defer"}, <<parse_expr, Expect({";"}), Return("node")>>),
    Opt({"errdefer"}, <<parse_block, Return("node")>>),
    Opt({"match"},
      <<parse_expr, Expect({"{"}), MatchArms, Expect({"}"}), Return("node")>>),
    parse_block, Return("same")>>

parser_parse_pattern ==
  <<Opt({"int", "str"}, <<Return("node")>>),
    Opt({"."},
      <<Match({"{"},
          <<Loop("struct pattern", {"}"},
              <<Expect(Identifier), Expect({":"}), Call("pattern", 0), BreakUnless({","})>>),
            Expect({"}"})>>,
          <<Expect(Identifier),
            Opt({"("}, <<Call("pattern", 0), Expect({")"})>>)>>),
        Return("node")>>),
    Match(Identifier, << >>, <<Error>>)>>

parser_parse_type ==
  <<Match({"&", "*"}, <<Opt({"const"}, << >>), parse_type>>,
     <<Match({"["},
        <<Match({"]"}, <<Opt({"const"}, << >>), parse_type>>,
            <<parse_expr, Expect({"]"}), parse_type>>)>>,
        <<Match({"fn"},
           <<Expect({"("}),
             Check({")"}, << >>, CommaList(<<parse_type>>)),
             Expect({")"}), Opt({"->"}, <<parse_type>>)>>,
           <<Match({"type", "self"}, << >>,
              <<Match(Identifier,
                 <<Opt({"("},
                     <<Loop("generic arguments", {")"}, <<parse_type, BreakUnless({","})>>),
                       Expect({")"})>>)>>,
                 <<Error, Return("null")>>)>>)>>)>>)>>),
    Match({"?"}, << >>, <<Opt({"!"}, <<parse_type>>)>>)>>

-----------------------------------------------------------------------------
(* Declarations *)

DefaultValue == Opt({"="}, <<parse_expr>>)

parser_parse_param ==
  <<Check({"&", "self"},
      <<Opt({"&"}, <<Opt({"const"}, << >>)>>), Expect({"self"}), Opt({":"}, <<parse_type>>)>>,
      <<Expect(Identifier), Expect({":"}), parse_type>>),
    DefaultValue>>

\* Looks four tokens ahead before it takes the first.
parse_generic_params == [op |-> "generics"]
GenericParams ==
  <<Expect({"("})>>
    \o CommaList(<<Expect(Identifier), Expect({":"}), Expect({"type"}),
                   Opt({"with"}, CommaList(<<Expect(Identifier)>>))>>)
    \o <<Expect({")"})>>

\* "(" parameters ")" and the return type.
Signature ==
  <<Expect({"("}),
    Check({")"}, << >>, CommaList(<<Call("param", 0)>>)),
    Expect({")"}), Opt({"->"}, <<parse_type>>)>>

FnRest ==
  <<Expect(Identifier), parse_generic_params>> \o Signature
    \o <<Match({";"}, << >>, <<parse_block>>)>>

parser_parse_fn_decl ==
  <<Opt({"comptime"}, << >>), Opt({"unsafe"}, << >>), Expect({"fn"})>> \o FnRest

\* struct and union
parser_parse_struct_decl ==
  <<Take, Expect(Identifier), parse_generic_params, Expect({"{"}),
    Loop("fields", {"}"},
      <<parse_attrs, Opt({"pub"}, << >>), Expect(Identifier), Expect({":"}), parse_type,
        DefaultValue, BreakUnless({","})>>),
    Expect({"}"})>>

parser_parse_enum_decl ==
  <<Take, Expect(Identifier), Expect({"{"}),
    Loop("variants", {"}"},
      <<Expect(Identifier), Opt({"("}, <<parse_type, Expect({")"})>>), DefaultValue,
        BreakUnless({","})>>),
    Expect({"}"})>>

\* Mutant: the token that is not `fn` stays.
FnOrSkip_stays(rest) == Match({"fn"}, rest, <<Error>>)

\* if (!parser_expect(p, TOK_FN)) { if (!parser_at_end(p)) p->pos++; continue; }
FnOrSkip(rest) == Match({"fn"}, rest, <<Error, Check({"eof"}, << >>, <<Take>>)>>)

parser_parse_traits_decl ==
  <<Take, Expect(Identifier), Expect({"{"}),
    Loop("trait methods", {"}"},
      <<Opt({"pub"}, << >>),
        FnOrSkip(<<Expect(Identifier)>> \o Signature \o <<Expect({";"})>>)>>),
    Expect({"}"})>>

parser_parse_extend_decl ==
  <<Take, Expect(Identifier), parse_generic_params,
    Opt({"with"}, CommaList(<<Expect(Identifier)>>)),
    Expect({"{"}),
    Loop("methods", {"}"},
      <<parse_attrs, Opt({"pub"}, << >>), Opt({"comptime"}, << >>), Opt({"unsafe"}, << >>),
        FnOrSkip(FnRest)>>),
    Expect({"}"})>>

parser_parse_type_alias ==
  <<Take, Expect(Identifier), Expect({"="}), parse_type, Expect({";"})>>

parser_parse_test_decl == <<Take, Expect({"str"}), parse_block>>

\* `unsafe` starts a declaration only in front of `fn`.
parser_parse_top_level_decl ==
  <<parse_attrs, Opt({"pub"}, << >>),
    [op |-> "unsafe fn", then |-> Append(parser_parse_fn_decl, Return("node"))],
    When({"fn"}, Append(parser_parse_fn_decl, Return("node"))),
    When({"struct", "union"}, Append(parser_parse_struct_decl, Return("node"))),
    When({"enum"}, Append(parser_parse_enum_decl, Return("node"))),
    When({"traits"}, Append(parser_parse_traits_decl, Return("node"))),
    When({"extend"}, Append(parser_parse_extend_decl, Return("node"))),
    When({"type"}, Append(parser_parse_type_alias, Return("node"))),
    When({"test"}, Append(parser_parse_test_decl, Return("node"))),
    Opt({"const", "var"}, Append(VarDecl, Return("node"))),
    Error, Return("null")>>

\* Mutant: recovery does not skip the token nothing starts with.
parser_parse_stays ==
  <<Loop("declarations", {}, <<Call("top_level_decl", 0)>>)>>

\* Mutant: recovery skips a token without looking whether there is one.
parser_parse_skips_eof ==
  <<Loop("declarations", {}, <<Call("top_level_decl", 0), IfNull(<<Take>>)>>)>>

parser_parse ==
  <<Opt({"module"}, <<Expect(Identifier), Expect({";"})>>),
    Loop("imports", {},
      <<Match({"import"}, << >>, <<Break>>),
        Expect(Identifier),
        Loop("import path", {}, <<Match({"."}, <<Expect(Identifier)>>, <<Break>>)>>),
        Opt({"as"}, <<Expect(Identifier)>>),
        Expect({";"})>>),
    Loop("declarations", {},
      <<Call("top_level_decl", 0), IfNull(<<Check({"eof"}, << >>, <<Take>>)>>)>>)>>

Body(f, bp) ==
  CASE f = "expr_bp" -> parser_parse_expr_bp(bp)
    [] f = "prefix" -> parser_parse_prefix
    [] f = "primary" -> parser_parse_primary
    [] f = "block" -> parser_parse_block
    [] f = "stmt" -> parser_parse_stmt
    [] f = "pattern" -> parser_parse_pattern
    [] f = "type" -> parser_parse_type
    [] f = "param" -> parser_parse_param
    [] f = "top_level_decl" -> parser_parse_top_level_decl

-----------------------------------------------------------------------------
(* Doing them *)

Doing(op) == todo # << >> /\ Head(todo).op = op

\* What is left behind the nearest thing of that kind.
Behind(Kind(_)) == SubSeq(todo, SelectInSeq(todo, Kind) + 1, Len(todo))
Running(thing) == thing.op = "loop" /\ thing.from >= 0
FunctionEnd(thing) == thing.op = "end"

\* a is done next.
Then(a) == todo' = a \o Tail(todo)

Advance == pos' = pos + 1

parser_init ==
  /\ \E v \in Vocabularies : \E rest \in BoundedSeq(v.words, v.len) :
       tokens = v.prefix \o rest
  /\ pos = 0
  /\ had_error = FALSE
  /\ ret = "node"
  /\ todo = parser_parse

\* parser_expect
DoExpect ==
  /\ Doing("expect")
  /\ \/ parser_current \in Head(todo).of /\ Advance /\ UNCHANGED had_error
     \/ parser_current \notin Head(todo).of /\ had_error' = TRUE /\ UNCHANGED pos
  /\ Then(<< >>)
  /\ UNCHANGED <<tokens, ret>>

DoTake == Doing("take") /\ Advance /\ Then(<< >>) /\ UNCHANGED <<tokens, had_error, ret>>

\* parser_match and parser_check
DoMatch ==
  /\ Doing("match")
  /\ \/ parser_current \in Head(todo).of /\ Advance /\ Then(Head(todo).then)
     \/ parser_current \notin Head(todo).of /\ UNCHANGED pos /\ Then(Head(todo).else)
  /\ UNCHANGED <<tokens, had_error, ret>>

DoCheck ==
  /\ Doing("check")
  /\ \/ parser_current \in Head(todo).of /\ Then(Head(todo).then)
     \/ parser_current \notin Head(todo).of /\ Then(Head(todo).else)
  /\ UNCHANGED <<tokens, pos, had_error, ret>>

LoopEnds(loop) == parser_current \in loop.of \cup {"eof"}

DoLoop ==
  /\ Doing("loop")
  /\ LET loop == Head(todo)
     IN  \/ LoopEnds(loop) /\ Then(<< >>)
         \/ ~LoopEnds(loop) /\ Then(Append(loop.then, [loop EXCEPT !.from = pos]))
  /\ UNCHANGED <<tokens, pos, had_error, ret>>

DoAgain ==
  /\ Doing("again")
  /\ LET again == Head(todo)
     IN  \/ parser_current \in again.of /\ Advance /\ Then(Append(again.then, again))
         \/ parser_current \notin again.of /\ UNCHANGED pos /\ Then(<< >>)
  /\ UNCHANGED <<tokens, had_error, ret>>

DoBreak ==
  /\ Doing("break")
  /\ todo' = Behind(Running)
  /\ UNCHANGED <<tokens, pos, had_error, ret>>

\* A function is called; a body that is done through returns a node.
DoCall ==
  /\ Doing("call")
  /\ Then(Append(Body(Head(todo).f, Head(todo).bp), End))
  /\ UNCHANGED <<tokens, pos, had_error, ret>>

DoEnd ==
  /\ Doing("end")
  /\ ret' = "node"
  /\ Then(<< >>)
  /\ UNCHANGED <<tokens, pos, had_error>>

DoReturn ==
  /\ Doing("return")
  /\ ret' = IF Head(todo).what = "same" THEN ret ELSE Head(todo).what
  /\ todo' = Behind(FunctionEnd)
  /\ UNCHANGED <<tokens, pos, had_error>>

DoIfNull ==
  /\ Doing("ifnull")
  /\ Then(IF ret = "null" THEN Head(todo).then ELSE << >>)
  /\ UNCHANGED <<tokens, pos, had_error, ret>>

\* parser_error
DoError ==
  /\ Doing("error")
  /\ had_error' = TRUE
  /\ Then(<< >>)
  /\ UNCHANGED <<tokens, pos, ret>>

\* One turn of the infix loop; no right operand leaves the function with the left.
DoInfix ==
  /\ Doing("infix")
  /\ LET min_bp == Head(todo).bp
         binds == /\ parser_current \in DOMAIN infix_binding_power
                  /\ infix_binding_power[parser_current] >= min_bp
     IN  \/ /\ binds
            /\ Advance
            /\ Then(<<Call("expr_bp", infix_binding_power[parser_current] + 1),
                      IfNull(<<Return("node")>>), Infix(min_bp)>>)
         \/ ~binds /\ UNCHANGED pos /\ Then(<< >>)
  /\ UNCHANGED <<tokens, had_error, ret>>

\* parser_parse_generic_params
DoGenerics ==
  /\ Doing("generics")
  /\ Then(IF /\ parser_current = "("
             /\ parser_peek(1) \in Identifier
             /\ parser_peek(2) = ":"
             /\ parser_peek(3) = "type"
          THEN GenericParams ELSE << >>)
  /\ UNCHANGED <<tokens, pos, had_error, ret>>

DoUnsafeFn ==
  /\ Doing("unsafe fn")
  /\ Then(IF parser_current = "unsafe" /\ parser_peek(1) = "fn"
          THEN Head(todo).then ELSE << >>)
  /\ UNCHANGED <<tokens, pos, had_error, ret>>

Init == parser_init

Next ==
  \/ DoExpect \/ DoTake \/ DoMatch \/ DoCheck \/ DoLoop \/ DoAgain \/ DoBreak
  \/ DoCall \/ DoEnd \/ DoReturn \/ DoIfNull \/ DoError
  \/ DoInfix \/ DoGenerics \/ DoUnsafeFn

Spec == Init /\ [][Next]_vars

\* One thread, which nothing makes wait.
FairSpec == Spec /\ WF_vars(Next)

-----------------------------------------------------------------------------
(* Properties *)

\* The parser never runs past the end-of-file token: parser_current clamps, but
\* whoever takes a token unasked must know that there is one.
TypeOK ==
  /\ pos \in 0..Len(tokens)
  /\ had_error \in BOOLEAN
  /\ ret \in {"node", "null"}

\* A function that returns NULL has reported an error: its caller may drop the
\* tree, and main.c looks at had_error only.
NullMeansError == ret = "null" => had_error

Closing == [open \in {"(", "[", "{"} |->
              CASE open = "(" -> ")" [] open = "[" -> "]" [] open = "{" -> "}"]

\* The brackets to be closed behind t, where those of `open` were to be closed in
\* front of it; "no" for one that closes nothing.
Bracket(open, t) ==
  IF t \in DOMAIN Closing THEN Append(open, Closing[t])
  ELSE IF t \notin Range(Closing) THEN open
  ELSE IF open # << >> /\ Last(open) = t THEN Front(open)
  ELSE Append(open, "no")

\* The brackets still to be closed behind s.
Unclosed(s) ==
  LET open[k \in 0 .. Len(s)] ==
        IF k = 0 THEN << >> ELSE Bracket(open[k - 1], s[k])
  IN  open[Len(s)]

\* A program parsed to its end without an error has its brackets in order: no
\* function stops in front of a bracket it should have closed.
AcceptedIsBalanced ==
  todo = << >> /\ ~had_error => pos = Len(tokens) /\ Unclosed(tokens) = << >>

\* A loop about to start a turn where the last one started.
StuckIn(name) ==
  Doing("loop") /\ Head(todo).name = name /\ ~LoopEnds(Head(todo)) /\ Head(todo).from = pos

\* Every turn of every loop takes a token or leaves the loop, except for an arm of
\* a match, which may take nothing, and then an error has been reported.
OnlyMatchArmsGetStuck ==
  Doing("loop") /\ StuckIn(Head(todo).name) => Head(todo).name = "match arms" /\ had_error

\* parser_parse returns, unless it comes to turn round in the arms of a match.
TerminatesOutsideMatch == <>(todo = << >> \/ StuckIn("match arms"))

\* parser_parse returns, whatever the tokens.
Terminates == <>(todo = << >>)
=============================================================================
