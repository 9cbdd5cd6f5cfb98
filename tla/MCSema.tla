------------------------------- MODULE MCSema -------------------------------
(* Small modules, each with the nodes its bodies are made of.              *)
EXTENDS Sema

MCNames == {"a", "b", "f", "g", "S", "self"}
MCHash(n) == IF n \in {"a", "b", "S"} THEN 4 ELSE 7
MCIntTypes == {[signed |-> TRUE, bits |-> 32], [signed |-> TRUE, bits |-> 64],
               [signed |-> FALSE, bits |-> 8], [signed |-> FALSE, bits |-> 64]}

T(n) == [te |-> "named", name |-> n]
Of(kind, child) == [te |-> kind, is_const |-> FALSE, child |-> child]
Arr(length, elem) == [te |-> "array", length |-> length, elem |-> elem]
Union(error, success) == [te |-> "error_union", error |-> error, success |-> success]
NoReturn == [te |-> "noreturn"]
Self == [te |-> "Self"]

Lit(v) == [c |-> "int", val |-> v]
Id(n) == [c |-> "id", name |-> n]
Bin(op, l, r) == [c |-> "bin", op |-> op, left |-> l, right |-> r]

P(name, type) == [role |-> "param", name |-> name, type |-> type]
SelfP(type) == [role |-> "self", name |-> "self", type |-> type]
Generic(name) == [role |-> "generic", name |-> name, type |-> NoType]
Fn(name, params, ret) ==
  [kind |-> "fn", name |-> name, generics |-> << >>, params |-> params, ret |-> ret,
   unsafe |-> FALSE, body |-> TRUE]
Struct(name, fields) == [kind |-> "struct", name |-> name, fields |-> fields]
UnionDecl(name, generics, fields) ==
  [kind |-> "union", name |-> name, generics |-> generics, fields |-> fields]
Test == [kind |-> "test"]
Const(name, type, init) == [kind |-> "const", name |-> name, type |-> type, init |-> init]
Var(name, type, init) == [kind |-> "var", name |-> name, type |-> type, init |-> init]
Extend(target, methods) == [kind |-> "extend", target |-> target, methods |-> methods]

W(w) == [w |-> w]
Name(n) == [w |-> "id", name |-> n]
Local(kind, name, type, init) ==
  [w |-> "decl", kind |-> kind, name |-> name, type |-> type, init |-> init]
IntWord(v) == [w |-> "int", val |-> v]
Op(op, class) == [w |-> "binary", op |-> op, class |-> class]
Module(imports, decls, words, depth) ==
  [imports |-> imports, decls |-> decls, words |-> words, depth |-> depth]

Plain_f == Fn("f", << >>, NoType)

\* Shadowing: in one scope, in blocks, loops, fallbacks, against parameters,
\* functions and imports.
Shadowing ==
  Module(<<"S">>,
    <<[Fn("f", <<P("b", T("i64"))>>, NoType) EXCEPT !.generics = <<Generic("a")>>]>>,
    {Local("var", "a", T("bool"), FALSE), Local("var", "b", NoType, TRUE), Name("a"),
     W("nested"), W("stmt"), [w |-> "for", name |-> "b", type |-> NoType]}, 5)

\* Raw pointers in and outside of unsafe code.
Unsafe ==
  Module(<< >>,
    <<[Fn("g", <<P("a", Of("pointer", T("i64")))>>, T("i64")) EXCEPT !.unsafe = TRUE],
      Fn("f", <<P("a", Of("pointer", T("i64")))>>, NoType)>>,
    {Name("a"), W("deref"), W("unsafe"), W("return")}, 5)

\* Methods, fields and struct literals.
Methods ==
  Module(<< >>,
    <<Struct("S", <<[name |-> "a", type |-> T("i64")]>>), Struct("b", << >>),
      Extend("S", <<Fn("g", <<SelfP(Of("reference", T("S"))), P("a", T("i64"))>>, T("i64")),
                    Fn("f", << >>, NoType)>>),
      Extend("b", <<Fn("g", <<SelfP(Of("reference", Self))>>, Self)>>),
      Fn("f", <<P("a", T("S"))>>, T("i64"))>>,
    {Name("a"), Name("self"), [w |-> "method", name |-> "g", args |-> 1],
     [w |-> "method", name |-> "f", args |-> 0], [w |-> "field", name |-> "a"],
     [w |-> "struct", type |-> T("S")], [w |-> "init", name |-> "a"], IntWord(1)}, 5)

\* A method whose signature has a constant of the module for a length, its body with
\* a local constant of the same name.
MethodLengths ==
  Module(<< >>,
    <<Const("a", NoType, Lit(2)), Struct("S", << >>),
      Extend("S", <<Fn("g", <<SelfP(Of("reference", T("S"))), P("b", Arr(Id("a"), T("i64")))>>,
                       Arr(Id("a"), T("i64")))>>)>>,
    {Name("b"), Name("self"), IntWord(2), Local("const", "a", NoType, TRUE),
     [w |-> "method", name |-> "g", args |-> 1]}, 5)

\* A union with a field, a generic parameter and one with constraints.
Unions(words) ==
  Module(<< >>,
    <<UnionDecl("S", <<[name |-> "a", constraints |-> 0], [name |-> "b", constraints |-> 1]>>,
                <<[name |-> "g", type |-> T("i64")]>>),
      Test, Fn("f", <<P("a", T("S"))>>, NoType)>>,
    {Name("a"), [w |-> "struct", type |-> T("S")], IntWord(1), W("stmt")} \cup words, 5)

\* A method defined twice, targets that are none.
Extensions ==
  Module(<< >>,
    <<Struct("S", << >>), Extend("S", <<Fn("g", <<SelfP(T("S"))>>, NoType)>>),
      Extend("S", <<Fn("g", <<SelfP(T("S")), P("a", T("i64"))>>, NoType)>>),
      Extend("a", <<Fn("g", <<SelfP(Self)>>, NoType)>>)>>,
    {}, 5)

\* Error unions: try, its fallbacks, errdefer.
ErrorUnions ==
  Module(<< >>,
    <<Struct("S", << >>), Fn("f", <<P("a", T("i64"))>>, Union(T("S"), T("i64")))>>,
    {Name("a"), Name("f"), [w |-> "call", args |-> 1], W("try"),
     [w |-> "tryelse", name |-> "b"], Name("b"), W("return"), W("errdefer"), W("stmt")}, 5)

\* Divergence: what a fallback may end with.
Divergence ==
  Module(<< >>,
    <<Struct("S", << >>), Fn("g", << >>, NoReturn),
      Fn("f", <<P("a", Union(T("S"), T("i64")))>>, NoType)>>,
    {Name("a"), Name("g"), [w |-> "call", args |-> 0], [w |-> "tryelse", name |-> "b"],
     W("bool"), [w |-> "cond", form |-> "if"], [w |-> "cond", form |-> "while"], W("else"),
     W("jump"), W("match"), W("defer"), W("stmt")}, 5)

\* Constants as array lengths, at both ends of uint64_t, seen from a function that
\* has a constant of the same name.
Constants ==
  Module(<< >>,
    <<Const("a", NoType, Lit(2)), Const("b", T("i64"), Bin("-", Id("a"), Lit(2))),
      Fn("f", <<P("g", Arr(Id("b"), T("i64")))>>, Arr(Id("a"), T("i64")))>>,
    {Name("a"), IntWord(2), Op("-", "arith"), Local("const", "a", NoType, TRUE),
     [w |-> "cast", type |-> Arr(Id("b"), T("i64"))]}, 5)

\* Array literals over types that coerce into one another.
Arrays ==
  Module(<< >>, <<Fn("f", <<P("a", T("i32")), P("b", Of("optional", T("i64")))>>, NoType)>>,
    {Name("a"), Name("b"), IntWord(1), W("float"),
     [w |-> "array", type |-> T("f64"), length |-> Lit(2)],
     [w |-> "array", type |-> Of("optional", T("i64")), length |-> NoInit]}, 3)

\* Every operator, on every kind of operand.
Operators ==
  Module(<< >>, <<Plain_f>>,
    {IntWord(1), W("float"), W("bool"), W("string"), W("char"), Op("+", "arith"),
     Op("==", "compare"), Op("&&", "logic"), Op("|", "bits"), Op("..", "other"),
     [w |-> "unary", op |-> "-"], [w |-> "unary", op |-> "!"],
     [w |-> "field", name |-> "len"], [w |-> "field", name |-> "ptr"], W("index"),
     [w |-> "unchecked", children |-> 2], W("stmt")}, 5)

\* Values of the module around functions, typed and not, and assignments to them.
ModuleValues ==
  Module(<<"self">>,
    <<Fn("f", << >>, NoType), Const("a", NoType, Lit(1)), Var("b", T("f64"), Lit(1)),
      Var("S", T("i64"), NoInit), [kind |-> "enum", name |-> "g"]>>,
    {Name("a"), Name("b"), IntWord(1), W("assign"), W("unsafe"), W("return")}, 5)

\* Programs that pass 1 refuses.
Redefined ==
  Module(<<"a">>, <<Const("a", NoType, Lit(1)), Fn("f", <<P("b", Self)>>, NoType)>>, {}, 5)
\* Signatures with every kind of type, and noreturn in them.
Signatures ==
  Module(<< >>,
    <<Struct("S", <<[name |-> "a", type |-> Of("slice", T("u8"))]>>),
      Fn("f", <<P("a", Of("optional", Of("pointer", T("S")))), P("b", T("S"))>>,
         Union(T("S"), Of("slice", T("u8")))),
      Fn("g", <<P("a", [te |-> "function", params |-> <<T("isize"), Of("pointer", NoReturn)>>,
                        ret |-> NoReturn])>>, Union(T("S"), NoReturn))>>,
    {Name("a"), Name("b"), W("return"), [w |-> "field", name |-> "a"],
     [w |-> "call", args |-> 2], [w |-> "unary", op |-> "&"]}, 5)

\* Programs outside what UndefinedOnlyIf excludes.
Undefined ==
  {Module(<< >>, <<[Fn("f", << >>, T("i64")) EXCEPT !.body = FALSE]>>, {}, 5),
   Module(<< >>, <<Const("a", NoType, NotConstant), Plain_f>>,
          {W("unsafe"), W("return"), IntWord(1)}, 5),
   Module(<< >>, <<Struct("S", << >>), Extend("S", << >>), Const("a", NoType, NotConstant),
                   Plain_f>>,
          {W("unsafe"), W("return"), IntWord(1)}, 5),
   Unions({[w |-> "field", name |-> "b"], [w |-> "init", name |-> "b"]}),
   Module(<< >>, <<Const("a", NoType, Id("b")), Const("b", NoType, Id("a")),
                   Fn("f", <<P("a", Arr(Id("b"), T("i64")))>>, NoType)>>, {}, 5)}

ElseIfProgram ==
  Module(<< >>, <<Plain_f>>,
    {W("bool"), [w |-> "cond", form |-> "if"], W("else"), W("elseif")}, 5)

MCPrograms ==
  {Shadowing, Unsafe, Methods, Extensions, ErrorUnions, Divergence, Constants, Arrays,
   Operators, ModuleValues, Redefined, Signatures, MethodLengths, ElseIfProgram,
   Unions({[w |-> "field", name |-> n] : n \in {"a", "g"}}
          \cup {[w |-> "init", name |-> n] : n \in {"a", "g"}})} \cup Undefined

ElseIfPrograms == {ElseIfProgram}
=============================================================================
