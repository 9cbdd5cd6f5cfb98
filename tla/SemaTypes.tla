----------------------------- MODULE SemaTypes -----------------------------
(***************************************************************************)
(* How the semantic analysis (src/sema.c) reads the types a program is     *)
(* written with: sema_resolve_type, the evaluation of array lengths, and   *)
(* the lookup of fields and methods by the name of a type.                 *)
(*                                                                         *)
(* These are functions of the tables and of the pass; what they change is  *)
(* part of their result, and the actions of Sema put it into effect.       *)
(***************************************************************************)
EXTENDS SymbolTable, TypeTable, TLC

CONSTANTS
  UINT64  \* 2^64: constant expressions are evaluated in uint64_t

ASSUME SemaTypesAssumption == UINT64 \in Nat \ {0}

VARIABLES
  program,      \* the module under check: [imports, decls, words, depth]
  phase,        \* "imports", "collect", "bodies", "done", "undefined"
  method_table  \* [type_name, name, fn], newest first

\* Type expressions, the absence of one, and what is read as a type expression and
\* is none.
NoType == [te |-> "none"]
Wild == [te |-> "wild"]

\* Constant expressions: what an initialiser or an array length is to
\* sema_eval_const_expr.
NotConstant == [c |-> "other"]
NoInit == [c |-> "none"]

TypeKinds == {"struct", "union", "enum", "alias", "trait"}

-----------------------------------------------------------------------------
(* Constant expressions *)

RECURSIVE ConstSize(_)
ConstSize(e) ==
  CASE e.c = "bin" -> 1 + ConstSize(e.left) + ConstSize(e.right)
    [] e.c = "neg" -> 1 + ConstSize(e.operand)
    [] OTHER -> 1

\* The symbol a name of a constant expression is looked up as: in the scope at
\* hand when the expression is evaluated, wherever the expression is written.
ConstantNamed(n) == scope_lookup(current_scope, n)

Arith(op, l, r) ==
  CASE op = "+" -> (l + r) % UINT64
    [] op = "-" -> (l - r) % UINT64
    [] op = "*" -> (l * r) % UINT64
    [] op = "/" -> IF r # 0 THEN l \div r ELSE 0
    [] op = "%" -> IF r # 0 THEN l % r ELSE 0

\* Value, errors, and whether the behaviour is undefined: an evaluation that comes
\* back to a name it is busy with does so for ever. (The negation of INT64_MIN is
\* what two's complement makes of it.)
RECURSIVE sema_eval_const_expr(_, _)
sema_eval_const_expr(e, busy) ==
  LET Error(n) == [val |-> 0, errs |-> n, undefined |-> FALSE] IN
  CASE e.c = "none" -> Error(0)
    [] e.c = "int" -> [val |-> e.val, errs |-> 0, undefined |-> FALSE]
    [] e.c = "bin" ->
         LET l == sema_eval_const_expr(e.left, busy)
             r == sema_eval_const_expr(e.right, busy)
             known == e.op \in {"+", "-", "*", "/", "%"}
         IN  [val |-> IF known THEN Arith(e.op, l.val, r.val) ELSE 0,
              errs |-> l.errs + r.errs + (IF known THEN 0 ELSE 1),
              undefined |-> l.undefined \/ r.undefined]
    [] e.c = "neg" ->
         LET o == sema_eval_const_expr(e.operand, busy)
         IN  [o EXCEPT !.val = (- o.val) % UINT64]
    [] e.c = "id" ->
         LET sym == ConstantNamed(e.name) IN
         IF sym.id = 0 \/ sym.kind # "const" \/ sym.init = NoInit
         THEN Error(1)
         ELSE IF e.name \in busy
         THEN [val |-> 0, errs |-> 0, undefined |-> TRUE]
         ELSE sema_eval_const_expr(sym.init, busy \cup {e.name})
    [] OTHER -> Error(1)

-----------------------------------------------------------------------------
(* Types: the result is a type, the table behind it, and what was reported *)

Resolved(made, errs, undefined) ==
  [types |-> made.types, type |-> made.type, errs |-> errs, undefined |-> undefined]

Known(store, type) == [types |-> store, type |-> type]

Primitive ==
  "void" :> Void @@ "bool" :> Bool @@ "i32" :> IntType(TRUE, 32) @@ "i64" :> IntType(TRUE, 64)
  @@ "u8" :> IntType(FALSE, 8) @@ "isize" :> IntType(TRUE, 64) @@ "usize" :> IntType(FALSE, 64)
  @@ "f32" :> FloatType(32) @@ "f64" :> FloatType(64)

IsTypeName(n) ==
  LET sym == scope_lookup(1, n) IN sym.id # 0 /\ sym.kind \in TypeKinds

\* What sema_resolve_type asks of the two sides of an error union.
ErrorUnionErrors(err, succ) ==
  (IF Kind(err) = "struct" THEN 0 ELSE 1) + (IF Kind(succ) = "void" THEN 1 ELSE 0)

RECURSIVE sema_resolve_type(_, _, _), ResolveAll(_, _, _)
sema_resolve_type(store, te, self) ==
  CASE te.te = "none" -> Resolved(Known(store, Void), 0, FALSE)
    [] te.te = "wild" -> Resolved(Known(store, Void), 0, TRUE)
    [] te.te = "Self" ->
         IF self = NULL THEN Resolved(Known(store, Void), 1, FALSE)
         ELSE Resolved(Known(store, self), 0, FALSE)
    [] te.te = "named" ->
         IF te.name \in DOMAIN Primitive
         THEN Resolved(Known(store, Primitive[te.name]), 0, FALSE)
         ELSE Resolved(st_struct(store, te.name),
                       IF phase = "bodies" /\ ~IsTypeName(te.name) THEN 1 ELSE 0, FALSE)
    [] te.te = "noreturn" -> Resolved(make_noreturn(store), 0, FALSE)
    [] te.te \in {"pointer", "reference", "slice"} ->
         LET child == sema_resolve_type(store, te.child, self)
         IN  Resolved(st_unary(child.types, te.te, te.is_const, child.type),
                      child.errs, child.undefined)
    [] te.te = "optional" ->
         LET child == sema_resolve_type(store, te.child, self)
         IN  Resolved(st_optional(child.types, child.type), child.errs, child.undefined)
    [] te.te = "error_union" ->
         LET err == sema_resolve_type(store, te.error, self)
             succ == sema_resolve_type(err.types, te.success, self)
         IN  Resolved(st_error_union(succ.types, succ.type, err.type),
                      err.errs + succ.errs + ErrorUnionErrors(err.type, succ.type),
                      err.undefined \/ succ.undefined)
    [] te.te = "array" ->
         LET size == sema_eval_const_expr(te.length, {})
             elem == sema_resolve_type(store, te.elem, self)
         IN  Resolved(st_array(elem.types, size.val, elem.type),
                      size.errs + elem.errs, size.undefined \/ elem.undefined)
    [] te.te = "function" ->
         LET ps == ResolveAll(store, te.params, self)
             ret == sema_resolve_type(ps.types, te.ret, self)
         IN  Resolved(st_function(ret.types, ps.list, ret.type),
                      ps.errs + ret.errs, ps.undefined \/ ret.undefined)

ResolveAll(store, tes, self) ==
  IF tes = << >> THEN [types |-> store, list |-> << >>, errs |-> 0, undefined |-> FALSE]
  ELSE LET first == sema_resolve_type(store, Head(tes), self)
           rest == ResolveAll(first.types, Tail(tes), self)
       IN  [types |-> rest.types, list |-> <<first.type>> \o rest.list,
            errs |-> first.errs + rest.errs, undefined |-> first.undefined \/ rest.undefined]

\* Mutant: the return type is left at void.
sema_make_fn_type_void(store, fn, self) ==
  sema_resolve_type(store, [te |-> "function", ret |-> NoType,
    params |-> [i \in 1 .. Len(fn.params) |-> fn.params[i].type]], self)

\* Mutant: the receiver is left out.
sema_make_fn_type_no_self(store, fn, self) ==
  LET params == SelectSeq(fn.params, LAMBDA p : p.role # "self") IN
  sema_resolve_type(store, [te |-> "function", ret |-> fn.ret,
    params |-> [i \in 1 .. Len(params) |-> params[i].type]], self)

\* The type of a function as its callers see it, resolved where the caller stands.
sema_make_fn_type(store, fn, self) ==
  sema_resolve_type(store, [te |-> "function", ret |-> fn.ret,
    params |-> [i \in 1 .. Len(fn.params) |-> fn.params[i].type]], self)

\* What the checker takes for the fields of a declaration. Those of a union it reads
\* from union_decl.fields, but the parser builds unions as struct_decl, and what lies
\* there is the list of generic parameters (ast.h:199-211, ast.c:148-155, 601): it
\* has the parameters' names, and the number of a parameter's trait constraints
\* stands where a field has the pointer to its type. The declared fields are not seen.
FieldList(decl) ==
  IF decl.kind = "struct" THEN decl.fields
  ELSE [i \in 1 .. Len(decl.generics) |->
          [name |-> decl.generics[i].name,
           type |-> IF decl.generics[i].constraints = 0 THEN NoType ELSE Wild]]

\* sema_get_type_fields: the fields of a struct or union by the name of its type.
HasFields(t) ==
  /\ Kind(t) = "struct"
  /\ LET sym == scope_lookup(1, t.shape.name)
     IN  sym.id # 0 /\ sym.kind \in {"struct", "union"}
Fields(t) ==
  IF HasFields(t) THEN FieldList(program.decls[scope_lookup(1, t.shape.name).decl])
  ELSE << >>

RECURSIVE sema_type_name_for_method(_)
sema_type_name_for_method(t) ==
  CASE Kind(t) \in {"pointer", "reference"} -> sema_type_name_for_method(t.shape.base)
    [] Kind(t) = "struct" -> t.shape.name
    [] OTHER -> ""

\* The table with the methods of an extend declaration, added one after the other,
\* each in front.
method_table_add(type_name, methods) ==
  [i \in 1 .. Len(methods) |->
     LET m == methods[Len(methods) + 1 - i]
     IN  [type_name |-> type_name, name |-> m.name, fn |-> m]] \o method_table

\* Mutant: the name alone is compared.
method_table_lookup_by_name(type_name, name) ==
  LET hits == {i \in 1 .. Len(method_table) : method_table[i].name = name}
  IN  IF hits = {} THEN <<>> ELSE <<method_table[Min(hits)].fn>>

\* The newest entry of the name for the type, if there is one.
method_table_lookup(type_name, name) ==
  LET hits == {i \in 1 .. Len(method_table) :
                 method_table[i].type_name = type_name /\ method_table[i].name = name}
  IN  IF hits = {} THEN <<>> ELSE <<method_table[Min(hits)].fn>>

\* For the bound on types.
RECURSIVE TypeDepth(_)
TypeDepth(t) == IF Components(t) = {} THEN 0
                ELSE 1 + Max({TypeDepth(c) : c \in Components(t)})
=============================================================================
