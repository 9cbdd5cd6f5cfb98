-------------------------------- MODULE Sema --------------------------------
(***************************************************************************)
(* The semantic analysis (src/sema.c): pass 1 collects the declarations of *)
(* the module, pass 2 checks bodies and initialisers.                      *)
(*                                                                         *)
(* The declarations are given (`program`); what stands in the bodies is    *)
(* not: the walk of sema_check_block, sema_check_stmt and sema_check_expr  *)
(* over any tree is a sequence of the actions below, each the moment the   *)
(* code returns from a node, enters one that changes the context, or is    *)
(* done with one child of several. A frame is a call of one of the three   *)
(* functions that is not finished; its operands are the children it has    *)
(* checked. program.words is the set of nodes the bodies may be made of,   *)
(* program.depth bounds their nesting.                                     *)
(*                                                                         *)
(* A step that reads what is not there (a NULL or uninitialised pointer, a *)
(* node as one of another kind) or recurses without end leads to the phase *)
(* "undefined", behind which nothing is said. The trees are those of       *)
(* programs the parser accepts; the depth of the C stack is not a limit.   *)
(***************************************************************************)
EXTENDS SemaTypes

CONSTANTS
  Programs,    \* the modules that are checked
  MaxOperands, \* bound: children of a node that are kept at a time
  MaxElements, \* bound: elements of an array literal
  MaxConst,    \* bound: nodes of a constant expression
  MaxErrors    \* bound: errors reported

ASSUME SemaAssumption ==
  /\ MaxOperands \in Nat /\ MaxElements \in Nat /\ MaxConst \in Nat
  /\ MaxErrors \in Nat

VARIABLES
  next_decl,     \* the import or declaration that is next
  error_count,
  in_unsafe, current_fn, current_fn_has_return, current_self_type,
  current_fn_return_type,
  frames

context == <<in_unsafe, current_fn, current_fn_has_return, current_self_type,
             current_fn_return_type>>
module == <<program, next_decl, method_table>>
semaVars == <<scopeVars, types, module, phase, error_count, context, frames>>

\* current_fn_return_type before the first function: sema_new does not set it.
UNINITIALISED == Pointer([kind |-> "uninitialised"], 0)

Symbol(kind, name, type, init, decl) ==
  [id |-> NextId, kind |-> kind, name |-> name, type |-> type, init |-> init,
   decl |-> decl]

-----------------------------------------------------------------------------
(* Frames and operands *)

\* Pass 2 is busy with a frame.
Busy == phase = "bodies" /\ frames # << >>

Top == frames[Len(frames)]
Below == frames[Len(frames) - 1]
Last(k) == Top.ops[Len(Top.ops) - k + 1]  \* the k-th operand from the end

\* An expression that was checked: its type, whether it is the name of a constant,
\* what expr_diverges says of it, and what it is as a constant expression.
Operand(type) ==
  [type |-> type, constant |-> FALSE, diverges |-> FALSE, expr |-> NotConstant]

\* The tree of an expression is kept where a constant may get it.
Tree(e) ==
  IF Top.form = "value" \/ \E w \in program.words : w.w = "decl" /\ w.kind = "const"
  THEN e ELSE NotConstant

Frame(form, next) ==
  [form |-> form, next |-> next, ops |-> << >>, type |-> Void, diverges |-> FALSE,
   scope |-> current_scope]

\* The frame at the top is about to check an expression.
AwaitsExpr(k) ==
  /\ Busy /\ Top.next = "expr"
  /\ Len(Top.ops) >= k /\ Len(Top.ops) - k < MaxOperands

\* It is a frame of the form, with k operands, and not busy with a block.
InFrame(form, k) == Busy /\ Top.form = form /\ Top.next = "expr" /\ Len(Top.ops) = k

Finished(form) == Busy /\ Top.form = form /\ Top.next = "done"

Without(f, k) == [f EXCEPT !.ops = SubSeq(@, 1, Len(@) - k)]
With(f, op) == [f EXCEPT !.ops = Append(@, op)]
SetTop(f) == frames' = [frames EXCEPT ![Len(frames)] = f]
Push(k, f) ==
  /\ Len(frames) < program.depth
  /\ frames' = Append([frames EXCEPT ![Len(frames)] = Without(@, k)], f)
PopInto(f) == frames' = Append(SubSeq(frames, 1, Len(frames) - 2), f)

Errors(wrong) == IF wrong THEN 1 ELSE 0

Effect(store, errs, undefined) ==
  /\ store.loose <= MaxLoose
  /\ error_count + errs <= MaxErrors
  /\ types' = store
  /\ error_count' = error_count + errs
  /\ phase' = IF undefined THEN "undefined" ELSE phase

SameContext == UNCHANGED <<scopeVars, context, module>>

-----------------------------------------------------------------------------
(* sema_check_expr *)

\* It returns from a node: its k checked children become one operand.
Checked(k, op, store, errs, undefined) ==
  /\ AwaitsExpr(k)
  /\ SetTop(With(Without(Top, k), op))
  /\ Effect(store, errs, undefined)
  /\ SameContext

CheckedAs(k, r) == Checked(k, Operand(r.type), r.types, r.errs, r.undefined)

\* It goes down into a node behind k children.
Entered(k, frame, store, errs, undefined) ==
  /\ Push(k, frame)
  /\ Effect(store, errs, undefined)
  /\ SameContext

Literal(w) ==
  CASE w.w = "int" -> Checked(0, [Operand(IntType(TRUE, 64)) EXCEPT
                                    !.expr = Tree([c |-> "int", val |-> w.val])], types, 0, FALSE)
    [] w.w = "float" -> CheckedAs(0, Resolved(Known(types, FloatType(64)), 0, FALSE))
    [] w.w = "string" ->
         CheckedAs(0, Resolved(st_unary(types, "slice", TRUE, IntType(FALSE, 8)), 0, FALSE))
    [] w.w = "char" -> CheckedAs(0, Resolved(Known(types, IntType(FALSE, 8)), 0, FALSE))
    [] w.w = "bool" -> CheckedAs(0, Resolved(Known(types, Bool), 0, FALSE))

Identifier(w) ==
  LET sym == scope_lookup(current_scope, w.name)
      lost == (w.name = "self" /\ current_self_type = NULL) \/ sym.id = 0
      op == [type |-> IF lost \/ sym.type = NULL THEN Void ELSE sym.type,
             constant |-> ~lost /\ sym.kind = "const", diverges |-> FALSE,
             expr |-> Tree([c |-> "id", name |-> w.name])]
  IN  Checked(0, op, types, Errors(lost), FALSE)

Binary(w) ==
  LET l == Last(2).type
      r == Last(1).type
      numeric == st_is_numeric(l) /\ st_is_numeric(r)
      type == CASE w.class = "arith" /\ ~numeric -> Void
                [] w.class = "arith" /\ numeric ->
                     IF "float" \in {Kind(l), Kind(r)} THEN FloatType(64) ELSE l
                [] w.class \in {"compare", "logic"} -> Bool
                [] OTHER -> l
      wrong == \/ w.class = "arith" /\ ~numeric
               \/ w.class = "logic" /\ ~(Kind(l) = "bool" /\ Kind(r) = "bool")
               \/ w.class = "bits" /\ ~(st_is_integer(l) /\ st_is_integer(r))
      expr == Tree([c |-> "bin", op |-> w.op, left |-> Last(2).expr, right |-> Last(1).expr])
  IN
  /\ AwaitsExpr(2) /\ ConstSize(expr) <= MaxConst
  /\ Checked(2, [Operand(type) EXCEPT !.expr = expr], types, Errors(wrong), FALSE)

\* - ~ ! and &
Unary(w) ==
  LET o == Last(1).type
      made == CASE w.op = "&" -> st_unary(types, "reference", FALSE, o)
                [] w.op = "!" -> Known(types, Bool)
                [] OTHER -> Known(types, o)
      wrong == \/ w.op = "!" /\ Kind(o) # "bool"
               \/ w.op \in {"-", "~"} /\ ~st_is_numeric(o)
      expr == IF w.op = "-" THEN Tree([c |-> "neg", operand |-> Last(1).expr]) ELSE NotConstant
  IN
  /\ AwaitsExpr(1) /\ TypeDepth(made.type) <= MaxTypeDepth /\ ConstSize(expr) <= MaxConst
  /\ Checked(1, [Operand(made.type) EXCEPT !.expr = expr], made.types, Errors(wrong), FALSE)

\* Dereference; a raw pointer only in an unsafe context.
Deref ==
  LET o == Last(1).type
      type == IF Kind(o) \in {"pointer", "reference"} THEN o.shape.base ELSE Void
      wrong == Kind(o) # "reference" /\ ~(Kind(o) = "pointer" /\ in_unsafe)
  IN  AwaitsExpr(1) /\ CheckedAs(1, Resolved(Known(types, type), Errors(wrong), FALSE))

\* The arguments are checked one by one against what is left of params.
Arguments(params, args, result, store, errs, undefined) ==
  IF params # << >> /\ Len(params) = args
  THEN Entered(1, Frame("args", "expr") @@ [params |-> params, result |-> result],
               store, errs, undefined)
  ELSE Checked(1, result, store, errs + Errors(Len(params) # args), undefined)

\* A call of w.args arguments, which are only looked at when their number fits.
\* expr_diverges asks a call for its type.
Call(w) ==
  LET c == Last(1).type IN
  /\ AwaitsExpr(1)
  /\ IF Kind(c) = "function"
     THEN Arguments(c.shape.params, w.args, [Operand(c.shape.ret) EXCEPT
                      !.diverges = Kind(c.shape.ret) = "noreturn"], types, 0, FALSE)
     ELSE Checked(1, Operand(Void), types, 1, FALSE)

Argument ==
  /\ InFrame("args", 1)
  /\ IF Len(Top.params) = 1 THEN PopInto(With(Below, Top.result))
     ELSE SetTop([Without(Top, 1) EXCEPT !.params = Tail(@)])
  /\ Effect(types, Errors(~st_can_coerce(Last(1).type, Head(Top.params))), FALSE)
  /\ SameContext

\* A method call: Self is the type of the receiver while the signature is resolved.
MethodCall(w) ==
  LET recv == Last(1).type
      concrete == IF Kind(recv) \in {"pointer", "reference"} THEN recv.shape.base ELSE recv
      found == method_table_lookup(sema_type_name_for_method(concrete), w.name)
      sig == sema_make_fn_type(types, found[1], concrete)
      params == sig.type.shape.params
  IN
  /\ AwaitsExpr(1)
  /\ IF found = << >> THEN Checked(1, Operand(Void), types, 1, FALSE)
     ELSE IF params = << >> THEN Checked(1, Operand(Void), sig.types, sig.errs + 1, sig.undefined)
     ELSE Arguments(Tail(params), w.args, Operand(sig.type.shape.ret), sig.types,
                    sig.errs + Errors(~st_can_coerce(recv, params[1])), sig.undefined)

\* The type of a cast is resolved in front of its operand; neither sees the other.
Cast(w) == CheckedAs(1, sema_resolve_type(types, w.type, current_self_type))

Try ==
  LET inner == Last(1).type
      union == Kind(inner) = "error_union"
      propagates == /\ Kind(current_fn_return_type) = "error_union"
                    /\ st_can_coerce(inner.shape.error, current_fn_return_type.shape.error)
  IN
  /\ AwaitsExpr(1)
  /\ Checked(1, Operand(IF union THEN inner.shape.success ELSE inner), types,
             Errors(~(union /\ propagates)),
             union /\ current_fn_return_type = UNINITIALISED)

\* A frame with a scope of its own.
OpensScope(k, frame, buckets) ==
  /\ Push(k, frame)
  /\ scope_new(current_scope, buckets)
  /\ UNCHANGED <<types, error_count, phase, context, module>>

\* try ... else |err| { ... }: the fallback has a scope with the error's name. It is
\* not looked at when there is no error to catch.
TryElse(w) ==
  LET inner == Last(1).type IN
  /\ AwaitsExpr(1)
  /\ IF Kind(inner) # "error_union" THEN Checked(1, Operand(inner), types, 1, FALSE)
     ELSE /\ SymbolCount(Len(scopes)) < MaxSymbols
          /\ OpensScope(1, Frame("fallback", "block") @@ [success |-> inner.shape.success],
               Inserted(EmptyBuckets, Symbol("var", w.name, inner.shape.error, NoInit, 0)))

EndTryElse ==
  /\ Finished("fallback")
  /\ PopInto(With(Below, Operand(Top.success)))
  /\ Effect(types, Errors(~Top.diverges /\ ~st_can_coerce(Top.type, Top.success)), FALSE)
  /\ ReturnTo(Top.scope)
  /\ UNCHANGED <<context, module>>

SetUnsafe(value) ==
  /\ in_unsafe' = value
  /\ UNCHANGED <<types, error_count, phase, scopeVars, current_fn, current_fn_has_return,
                 current_self_type, current_fn_return_type, module>>

UnsafeBlock ==
  /\ AwaitsExpr(0)
  /\ Push(0, Frame("unsafe", "block") @@ [in_unsafe |-> in_unsafe])
  /\ SetUnsafe(TRUE)

\* Mutant: behind the block the code is safe, whatever is around it.
UnsafeBehind_safe(f) == FALSE

UnsafeBehind(f) == f.in_unsafe

EndUnsafeBlock ==
  /\ Finished("unsafe")
  /\ PopInto(With(Below, [Operand(Top.type) EXCEPT !.diverges = Top.diverges]))
  /\ SetUnsafe(UnsafeBehind(Top))

FieldNamed(fields, name) == {i \in 1 .. Len(fields) : fields[i].name = name}

\* Field access: the built-in fields of a slice, or those of a struct, directly or
\* through one pointer. The declared type of the field is resolved on every access.
Field(w) ==
  LET base == Last(1).type
      struct == IF Kind(base) \in {"pointer", "reference"} THEN base.shape.base ELSE base
      hits == FieldNamed(Fields(struct), w.name)
  IN
  /\ AwaitsExpr(1)
  /\ CheckedAs(1,
       CASE Kind(base) = "slice" /\ w.name = "ptr" ->
              Resolved(st_unary(types, "pointer", FALSE, base.shape.base), 0, FALSE)
         [] Kind(base) = "slice" /\ w.name = "len" ->
              Resolved(Known(types, IntType(FALSE, 64)), 0, FALSE)
         [] hits # {} ->
              sema_resolve_type(types, Fields(struct)[Min(hits)].type, current_self_type)
         [] OTHER -> Resolved(Known(types, Void), 1, FALSE))

Index ==
  LET obj == Last(2).type
      type == IF Kind(obj) \in {"array", "slice"} THEN obj.shape.base ELSE Void
  IN  AwaitsExpr(2) /\ Checked(2, Operand(type), types, 0, FALSE)

\* Slicing, and every kind of expression the checker does not know.
Unchecked(w) == Checked(w.children, Operand(Void), types, 0, FALSE)

\* An array literal: elem_type follows the elements, then the declared type and the
\* length are looked at. `elements` records the elements' types.
ArrayLiteral(w) ==
  /\ AwaitsExpr(0)
  /\ Entered(0, Frame("array", "expr") @@
       [of |-> w.type, length |-> w.length, elem_type |-> NULL, elements |-> << >>,
        errs_before |-> error_count], types, 0, FALSE)

\* Mutant: the type of the newest element is taken, whether the old one fits it or not.
ElemType_newest(elem_type, t) == t

\* The type of the elements behind one of type t.
ElemType(elem_type, t) ==
  IF elem_type = NULL THEN t
  ELSE IF ~st_can_coerce(t, elem_type) /\ st_can_coerce(elem_type, t) THEN t
  ELSE elem_type

Element ==
  LET t == Last(1).type
      old == Top.elem_type
      wrong == old # NULL /\ ~st_can_coerce(t, old) /\ ~st_can_coerce(old, t)
  IN
  /\ InFrame("array", 1) /\ Len(Top.elements) < MaxElements
  /\ SetTop([Without(Top, 1) EXCEPT !.elem_type = ElemType(old, t),
                                    !.elements = Append(@, t)])
  /\ Effect(types, Errors(wrong), FALSE)
  /\ SameContext

EndArrayLiteral ==
  LET r == sema_resolve_type(types, Top.of, current_self_type)
      size == sema_eval_const_expr(Top.length, {})
      made == IF Top.length = NoInit THEN st_unary(r.types, "slice", FALSE, r.type)
              ELSE st_array(r.types, size.val, r.type)
      wrong == Top.elem_type # NULL /\ ~st_can_coerce(Top.elem_type, r.type)
  IN
  /\ InFrame("array", 0)
  /\ PopInto(With(Below, Operand(made.type)))
  /\ Effect(made.types, r.errs + Errors(wrong) + size.errs, r.undefined \/ size.undefined)
  /\ SameContext

\* A struct literal: the initialisers are only looked at when the type has fields.
StructLiteral(w) ==
  LET r == sema_resolve_type(types, w.type, current_self_type) IN
  /\ AwaitsExpr(0)
  /\ IF HasFields(r.type)
     THEN Entered(0, Frame("struct", "expr") @@ [struct |-> r.type], r.types, r.errs, r.undefined)
     ELSE Checked(0, Operand(r.type), r.types, r.errs + 1, r.undefined)

FieldInit(w) ==
  LET hits == FieldNamed(Fields(Top.struct), w.name)
      r == sema_resolve_type(types, Fields(Top.struct)[Min(hits)].type, current_self_type)
  IN
  /\ InFrame("struct", 1)
  /\ SetTop(Without(Top, 1))
  /\ IF hits = {} THEN Effect(types, 1, FALSE)
     ELSE Effect(r.types, r.errs + Errors(~st_can_coerce(Last(1).type, r.type)), r.undefined)
  /\ SameContext

EndStructLiteral ==
  /\ InFrame("struct", 0)
  /\ PopInto(With(Below, Operand(Top.struct)))
  /\ Effect(types, 0, FALSE)
  /\ SameContext

-----------------------------------------------------------------------------
(* sema_check_block and sema_check_stmt *)

\* The block goes on behind a statement: stmt_diverges of one statement makes
\* block_diverges true of the block.
Behind(block, type, diverges) ==
  [block EXCEPT !.ops = << >>, !.type = type, !.diverges = @ \/ diverges]

\* A statement with k expressions and no block.
Stated(k, diverges, errs) ==
  /\ InFrame("block", k)
  /\ SetTop(Behind(Top, Void, diverges))
  /\ Effect(types, errs, FALSE)
  /\ SameContext

\* The block of a function, a statement or an expression.
OpenBlock ==
  /\ Busy /\ Top.next = "block"
  /\ OpensScope(0, Frame("block", "expr"), EmptyBuckets)

NestedBlock == InFrame("block", 0) /\ OpensScope(0, Frame("block", "expr"), EmptyBuckets)

\* The type of a block is that of its trailing expression or its last statement.
CloseBlock ==
  LET trailing == Top.ops # << >>
      type == IF trailing THEN Last(1).type ELSE Top.type
      diverges == Top.diverges \/ (trailing /\ Last(1).diverges)
  IN
  /\ \E k \in 0 .. 1 : InFrame("block", k)
  /\ PopInto(IF Below.form = "block" THEN Behind(Below, type, diverges)
             ELSE [Below EXCEPT !.next = "done", !.type = type, !.diverges = diverges])
  /\ ReturnTo(Top.scope)
  /\ UNCHANGED <<types, error_count, phase, context, module>>

\* A local constant or variable, with a type, an initialiser or both. Nothing asks
\* whether the scope has the name already.
LocalDecl(w) ==
  LET r == sema_resolve_type(types, w.type, current_self_type)
      init_type == IF w.init THEN Last(1).type ELSE Void
      type == IF w.type = NoType THEN init_type ELSE r.type
      init == IF w.init /\ w.kind = "const" THEN Last(1).expr ELSE NoInit
  IN
  /\ InFrame("block", IF w.init THEN 1 ELSE 0)
  /\ scope_insert(current_scope, Symbol(w.kind, w.name, type, init, 0))
  /\ SetTop(Behind(Top, Void, FALSE))
  /\ Effect(r.types, r.errs + Errors(w.init /\ ~st_can_coerce(init_type, type)), r.undefined)
  /\ UNCHANGED <<current_scope, context, module>>

\* The errors so far are kept, to say nothing more of a value that is wrong.
Return ==
  /\ InFrame("block", 0)
  /\ Push(0, Frame("return", "expr") @@ [errs_before |-> error_count])
  /\ current_fn_has_return' = TRUE
  /\ UNCHANGED <<types, error_count, phase, scopeVars, in_unsafe, current_fn,
                 current_self_type, current_fn_return_type, module>>

\* Mutant: the missing return type of code outside a function is not replaced.
ExpectedReturn_null ==
  [type |-> Void, undefined |-> current_fn_return_type \in {NULL, UNINITIALISED}]

\* What a return has to fit: outside a function, void.
ExpectedReturn ==
  [type |-> IF current_fn_return_type = NULL THEN Void ELSE current_fn_return_type,
   undefined |-> current_fn_return_type = UNINITIALISED]

\* A value fits an error union as an error or as a success.
EndReturn ==
  LET ret == IF Top.ops = << >> THEN Void ELSE Last(1).type
      expected == ExpectedReturn.type
      fits == IF Kind(expected) = "error_union"
              THEN \/ ret = expected
                   \/ st_can_coerce(ret, expected.shape.error)
                   \/ st_can_coerce(ret, expected.shape.success)
              ELSE st_can_coerce(ret, expected)
  IN
  /\ \E k \in 0 .. 1 : InFrame("return", k)
  /\ PopInto(Behind(Below, Void, TRUE))
  /\ Effect(types, Errors(error_count = Top.errs_before /\ ~fits), ExpectedReturn.undefined)
  /\ SameContext

ExprStmt == InFrame("block", 1) /\ Stated(1, Last(1).diverges, 0)

AssignStmt ==
  /\ InFrame("block", 2)
  /\ Stated(2, FALSE, Errors(Last(2).constant)
                      + Errors(~st_can_coerce(Last(1).type, Last(2).type)))

\* defer; and match, whose arms only stmt_diverges looks at.
Defer == Stated(1, FALSE, 0)
Match == \E diverges \in BOOLEAN : Stated(1, diverges, 0)

\* break and continue; nothing asks for a loop around them.
Jump == Stated(0, TRUE, 0)

\* if and while: the condition, then the block.
Conditional(w) ==
  /\ InFrame("block", 1)
  /\ Entered(1, Frame(w.form, "block") @@ [then |-> FALSE], types,
             Errors(Kind(Last(1).type) # "bool"), FALSE)

Else ==
  /\ Finished("if")
  /\ SetTop([Top EXCEPT !.form = "else", !.next = "block", !.then = Top.diverges])
  /\ Effect(types, 0, FALSE)
  /\ SameContext

\* else if: the parser makes the nested if statement the else_block, and
\* sema_check_block reads it as a block.
ElseIf ==
  /\ Finished("if")
  /\ Effect(types, 0, TRUE)
  /\ UNCHANGED <<frames, scopeVars, context, module>>

ErrDefer ==
  /\ InFrame("block", 0)
  /\ Entered(0, Frame("errdefer", "block"), types,
             Errors(Kind(current_fn_return_type) # "error_union"),
             current_fn_return_type = UNINITIALISED)

\* The end of if, else, while and errdefer.
EndStatement ==
  /\ \E form \in {"if", "else", "while", "errdefer"} : Finished(form)
  /\ PopInto(Behind(Below, Void, Top.form = "else" /\ Top.then /\ Top.diverges))
  /\ Effect(types, 0, FALSE)
  /\ SameContext

\* for: a scope around the iterable, the variable and the body.
For(w) ==
  /\ InFrame("block", 0)
  /\ OpensScope(0, Frame("for", "expr") @@ [var |-> w.name, of |-> w.type], EmptyBuckets)

ForVar ==
  LET r == sema_resolve_type(types, Top.of, current_self_type)
      type == IF Top.of = NoType THEN IntType(TRUE, 64) ELSE r.type
  IN
  /\ InFrame("for", 1)
  /\ scope_insert(current_scope, Symbol("var", Top.var, type, NoInit, 0))
  /\ SetTop([Without(Top, 1) EXCEPT !.next = "block"])
  /\ Effect(r.types, r.errs, r.undefined)
  /\ UNCHANGED <<current_scope, context, module>>

\* Mutant: the scope of the loop stays open.
EndFor_open ==
  /\ Finished("for")
  /\ PopInto(Behind(Below, Void, FALSE))
  /\ UNCHANGED <<types, error_count, phase, scopeVars, context, module>>

EndFor ==
  /\ Finished("for")
  /\ PopInto(Behind(Below, Void, FALSE))
  /\ ReturnTo(Top.scope)
  /\ UNCHANGED <<types, error_count, phase, context, module>>

-----------------------------------------------------------------------------
(* sema_check_fn_body *)

Context(fn, has_return, self, ret, unsafe) ==
  /\ current_fn' = fn
  /\ current_fn_has_return' = has_return
  /\ current_self_type' = self
  /\ current_fn_return_type' = ret
  /\ in_unsafe' = unsafe

\* The prologue is one step for the scope and one for each parameter: `todo` holds
\* the generic parameters and the parameters that are left, `params` the types of
\* the parameters.
EnterFn(outer, fn, self) ==
  /\ Len(frames) < program.depth
  /\ frames' = Append(outer, Frame("fn", "params") @@
       [fn |-> fn, todo |-> fn.generics \o fn.params, params |-> << >>, ret |-> NULL,
        current_fn |-> current_fn, self |-> self, in_unsafe |-> in_unsafe])
  /\ scope_new(1, EmptyBuckets)
  /\ Context(fn.name, FALSE, self, current_fn_return_type, fn.unsafe)
  /\ UNCHANGED <<types, error_count, phase, module>>

InPrologue == Busy /\ Top.form = "fn" /\ Top.next = "params"

\* self without a type has the type of the methods' target.
Param ==
  LET p == Head(Top.todo)
      r == sema_resolve_type(types, p.type, current_self_type)
      type == IF p.role = "self" /\ p.type = NoType /\ current_self_type # NULL
              THEN current_self_type ELSE r.type
      kind == IF p.role = "generic" THEN "generic" ELSE "var"
  IN
  /\ InPrologue /\ Top.todo # << >>
  /\ scope_insert(current_scope, Symbol(kind, p.name, type, NoInit, 0))
  /\ SetTop([Top EXCEPT !.todo = Tail(@),
                        !.params = IF kind = "generic" THEN @ ELSE Append(@, type)])
  /\ Effect(r.types, r.errs + Errors(p.role = "self" /\ current_self_type = NULL), r.undefined)
  /\ current_self_type' = IF p.role = "self" THEN type ELSE current_self_type
  /\ UNCHANGED <<current_scope, in_unsafe, current_fn, current_fn_has_return,
                 current_fn_return_type, module>>

\* The return type; a function without a body has the type void at once.
ReturnType ==
  LET r == sema_resolve_type(types, Top.fn.ret, current_self_type) IN
  /\ InPrologue /\ Top.todo = << >>
  /\ SetTop([Top EXCEPT !.ret = r.type, !.next = IF Top.fn.body THEN "block" ELSE "done"])
  /\ Effect(r.types, r.errs, r.undefined)
  /\ Context(current_fn, current_fn_has_return, current_self_type, r.type, in_unsafe)
  /\ UNCHANGED <<scopeVars, module>>

\* Without any return the body's own type has to fit; the report names the place of
\* the body. The declaration is done with when the function is not a method.
EndFn ==
  LET wrong == /\ ~current_fn_has_return
               /\ Kind(Top.type) # "noreturn"
               /\ ~st_can_coerce(Top.type, Top.ret)
  IN
  /\ Finished("fn")
  /\ frames' = SubSeq(frames, 1, Len(frames) - 1)
  /\ next_decl' = IF Len(frames) = 1 THEN next_decl + 1 ELSE next_decl
  /\ ReturnTo(Top.scope)
  /\ Context(Top.current_fn, current_fn_has_return, Top.self, NULL, Top.in_unsafe)
  /\ Effect(types, Errors(wrong), wrong /\ ~Top.fn.body)
  /\ UNCHANGED <<program, method_table>>

-----------------------------------------------------------------------------
(* sema_new and sema_collect_decls *)

SemaInit ==
  /\ TableInit /\ TypesInit
  /\ program \in Programs
  /\ phase = "imports" /\ next_decl = 1
  /\ method_table = << >> /\ error_count = 0
  /\ in_unsafe = FALSE /\ current_fn = "none" /\ current_fn_has_return = FALSE
  /\ current_self_type = NULL /\ current_fn_return_type = UNINITIALISED
  /\ frames = << >>

\* An import is inserted whatever the scope has.
CollectImport ==
  /\ phase = "imports" /\ next_decl <= Len(program.imports)
  /\ scope_insert(1, Symbol("module", program.imports[next_decl], Void, NoInit, 0))
  /\ next_decl' = next_decl + 1
  /\ UNCHANGED <<current_scope, types, program, method_table, phase, error_count, context,
                 frames>>

EndImports ==
  /\ phase = "imports" /\ next_decl > Len(program.imports)
  /\ phase' = "collect" /\ next_decl' = 1
  /\ UNCHANGED <<scopeVars, types, program, method_table, error_count, context, frames>>

Decl == program.decls[next_decl]
Collecting == phase = "collect" /\ next_decl <= Len(program.decls)

\* Functions have their type from now on, aliases, constants and variables none,
\* everything else void.
CollectDecl ==
  LET d == Decl
      r == CASE d.kind = "fn" -> sema_make_fn_type(types, d, current_self_type)
             [] d.kind \in {"alias", "const", "var"} -> Resolved(Known(types, NULL), 0, FALSE)
             [] OTHER -> Resolved(Known(types, Void), 0, FALSE)
      init == IF d.kind = "const" THEN d.init ELSE NoInit
      taken == scope_lookup_current(1, d.name).id # 0
  IN
  /\ Collecting /\ d.kind \notin {"extend", "test"}
  /\ IF taken THEN UNCHANGED scopes
     ELSE scope_insert(1, Symbol(d.kind, d.name, r.type, init, next_decl))
  /\ Effect(r.types, r.errs + Errors(taken), r.undefined)
  /\ next_decl' = next_decl + 1
  /\ UNCHANGED <<current_scope, program, method_table, context, frames>>

\* A test declares nothing, and neither pass looks into it.
CollectTest ==
  /\ Collecting /\ Decl.kind = "test"
  /\ next_decl' = next_decl + 1
  /\ UNCHANGED <<scopeVars, types, program, method_table, phase, error_count, context,
                 frames>>

IsExtendable(n) ==
  LET sym == scope_lookup(1, n)
  IN  sym.id # 0 /\ sym.kind \in {"struct", "union", "enum"}

\* The methods are entered even when the target is not one.
CollectExtend ==
  /\ Collecting /\ Decl.kind = "extend"
  /\ method_table' = method_table_add(Decl.target, Decl.methods)
  /\ Effect(types, Errors(~IsExtendable(Decl.target)), FALSE)
  /\ next_decl' = next_decl + 1
  /\ UNCHANGED <<scopeVars, program, context, frames>>

\* sema_run: the bodies are only looked at when nothing was reported.
EndCollect ==
  /\ phase = "collect" /\ next_decl > Len(program.decls)
  /\ phase' = IF error_count > 0 THEN "done" ELSE "bodies"
  /\ next_decl' = 1
  /\ UNCHANGED <<scopeVars, types, program, method_table, error_count, context, frames>>

-----------------------------------------------------------------------------
(* sema_resolve_bodies *)

\* Pass 2 is between two declarations.
Between == phase = "bodies" /\ frames = << >>
AtDecl(kinds) == Between /\ next_decl <= Len(program.decls) /\ Decl.kind \in kinds

FnDecl ==
  /\ AtDecl({"fn"})
  /\ EnterFn(<< >>, Decl, NULL)
  /\ UNCHANGED module

HasInit(d) == d.kind \in {"const", "var"} /\ d.init # NoInit

SkipDecl ==
  /\ Between /\ next_decl <= Len(program.decls)
  /\ ~(Decl.kind = "fn" \/ HasInit(Decl) \/ (Decl.kind = "extend" /\ IsExtendable(Decl.target)))
  /\ next_decl' = next_decl + 1
  /\ UNCHANGED <<types, error_count, phase, scopeVars, program, method_table, context, frames>>

ModuleValue ==
  /\ AtDecl({"const", "var"}) /\ HasInit(Decl)
  /\ frames' = <<Frame("value", "expr")>>
  /\ Effect(types, 0, FALSE)
  /\ SameContext

\* The symbol behind the check of its initialiser.
ValueSymbol(sym, declared, init_type) ==
  IF sym.type # NULL THEN sym
  ELSE [sym EXCEPT !.type = IF declared = NULL THEN init_type ELSE declared]

\* The initialiser that was walked is the one of the declaration. The declared type
\* is resolved twice, for the check and for the symbol.
EndModuleValue ==
  LET d == Decl
      init_type == Last(1).type
      typed == d.type # NoType
      r == sema_resolve_type(types, d.type, current_self_type)
      again == sema_resolve_type(r.types, d.type, current_self_type)
      sym == scope_lookup(1, d.name)
  IN
  /\ InFrame("value", 1)
  /\ Last(1).expr = d.init
  /\ Overwrite(1, d.name, ValueSymbol(sym, IF typed THEN again.type ELSE NULL, init_type))
  /\ Effect(again.types,
            IF typed THEN r.errs + Errors(~st_can_coerce(init_type, r.type)) + again.errs
            ELSE 0, r.undefined)
  /\ frames' = << >>
  /\ next_decl' = next_decl + 1
  /\ UNCHANGED <<current_scope, program, method_table, context>>

\* A struct's symbol has the type void, and so has Self in the bodies of its methods.
ExtendDecl ==
  LET type == scope_lookup(1, Decl.target).type IN
  /\ AtDecl({"extend"}) /\ IsExtendable(Decl.target)
  /\ frames' = <<Frame("extend", "methods") @@
                 [todo |-> Decl.methods, self |-> current_self_type]>>
  /\ current_self_type' = IF type # NULL /\ Kind(type) # "void" THEN type ELSE Void
  /\ UNCHANGED <<types, error_count, phase, scopeVars, in_unsafe, current_fn, current_fn_has_return,
                 current_fn_return_type, module>>

Method ==
  /\ Busy /\ Top.form = "extend" /\ Top.todo # << >>
  /\ EnterFn(<<[Top EXCEPT !.todo = Tail(@)]>>, Head(Top.todo), current_self_type)
  /\ UNCHANGED module

EndExtend ==
  /\ Busy /\ Top.form = "extend" /\ Top.todo = << >>
  /\ current_self_type' = Top.self
  /\ frames' = << >>
  /\ next_decl' = next_decl + 1
  /\ UNCHANGED <<types, error_count, phase, scopeVars, in_unsafe, current_fn, current_fn_has_return,
                 current_fn_return_type, program, method_table>>

EndBodies ==
  /\ Between /\ next_decl > Len(program.decls)
  /\ phase' = "done"
  /\ UNCHANGED <<scopeVars, types, module, error_count, context, frames>>

-----------------------------------------------------------------------------
\* The nodes a body may be made of.
Words(kinds) == {w \in program.words : w.w \in kinds}

Expression ==
  \/ \E w \in Words({"int", "float", "string", "char", "bool"}) : Literal(w)
  \/ \E w \in Words({"id"}) : Identifier(w)
  \/ \E w \in Words({"binary"}) : Binary(w)
  \/ \E w \in Words({"unary"}) : Unary(w)
  \/ \E w \in Words({"deref"}) : Deref
  \/ \E w \in Words({"call"}) : Call(w)
  \/ \E w \in Words({"method"}) : MethodCall(w)
  \/ Argument
  \/ \E w \in Words({"cast"}) : Cast(w)
  \/ \E w \in Words({"try"}) : Try
  \/ \E w \in Words({"tryelse"}) : TryElse(w)
  \/ EndTryElse
  \/ \E w \in Words({"unsafe"}) : UnsafeBlock
  \/ EndUnsafeBlock
  \/ \E w \in Words({"field"}) : Field(w)
  \/ \E w \in Words({"index"}) : Index
  \/ \E w \in Words({"unchecked"}) : Unchecked(w)
  \/ \E w \in Words({"array"}) : ArrayLiteral(w)
  \/ Element \/ EndArrayLiteral
  \/ \E w \in Words({"struct"}) : StructLiteral(w)
  \/ \E w \in Words({"init"}) : FieldInit(w)
  \/ EndStructLiteral

Statement ==
  \/ \E w \in Words({"decl"}) : LocalDecl(w)
  \/ \E w \in Words({"return"}) : Return
  \/ EndReturn
  \/ \E w \in Words({"stmt"}) : ExprStmt
  \/ \E w \in Words({"assign"}) : AssignStmt
  \/ \E w \in Words({"cond"}) : Conditional(w)
  \/ \E w \in Words({"else"}) : Else
  \/ \E w \in Words({"elseif"}) : ElseIf
  \/ \E w \in Words({"for"}) : For(w)
  \/ ForVar \/ EndFor
  \/ \E w \in Words({"defer"}) : Defer
  \/ \E w \in Words({"match"}) : Match
  \/ \E w \in Words({"errdefer"}) : ErrDefer
  \/ EndStatement
  \/ \E w \in Words({"jump"}) : Jump
  \/ \E w \in Words({"nested"}) : NestedBlock

Collect ==
  CollectImport \/ EndImports \/ CollectDecl \/ CollectTest \/ CollectExtend \/ EndCollect

Bodies ==
  \/ FnDecl \/ SkipDecl \/ ModuleValue \/ EndModuleValue
  \/ ExtendDecl \/ Method \/ EndExtend \/ EndBodies
  \/ Param \/ ReturnType \/ EndFn
  \/ OpenBlock \/ CloseBlock \/ Expression \/ Statement

SemaNext == Collect \/ Bodies

SemaSpec == SemaInit /\ [][SemaNext]_semaVars

-----------------------------------------------------------------------------
FramesOf(forms) == {i \in 1 .. Len(frames) : frames[i].form \in forms}

\* Every frame's operands and every symbol have a type of the table (a value of the
\* module: none before it is checked); scopes and errors stay within bounds.
SemaTypeOK ==
  LET Type(t) == t \in types.table \/ Kind(t) = "noreturn" IN
  /\ phase \in {"imports", "collect", "bodies", "done", "undefined"}
  /\ next_decl \in 1 .. Max({Len(program.imports), Len(program.decls)}) + 1
  /\ error_count \in 0 .. MaxErrors
  /\ current_scope \in 1 .. Len(scopes)
  /\ \A i \in 1 .. Len(frames) : \A k \in 1 .. Len(frames[i].ops) :
       Type(frames[i].ops[k].type)
  /\ \A s \in 1 .. Len(scopes), b \in 0 .. BUCKETS - 1 :
       \A k \in 1 .. Len(scopes[s].buckets[b]) :
         LET type == scopes[s].buckets[b][k].type
         IN  Type(type) \/ (type = NULL /\ s = 1)

\* What the checker believes about the code it looks at is what that code is inside
\* of, wherever the walk stands: scopes, unsafe (a function declared unsafe or an
\* unsafe block around the place, and nothing else), the function and its return
\* type, and Self, which is gone behind the last method (the fields sema.c saves,
\* overwrites and restores around functions, blocks and extend).
ContextMatchesFrames ==
  LET fns == FramesOf({"fn"}) IN
  phase = "bodies" =>
    /\ current_scope = 1 + Cardinality(FramesOf({"fn", "block", "for", "fallback"}))
    /\ in_unsafe <=> \/ FramesOf({"unsafe"}) # {}
                     \/ \E i \in fns : frames[i].fn.unsafe
    /\ \A i \in fns :
         /\ current_fn = frames[i].fn.name
         /\ frames[i].next # "params" => current_fn_return_type = frames[i].ret
    /\ fns = {} => /\ current_fn = "none"
                   /\ Kind(current_fn_return_type) \in {"null", "uninitialised"}
    /\ FramesOf({"fn", "extend"}) = {} => current_self_type = NULL
    /\ FramesOf({"extend"}) = {} /\ error_count = 0 => current_self_type = NULL

RECURSIVE HasNoReturn(_)
HasNoReturn(t) == Kind(t) = "noreturn" \/ \E c \in Components(t) : HasNoReturn(c)

\* The body of a function is checked against the signature its callers are checked
\* against: in a program without errors the parameter types and the return type that
\* sema_check_fn_body resolves, in the function's scope and behind pass 1, are the
\* ones sema_make_fn_type resolved in the module's. noreturn excepted: it is made
\* anew each time, and a type built around it is no longer the caller's.
SignaturesAgree ==
  \A i \in FramesOf({"fn"}) :
    /\ i = 1
    /\ frames[i].next # "params"
    /\ error_count = 0
    => LET sig == scope_lookup(1, frames[i].fn.name).type IN
       ~HasNoReturn(sig) =>
         frames[i].params = sig.shape.params /\ frames[i].ret = sig.shape.ret

RECURSIVE MentionsSelf(_)
MentionsSelf(te) ==
  CASE te.te = "Self" -> TRUE
    [] te.te \in {"pointer", "reference", "slice", "optional"} -> MentionsSelf(te.child)
    [] te.te = "array" -> MentionsSelf(te.elem)
    [] te.te = "error_union" -> MentionsSelf(te.error) \/ MentionsSelf(te.success)
    [] te.te = "function" ->
         MentionsSelf(te.ret) \/ \E i \in 1 .. Len(te.params) : MentionsSelf(te.params[i])
    [] OTHER -> FALSE

\* No declaration around the place hides a constant of the module.
ConstantsVisible ==
  \A n \in Names :
    LET sym == scope_lookup(1, n) IN
    sym.id # 0 /\ sym.kind = "const" => scope_lookup(current_scope, n) = sym

\* The signature of a method is resolved anew at every call, in the scope of the call
\* (sema.c:971). Wherever a call stands in the method's own body, whatever is open
\* around it and whatever Self is there, the call is checked against the types the
\* body was entered with. Excepted are signatures with Self, which the body takes for
\* another type than a caller, with noreturn, or with a self that has no type; and
\* places where a local name hides a constant of the module, which may be the length
\* of an array in the signature.
MethodSignaturesAgree ==
  \A i \in FramesOf({"fn"}) :
    LET fn == frames[i].fn
        sig == sema_make_fn_type(types, fn, NULL).type
        written == {fn.ret} \cup {fn.params[k].type : k \in 1 .. Len(fn.params)}
    IN
    /\ i = 2
    /\ phase = "bodies" /\ error_count = 0
    /\ frames[i].next # "params"
    /\ \A te \in written : ~MentionsSelf(te)
    /\ \A k \in 1 .. Len(fn.params) : fn.params[k].role = "self" => fn.params[k].type # NoType
    /\ ConstantsVisible
    /\ ~HasNoReturn(sig)
    => frames[i].params = sig.shape.params /\ frames[i].ret = sig.shape.ret

\* In an array literal without errors every element fits the type that stands for
\* them all, the ones in front of a change of that type included (no pointers and no
\* references: coercion through them is not transitive).
ElementsFit ==
  \A i \in FramesOf({"array"}) :
    LET f == frames[i] IN
    /\ error_count = f.errs_before
    /\ \A k \in 1 .. Len(f.elements) : Plain(f.elements[k])
    => \A k \in 1 .. Len(f.elements) : st_can_coerce(f.elements[k], f.elem_type)

-----------------------------------------------------------------------------
\* cg_find_method of the C backend: the first method in the order of the text.
cg_find_method(type_name, name) ==
  LET hits == {<<i, j>> \in (1 .. Len(program.decls)) \X (1 .. MaxSymbols) :
                 LET d == program.decls[i] IN
                 /\ d.kind = "extend"
                 /\ d.target = type_name
                 /\ j <= Len(d.methods)
                 /\ d.methods[j].name = name}
      first == Min({h[1] : h \in hits})
      method == Min({h[2] : h \in {h \in hits : h[1] = first}})
  IN  [fn |-> IF hits = {} THEN << >> ELSE <<program.decls[first].methods[method]>>,
       count |-> Cardinality(hits)]

\* The method the checker compares a call with is the method the C backend calls:
\* the two search different structures in opposite directions, and agree on every
\* method that is defined once. (Nothing reports a method that is defined twice.)
MethodsAgree ==
  phase \in {"bodies", "done"} /\ frames = << >> =>
    \A type_name, name \in Names :
      LET cg == cg_find_method(type_name, name)
      IN  cg.count <= 1 => method_table_lookup(type_name, name) = cg.fn

-----------------------------------------------------------------------------
(* Programs that lead to undefined behaviour, told from their text *)

RECURSIVE Mentioned(_)
Mentioned(e) ==
  CASE e.c = "id" -> {e.name}
    [] e.c = "bin" -> Mentioned(e.left) \cup Mentioned(e.right)
    [] e.c = "neg" -> Mentioned(e.operand)
    [] OTHER -> {}

\* The names the initialisers of a constant may mention, of whatever scope it is.
Mentions(n) ==
  UNION {Mentioned(program.decls[i].init) :
           i \in {i \in 1 .. Len(program.decls) :
                    program.decls[i].kind = "const" /\ program.decls[i].name = n}}
  \cup (IF \E w \in Words({"decl"}) : w.kind = "const" /\ w.name = n /\ w.init
        THEN {w.name : w \in Words({"id"})} ELSE {})

MentionCycle ==
  LET reach[k \in 0 .. Cardinality(Names)] ==
        IF k = 0 THEN [n \in Names |-> Mentions(n)]
        ELSE [n \in Names |-> reach[k - 1][n] \cup UNION {Mentions(m) : m \in reach[k - 1][n]}]
  IN  \E n \in Names : n \in reach[Cardinality(Names)][n]

Functions ==
  {program.decls[i] : i \in {i \in 1 .. Len(program.decls) : program.decls[i].kind = "fn"}}
  \cup UNION {{program.decls[i].methods[j] : j \in 1 .. Len(program.decls[i].methods)} :
              i \in {i \in 1 .. Len(program.decls) : program.decls[i].kind = "extend"}}

\* Is a body checked at this declaration? Behind it current_fn_return_type is set.
ChecksBody(d) == d.kind = "fn" \/ (d.kind = "extend" /\ d.methods # << >>)

\* The initialiser of a module value in front of every function and method, in a
\* program that has something to ask the return type.
LeadingValue ==
  /\ Words({"try", "return", "errdefer"}) # {}
  /\ \E i \in 1 .. Len(program.decls) :
       /\ HasInit(program.decls[i])
       /\ \A j \in 1 .. i - 1 : ~ChecksBody(program.decls[j])

\* A field of the name of a constrained generic parameter of a union is used.
UnionParameterUsed ==
  \E i \in 1 .. Len(program.decls) :
    /\ program.decls[i].kind = "union"
    /\ \E g \in Range(program.decls[i].generics) :
         g.constraints > 0 /\ \E w \in Words({"field", "init"}) : w.name = g.name

\* On every program the parser accepts, well typed or not, the checker reads no
\* pointer that is not there, takes no node for one of another kind and does not
\* recurse without end, if no `else if` occurs, every function has a body, no constant
\* mentions itself through the names of other constants, no initialiser in front of the
\* first function or method asks for the return type, and no field has the name of
\* a constrained generic parameter of a union.
UndefinedOnlyIf ==
  phase = "undefined" =>
    \/ Words({"elseif"}) # {}
    \/ \E fn \in Functions : ~fn.body
    \/ MentionCycle
    \/ LeadingValue
    \/ UnionParameterUsed

\* The checker has defined behaviour on whatever the parser accepts, which is what
\* "Functional." says of --check.
NoUndefined == phase # "undefined"
=============================================================================
