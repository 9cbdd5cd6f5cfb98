----------------------------- MODULE TypeTable -----------------------------
(***************************************************************************)
(* The types of the checker (src/type.c): hash-consed records that are     *)
(* compared by address, and the implicit coercions between them.           *)
(*                                                                         *)
(* A pointer to an SType is [shape, serial]: the fields of the record, in  *)
(* which the component types are pointers again, and a number that tells   *)
(* two records with the same fields apart. hash_type_shape hashes nothing  *)
(* type_shape_eq does not compare, so a chain holds every candidate and    *)
(* the buckets are one set. The types without components are in the table  *)
(* from the start; the code enters them when they are first asked for.     *)
(***************************************************************************)
EXTENDS Integers, Sequences, FiniteSets

CONSTANTS
  IntTypes,     \* the integer types: records [signed, bits]
  FloatBits,    \* the widths of the floating-point types
  MaxTypeDepth, \* bound: constructors around one another in a type
  MaxLoose      \* bound: noreturn types made

ASSUME TypeTableAssumption ==
  /\ IntTypes \subseteq [signed : BOOLEAN, bits : Nat]
  /\ FloatBits \subseteq Nat
  /\ MaxTypeDepth \in Nat /\ MaxLoose \in Nat

VARIABLE types  \* [table: the interned types, loose: how many were made past it]

Pointer(shape, serial) == [shape |-> shape, serial |-> serial]

IntType(signed, bits) ==
  Pointer([kind |-> "int", signed |-> signed, bits |-> bits], 0)
FloatType(bits) == Pointer([kind |-> "float", bits |-> bits], 0)
Void == Pointer([kind |-> "void"], 0)
Bool == Pointer([kind |-> "bool"], 0)

\* The null pointer.
NULL == Pointer([kind |-> "null"], 0)

Kind(t) == t.shape.kind

BasicTypes ==
  {Void, Bool} \cup {IntType(i.signed, i.bits) : i \in IntTypes}
               \cup {FloatType(b) : b \in FloatBits}

TypesInit == types = [table |-> BasicTypes, loose |-> 0]

\* Mutant: a new record is entered without a search.
intern_type_always(store, shape) ==
  LET p == Pointer(shape, Cardinality({t \in store.table : t.shape = shape}))
  IN  [types |-> [store EXCEPT !.table = @ \cup {p}], type |-> p]

\* Mutant: a new record is not put into the chain.
intern_type_lost(store, shape) ==
  LET same == {t \in store.table : t.shape = shape}
  IN  [types |-> store,
       type |-> IF same # {} THEN CHOOSE t \in same : TRUE ELSE Pointer(shape, 0)]

\* The record of the shape in the table, a new one when there is none.
intern_type(store, shape) ==
  LET same == {t \in store.table : t.shape = shape}
      p == Pointer(shape, Cardinality(same))
  IN  IF same # {}
      THEN [types |-> store, type |-> CHOOSE t \in same : TRUE]
      ELSE [types |-> [store EXCEPT !.table = @ \cup {p}], type |-> p]

\* noreturn is made by sema_resolve_type and never looked up.
LooseNoReturn(n) == Pointer([kind |-> "noreturn"], n)
make_noreturn(store) ==
  [types |-> [store EXCEPT !.loose = @ + 1], type |-> LooseNoReturn(store.loose + 1)]

\* st_pointer, st_reference and st_slice
st_unary(store, kind, is_const, base) ==
  intern_type(store, [kind |-> kind, is_const |-> is_const, base |-> base])

st_array(store, size, base) ==
  intern_type(store, [kind |-> "array", size |-> size, base |-> base])

st_optional(store, base) == intern_type(store, [kind |-> "optional", base |-> base])

st_error_union(store, success, error) ==
  intern_type(store, [kind |-> "error_union", success |-> success, error |-> error])

st_function(store, params, ret) ==
  intern_type(store, [kind |-> "function", params |-> params, ret |-> ret])

\* st_from_ast of a name that is no primitive: a struct type, known by its name.
st_struct(store, name) == intern_type(store, [kind |-> "struct", name |-> name])

st_is_integer(t) == Kind(t) = "int"
st_is_numeric(t) == Kind(t) \in {"int", "float"}

-----------------------------------------------------------------------------
\* Mutant: a float becomes an integer on its own.
CoercesDirectly_float_to_int(from, to) ==
  \/ from = to
  \/ Kind(from) = "int" /\ Kind(to) = "int"
       /\ from.shape.signed = to.shape.signed /\ from.shape.bits <= to.shape.bits
  \/ Kind(from) = "float" /\ Kind(to) = "float" /\ from.shape.bits <= to.shape.bits
  \/ st_is_numeric(from) /\ st_is_numeric(to) /\ Kind(from) # Kind(to)

\* The rules of st_can_coerce that look at both types as they are.
CoercesDirectly(from, to) ==
  LET references == Kind(from) = "reference" /\ Kind(to) = "reference" IN
  \/ from = to
  \/ Kind(from) = "int" /\ Kind(to) = "int"
       /\ from.shape.signed = to.shape.signed /\ from.shape.bits <= to.shape.bits
  \/ Kind(from) = "float" /\ Kind(to) = "float" /\ from.shape.bits <= to.shape.bits
  \/ Kind(from) = "int" /\ Kind(to) = "float"
  \/ references /\ ~from.shape.is_const /\ to.shape.is_const
       /\ from.shape.base = to.shape.base
  \/ ~references /\ Kind(from) \in {"reference", "pointer"} /\ from.shape.base = to
  \/ ~references /\ Kind(to) = "reference" /\ to.shape.base = from

\* The types st_can_coerce calls itself with in place of `to`.
Inner(to) ==
  CASE Kind(to) = "optional" -> {to.shape.base}
    [] Kind(to) = "error_union" -> {to.shape.success, to.shape.error}
    [] OTHER -> {}

Targets(to) ==
  LET reach[k \in 0 .. MaxTypeDepth] ==
        IF k = 0 THEN {to}
        ELSE reach[k - 1] \cup UNION {Inner(t) : t \in reach[k - 1]}
  IN  IF Inner(to) = {} THEN {to} ELSE reach[MaxTypeDepth]

st_can_coerce(from, to) == \E t \in Targets(to) : CoercesDirectly(from, t)

-----------------------------------------------------------------------------
Components(t) ==
  CASE Kind(t) \in {"pointer", "reference", "slice", "array", "optional"} ->
         {t.shape.base}
    [] Kind(t) = "error_union" -> {t.shape.success, t.shape.error}
    [] Kind(t) = "function" ->
         {t.shape.params[i] : i \in 1 .. Len(t.shape.params)} \cup {t.shape.ret}
    [] OTHER -> {}

\* Comparing addresses is comparing types, which st_eq, every coercion and every
\* signature check of sema.c rely on: no shape is in the table twice, and the
\* components of a type in the table are in the table themselves. noreturn alone
\* is made past the table, so a type built around it equals nothing but itself.
Interned ==
  /\ \A t, u \in types.table : t.shape = u.shape => t = u
  /\ \A t \in types.table : \A c \in Components(t) :
       c \in types.table \/ Kind(c) = "noreturn"

\* A type whose values are not reached through a pointer or a reference.
Plain(t) == \A u \in Targets(t) : Kind(u) \notin {"pointer", "reference"}

\* A value that is converted twice could have been converted at once: among the
\* types of a program that are no pointers or references st_can_coerce is
\* transitive. The check of an array literal, which compares each element with the
\* type of the elements in front of it and only that type with the declared one,
\* depends on it. (Through a pointer it is not: *i64 to i64 and i64 to f64 are
\* coercions, *i64 to f64 is none.)
CoercionTransitive ==
  LET plain == {t \in types.table : Plain(t)}
      into == [t \in plain |-> {u \in plain : st_can_coerce(t, u)}]
  IN  \A t \in plain : \A u \in into[t] : into[u] \subseteq into[t]
=============================================================================
