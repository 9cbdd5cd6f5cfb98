---------------------------- MODULE SymbolTable ----------------------------
(***************************************************************************)
(* The symbol table (src/symbol.c): scopes of hash buckets, a chain of     *)
(* symbols per bucket with insertion at its head, lookup from a scope      *)
(* through its parents.                                                    *)
(*                                                                         *)
(* A scope is known by its place in `scopes`. Its parent links, set once   *)
(* by scope_new, are the sequence `path` from the module scope to itself.  *)
(* Scopes behind the one the checker returns to are dropped: nothing       *)
(* points to them any more but `children`, which nothing reads.            *)
(*                                                                         *)
(* A symbol is any record with a name and an id; the id, its rank among    *)
(* the symbols of the open scopes, stands for its address.                 *)
(***************************************************************************)
EXTENDS Integers, Sequences, FiniteSets, FiniteSetsExt

CONSTANTS
  Names,      \* the identifiers of the program
  BUCKETS,    \* SCOPE_BUCKETS, 32 in the source
  hash_sv(_), \* the hash of a name
  MaxScopes,  \* bound: open scopes
  MaxSymbols  \* bound: symbols in them

ASSUME SymbolTableAssumption ==
  /\ BUCKETS \in Nat \ {0}
  /\ \A n \in Names : hash_sv(n) \in Nat
  /\ MaxScopes \in Nat \ {0} /\ MaxSymbols \in Nat

VARIABLES scopes, current_scope

scopeVars == <<scopes, current_scope>>

NoSymbol == [id |-> 0]

Bucket(n) == hash_sv(n) % BUCKETS

EmptyBuckets == [b \in 0 .. BUCKETS - 1 |-> << >>]

\* The places of the symbols of the first k scopes: scope, bucket and rank in the
\* chain; how many there are.
Entries(k) ==
  UNION {{<<i, b, j>> : j \in 1 .. Len(scopes[i].buckets[b])} :
           i \in 1 .. k, b \in 0 .. BUCKETS - 1}

SymbolCount(k) == Cardinality(Entries(k))

NextId == SymbolCount(Len(scopes)) + 1

-----------------------------------------------------------------------------
\* The first symbol of the bucket's chain with the name.
scope_lookup_current(s, n) ==
  LET chain == scopes[s].buckets[Bucket(n)]
      hits == {i \in 1 .. Len(chain) : chain[i].name = n}
  IN  IF hits = {} THEN NoSymbol ELSE chain[Min(hits)]

Declares(s, n) ==
  LET chain == scopes[s].buckets[Bucket(n)]
  IN  \E i \in 1 .. Len(chain) : chain[i].name = n

\* The innermost scope on the way up that knows the name decides.
scope_lookup(s, n) ==
  LET path == scopes[s].path
      hits == {i \in 1 .. Len(path) : Declares(path[i], n)}
  IN  IF hits = {} THEN NoSymbol ELSE scope_lookup_current(path[Max(hits)], n)

\* scope_new under `parent`, made current by the caller; buckets holds what the
\* caller inserts at once.
scope_new(parent, buckets) ==
  /\ Len(scopes) < MaxScopes
  /\ scopes' = Append(scopes, [path |-> Append(scopes[parent].path, Len(scopes) + 1),
                               buckets |-> buckets])
  /\ current_scope' = Len(scopes) + 1

\* Mutant: a new symbol goes to the end of its chain.
Inserted_last(buckets, sym) == [buckets EXCEPT ![Bucket(sym.name)] = Append(@, sym)]

\* scope_insert: the new symbol becomes the head of its chain.
Inserted(buckets, sym) == [buckets EXCEPT ![Bucket(sym.name)] = <<sym>> \o @]

scope_insert(s, sym) ==
  /\ SymbolCount(Len(scopes)) < MaxSymbols
  /\ scopes' = [scopes EXCEPT ![s].buckets = Inserted(@, sym)]

\* current_scope = prev
ReturnTo(prev) ==
  /\ current_scope' = prev
  /\ scopes' = SubSeq(scopes, 1, prev)

\* sym->type = ...: the symbol scope_lookup_current finds is overwritten in place.
Overwrite(s, n, sym) ==
  scopes' = [scopes EXCEPT ![s].buckets[Bucket(n)] =
               [i \in 1 .. Len(@) |-> IF @[i].id = sym.id THEN sym ELSE @[i]]]

TableInit ==
  /\ scopes = <<[path |-> <<1>>, buckets |-> EmptyBuckets]>>
  /\ current_scope = 1

-----------------------------------------------------------------------------
(* The checker's part: what sema.c does with the table *)

\* The symbols of the bucket of a name behind a step, in the scope that is current
\* then.
ChainBehind(n) ==
  LET chain == scopes'[current_scope'].buckets[Bucket(n)] IN {chain[i] : i \in 1 .. Len(chain)}

\* A scope is opened inside the current one, empty or with one new symbol.
Open ==
  \/ scope_new(current_scope, EmptyBuckets)
  \/ \E n \in Names : \E sym \in ChainBehind(n) :
       /\ sym.name = n /\ sym.id = NextId
       /\ scope_new(current_scope, Inserted(EmptyBuckets, sym))

\* A new symbol goes into the current scope.
Insert ==
  \E n \in Names : \E sym \in ChainBehind(n) :
    /\ sym.name = n /\ sym.id = NextId
    /\ scope_insert(current_scope, sym)
    /\ UNCHANGED current_scope

\* A symbol of the current scope gets a type or an initialiser, and stays the symbol
\* it is.
Update ==
  \E n \in Names : \E sym \in ChainBehind(n) :
    /\ Declares(current_scope, n)
    /\ sym.name = n /\ sym.id = scope_lookup_current(current_scope, n).id
    /\ Overwrite(current_scope, n, sym)
    /\ UNCHANGED current_scope

\* The current scope is left for the one around it.
Close == current_scope > 1 /\ ReturnTo(current_scope - 1)

\* Scopes are opened and closed like brackets, on every path through the checker, and
\* only the innermost one is written to (the saved and restored current_scope of
\* sema.c).
TableSpec == TableInit /\ [][Open \/ Insert \/ Update \/ Close]_scopeVars

-----------------------------------------------------------------------------
\* The symbol every name means in the scopes on the way to the current one, and how
\* many there are.
Visible ==
  LET path == scopes[current_scope].path
  IN  [i \in 1 .. Len(path) |-> [means |-> [n \in Names |-> scope_lookup(path[i], n).id],
                                 size |-> SymbolCount(path[i])]]

Env == INSTANCE Environment WITH env <- Visible

\* Whatever the checker declares, opens and leaves, in whatever order: a name
\* means its newest declaration in the innermost open scope that has one, a scope
\* that is left gives every name back the meaning it had, and no declaration
\* disturbs another name of its bucket (scope_insert, scope_lookup, and the
\* saved and restored current_scope of sema.c).
RefinesEnvironment == Env!EnvSpec
=============================================================================
