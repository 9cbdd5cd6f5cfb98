---------------------------- MODULE Environment ----------------------------
(***************************************************************************)
(* What the symbol table promises the checker: block-structured names. At  *)
(* every nesting level there is a map from names to the declaration they   *)
(* mean, and the number of declarations that are open; opening a level     *)
(* copies both, a declaration changes what its name means in the innermost *)
(* level and nothing else, leaving a level brings back the one in front of *)
(* it. There are no scopes, chains or buckets here.                        *)
(***************************************************************************)
EXTENDS Integers, Sequences

CONSTANT Names  \* the identifiers of the program

VARIABLE env  \* the open levels, outermost first

\* A declaration is known by its rank; 0 is "undeclared".
EnvInit == env = <<[means |-> [n \in Names |-> 0], size |-> 0]>>

Declared(level, n) ==
  [means |-> [level.means EXCEPT ![n] = level.size + 1], size |-> level.size + 1]

\* The steps, as relations between the levels before and behind them.
Innermost(old) == old[Len(old)]

Enter(old, new) == new = Append(old, Innermost(old))

\* A level that comes with a name of its own.
EnterWith(old, new) == \E n \in Names : new = Append(old, Declared(Innermost(old), n))

Declare(old, new) == \E n \in Names : new = [old EXCEPT ![Len(old)] = Declared(@, n)]

Leave(old, new) == Len(old) > 1 /\ new = SubSeq(old, 1, Len(old) - 1)

EnvNext ==
  \E old \in {env}, new \in {env'} :
    new = old \/ Enter(old, new) \/ EnterWith(old, new) \/ Declare(old, new) \/ Leave(old, new)

EnvSpec == EnvInit /\ [][EnvNext]_env
=============================================================================
