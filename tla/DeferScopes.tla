---------------------------- MODULE DeferScopes ----------------------------
(***************************************************************************)
(* What `defer` promises, with no stack arrays and no levels: the walk     *)
(* over a function keeps the lexical scopes that are open, each with the   *)
(* expressions deferred in it so far, and the code written where control   *)
(* leaves some of them runs exactly their deferred expressions, innermost  *)
(* scope first, last deferred first.                                       *)
(*                                                                         *)
(* A run of deferred expressions is kept grouped by scope: group k is what *)
(* the k-th scope being left contributes.                                  *)
(***************************************************************************)
EXTENDS Naturals, Sequences, SequencesExt

CONSTANT Exprs   \* the expressions a program can defer

VARIABLES
  scopes,        \* the open scopes, outermost first
  at,            \* the exit just written: "end", "return", "jump" or "none"
  ran            \* what that exit runs, one group per scope left

Scope == [loop : BOOLEAN, defers : Seq(Exprs)]

\* The deferred expressions of the n innermost scopes, in the order they run.
Unwound(n) ==
  [k \in 1 .. n |-> Reverse(scopes[Len(scopes) - k + 1].defers)]

\* Scope j is the innermost loop body.
InnermostLoop(j) ==
  /\ scopes[j].loop
  /\ \A k \in j + 1 .. Len(scopes) : ~scopes[k].loop

Init ==
  /\ scopes = << >>
  /\ at = "none"
  /\ ran = << >>

Open(isLoop) ==
  /\ scopes' = Append(scopes, [loop |-> isLoop, defers |-> << >>])
  /\ at' = "none"
  /\ ran' = << >>

Defer(e) ==
  /\ scopes # << >>
  /\ scopes' = [scopes EXCEPT ![Len(scopes)].defers = Append(@, e)]
  /\ at' = "none"
  /\ ran' = << >>

\* Control runs off the end of the innermost scope.
End ==
  /\ scopes # << >>
  /\ at' = "end"
  /\ ran' = Unwound(1)
  /\ scopes' = Front(scopes)

\* `return` leaves every scope of the function. The walk goes on behind it.
Return ==
  /\ scopes # << >>
  /\ at' = "return"
  /\ ran' = Unwound(Len(scopes))
  /\ UNCHANGED scopes

\* `break` and `continue` leave every scope down to the innermost loop body;
\* outside every loop they leave none.
Jump ==
  /\ at' = "jump"
  /\ \/ \E j \in 1 .. Len(scopes) :
          /\ InnermostLoop(j)
          /\ ran' = Unwound(Len(scopes) - j + 1)
     \/ /\ \A j \in 1 .. Len(scopes) : ~scopes[j].loop
        /\ ran' = << >>
  /\ UNCHANGED scopes

\* Any other statement runs nothing.
Other ==
  /\ at' = "none"
  /\ ran' = << >>
  /\ UNCHANGED scopes

Next ==
  \/ \E isLoop \in BOOLEAN : Open(isLoop)
  \/ \E e \in Exprs : Defer(e)
  \/ End
  \/ Return
  \/ Jump
  \/ Other

Spec == Init /\ [][Next]_<<scopes, at, ran>>
=============================================================================
