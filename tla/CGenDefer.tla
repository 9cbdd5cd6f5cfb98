----------------------------- MODULE CGenDefer -----------------------------
(***************************************************************************)
(* The `defer` bookkeeping of the C backend (src/codegen_c.c).             *)
(*                                                                         *)
(* The emitter walks each function body once, statement by statement. It   *)
(* keeps a stack of defer levels (defer_stack, defer_depth) and, for each  *)
(* open loop, the defer level the loop was met at (loop_defer_base,        *)
(* loop_depth). Where control leaves a block it writes the deferred        *)
(* expressions of some of the levels.                                      *)
(*                                                                         *)
(* `calls` is the part of the syntax tree the walk is inside of: one frame *)
(* per cg_emit_block call (or slice-loop body) that has not returned. Each *)
(* step is one statement the walk meets next, chosen freely, so a          *)
(* behaviour is a walk over an arbitrary sequence of functions.            *)
(*                                                                         *)
(* cg_emit_block and the loop statements add one to their counter without  *)
(* a test and write to the array cell it names (codegen_c.c:317-318,       *)
(* 417-418, 499-500). So does the model: a program nested deep enough      *)
(* drives a counter to MAX_DEFER_DEPTH. The write behind the array is      *)
(* undefined behaviour; a walk that makes it goes no further here, and     *)
(* nothing is said of what the compiler does from there on.                *)
(*                                                                         *)
(* Left out: what expressions look like, indent and temp_counter, which    *)
(* only lay out and name the text. Deferred expressions hold no block of   *)
(* their own.                                                              *)
(***************************************************************************)
EXTENDS Integers, Sequences, SequencesExt

CONSTANTS
  Exprs,               \* the expressions a program can defer
  MAX_DEFER_DEPTH,     \* 64 in the source
  MAX_DEFERS_PER_BLOCK,\* 32 in the source
  LoopForms,           \* the loop statements the programs use
  TrailingFn,          \* may a function body end in a trailing expression?
  MaxNesting,          \* bound: blocks and loops open at once in a program
  MaxDefers            \* bound: defer statements written in one source block

SliceForm == "for_slice"

ASSUME CGenAssumption ==
  /\ MAX_DEFER_DEPTH \in Nat \ {0}
  /\ MAX_DEFERS_PER_BLOCK \in Nat \ {0}
  /\ MaxNesting \in Nat \ {0}
  /\ MaxDefers \in Nat
  /\ LoopForms \subseteq {"while", "for_range", SliceForm}
  /\ TrailingFn \in BOOLEAN

VARIABLES
  calls,           \* the open frames, outermost first
  defer_stack,     \* [0 .. MAX_DEFER_DEPTH-1 -> Seq(Exprs)]
  defer_depth,     \* -1 outside every block
  loop_defer_base, \* [0 .. MAX_DEFER_DEPTH-1 -> Int]
  loop_depth,
  emitted          \* what the last step wrote, as far as defer is concerned

vars == <<calls, defer_stack, defer_depth, loop_defer_base, loop_depth, emitted>>
cgen == <<defer_stack, defer_depth, loop_defer_base, loop_depth>>

Levels == 0 .. MAX_DEFER_DEPTH - 1

\* A frame: the source form, the defer statements met so far in its body, and
\* the two counters as they were when its body was entered.
Frame ==
  [form : {"fn", "block", "while", "for_range", SliceForm},
   defers : Seq(Exprs), depth : Int, loops : Int]

Top == calls[Len(calls)]

\* No write has gone behind the arrays.
InArrays == defer_depth < MAX_DEFER_DEPTH /\ loop_depth < MAX_DEFER_DEPTH

\* The walk is inside a function and goes on.
Walking == calls # << >> /\ InArrays

\* A step writes deferred expressions, grouped by level, behind `before` and in
\* front of the exit they belong to ("end" is the closing brace of a body).
Emission(before, groups, exit) ==
  [before |-> before, groups |-> groups, exit |-> exit]
Nothing == Emission("none", << >>, "none")

-----------------------------------------------------------------------------
\* cg_emit_defers: levels defer_depth down to downTo, each last to first.
cg_emit_defers(downTo) ==
  [k \in 1 .. defer_depth - downTo + 1 |->
     Reverse(defer_stack[defer_depth - k + 1])]

\* The frame of a body entered with the given counters.
NewFrame(form, depth, loops) ==
  [form |-> form, defers |-> << >>, depth |-> depth, loops |-> loops]

\* A write to cell i of an array; one behind its end is lost.
Written(array, i, value) ==
  [d \in Levels |-> IF d = i THEN value ELSE array[d]]

\* The opening half of cg_emit_block: a fresh, empty level.
OpenLevel ==
  /\ defer_depth' = defer_depth + 1
  /\ defer_stack' = Written(defer_stack, defer_depth + 1, << >>)

Init ==
  /\ calls = << >>
  /\ defer_stack = [d \in Levels |-> << >>]
  /\ defer_depth = -1
  /\ loop_defer_base = [d \in Levels |-> 0]
  /\ loop_depth = 0
  /\ emitted = Nothing

\* cg_emit_fn_def reaches the body of the next function of the unit.
FnDef ==
  /\ calls = << >>
  /\ OpenLevel
  /\ calls' = <<NewFrame("fn", defer_depth + 1, loop_depth)>>
  /\ emitted' = Nothing
  /\ UNCHANGED <<loop_defer_base, loop_depth>>

\* A bare block, a then or else block, an unsafe block.
BlockStmt ==
  /\ Walking
  /\ Len(calls) < MaxNesting
  /\ OpenLevel
  /\ calls' = Append(calls, NewFrame("block", defer_depth + 1, loop_depth))
  /\ emitted' = Nothing
  /\ UNCHANGED <<loop_defer_base, loop_depth>>

\* A while loop, or a for loop over a range.
LoopStmt(form) ==
  /\ form # SliceForm
  /\ Walking
  /\ Len(calls) < MaxNesting
  /\ loop_depth' = loop_depth + 1
  /\ loop_defer_base' = Written(loop_defer_base, loop_depth + 1, defer_depth)
  /\ OpenLevel
  /\ calls' = Append(calls, NewFrame(form, defer_depth + 1, loop_depth + 1))
  /\ emitted' = Nothing

\* A for loop over anything else: the body's statements are emitted in place,
\* with no defer level and no loop base of their own.
SliceLoopStmt ==
  /\ SliceForm \in LoopForms
  /\ Walking
  /\ Len(calls) < MaxNesting
  /\ calls' = Append(calls, NewFrame(SliceForm, defer_depth, loop_depth))
  /\ emitted' = Nothing
  /\ UNCHANGED cgen

\* Mutant: the limit of a level is not tested.
DeferStmt_unlimited(e) ==
  /\ Walking
  /\ Len(Top.defers) < MaxDefers
  /\ calls' = [calls EXCEPT ![Len(calls)].defers = Append(@, e)]
  /\ defer_stack' = [defer_stack EXCEPT ![defer_depth] = Append(@, e)]
  /\ emitted' = Nothing
  /\ UNCHANGED <<defer_depth, loop_defer_base, loop_depth>>

\* defer e; a full level drops the expression.
DeferStmt(e) ==
  /\ Walking
  /\ Len(Top.defers) < MaxDefers
  /\ calls' = [calls EXCEPT ![Len(calls)].defers = Append(@, e)]
  /\ defer_stack' =
       IF Len(defer_stack[defer_depth]) < MAX_DEFERS_PER_BLOCK
       THEN [defer_stack EXCEPT ![defer_depth] = Append(@, e)]
       ELSE defer_stack
  /\ emitted' = Nothing
  /\ UNCHANGED <<defer_depth, loop_defer_base, loop_depth>>

\* return; the value, if any, is written behind the deferred expressions.
ReturnStmt ==
  /\ Walking
  /\ emitted' = Emission("none", cg_emit_defers(0), "return")
  /\ UNCHANGED <<calls, defer_stack, defer_depth, loop_defer_base, loop_depth>>

\* Mutant: the level the loop statement itself is in is unwound too.
JumpStmt_one_level_more(jump) ==
  /\ Walking
  /\ emitted' =
       IF loop_depth > 0
       THEN Emission("none", cg_emit_defers(loop_defer_base[loop_depth]), jump)
       ELSE Emission("none", << >>, jump)
  /\ UNCHANGED <<calls, defer_stack, defer_depth, loop_defer_base, loop_depth>>

\* break and continue write the same code. Outside a loop that has a base they
\* write no deferred expression at all.
JumpStmt(jump) ==
  /\ Walking
  /\ emitted' =
       IF loop_depth > 0
       THEN Emission("none", cg_emit_defers(loop_defer_base[loop_depth] + 1), jump)
       ELSE Emission("none", << >>, jump)
  /\ UNCHANGED <<calls, defer_stack, defer_depth, loop_defer_base, loop_depth>>

\* Declarations, assignments, expressions; errdefer and match, which are
\* written as a comment.
OtherStmt ==
  /\ Walking
  /\ emitted' = Nothing
  /\ UNCHANGED <<calls, defer_stack, defer_depth, loop_defer_base, loop_depth>>

\* Mutant: the loop counter is not restored behind a loop body.
EndBlock_loop_left_open(trailing) ==
  /\ Walking
  /\ Top.form # SliceForm
  /\ (Top.form = "fn" /\ trailing) => TrailingFn
  /\ emitted' = Emission(IF ~trailing THEN "none"
                         ELSE IF Top.form = "fn" THEN "return" ELSE "value",
                         cg_emit_defers(defer_depth), "end")
  /\ defer_depth' = defer_depth - 1
  /\ loop_depth' = loop_depth
  /\ calls' = Front(calls)
  /\ UNCHANGED <<defer_stack, loop_defer_base>>

\* Mutant: the level is popped before its deferred expressions are written.
EndBlock_pop_first(trailing) ==
  /\ Walking
  /\ Top.form # SliceForm
  /\ (Top.form = "fn" /\ trailing) => TrailingFn
  /\ emitted' = Emission(IF ~trailing THEN "none"
                         ELSE IF Top.form = "fn" THEN "return" ELSE "value",
                         [k \in 1 .. 1 |-> IF defer_depth = 0 THEN << >>
                                          ELSE Reverse(defer_stack[defer_depth - 1])], "end")
  /\ defer_depth' = defer_depth - 1
  /\ loop_depth' = IF Top.form \in LoopForms THEN loop_depth - 1 ELSE loop_depth
  /\ calls' = Front(calls)
  /\ UNCHANGED <<defer_stack, loop_defer_base>>

\* Mutant: the level is not popped behind its deferred expressions.
EndBlock_level_left_open(trailing) ==
  /\ Walking
  /\ Top.form # SliceForm
  /\ (Top.form = "fn" /\ trailing) => TrailingFn
  /\ emitted' = Emission(IF ~trailing THEN "none"
                         ELSE IF Top.form = "fn" THEN "return" ELSE "value",
                         cg_emit_defers(defer_depth), "end")
  /\ defer_depth' = defer_depth
  /\ loop_depth' = IF Top.form \in LoopForms THEN loop_depth - 1 ELSE loop_depth
  /\ calls' = Front(calls)
  /\ UNCHANGED <<defer_stack, loop_defer_base>>

\* The closing half of cg_emit_block: the trailing expression (a `return` in a
\* function body), then the level's deferred expressions.
EndBlock(trailing) ==
  /\ Walking
  /\ Top.form # SliceForm
  /\ (Top.form = "fn" /\ trailing) => TrailingFn
  /\ emitted' = Emission(IF ~trailing THEN "none"
                         ELSE IF Top.form = "fn" THEN "return" ELSE "value",
                         cg_emit_defers(defer_depth), "end")
  /\ defer_depth' = defer_depth - 1
  /\ loop_depth' = IF Top.form \in LoopForms THEN loop_depth - 1 ELSE loop_depth
  /\ calls' = Front(calls)
  /\ UNCHANGED <<defer_stack, loop_defer_base>>

\* The end of a slice loop's body: no deferred expression is written.
EndSliceLoop ==
  /\ Walking
  /\ Top.form = SliceForm
  /\ emitted' = Emission("none", << << >> >>, "end")
  /\ calls' = Front(calls)
  /\ UNCHANGED cgen

Next ==
  \/ FnDef
  \/ BlockStmt
  \/ \E form \in LoopForms : LoopStmt(form)
  \/ SliceLoopStmt
  \/ \E e \in Exprs : DeferStmt(e)
  \/ ReturnStmt
  \/ \E jump \in {"break", "continue"} : JumpStmt(jump)
  \/ OtherStmt
  \/ \E trailing \in BOOLEAN : EndBlock(trailing)
  \/ EndSliceLoop

Spec == Init /\ [][Next]_vars

-----------------------------------------------------------------------------
\* No level holds more than it has room for, and a counter is at most one
\* beyond its array.
TypeOK ==
  /\ calls \in Seq(Frame)
  /\ Len(calls) <= MaxNesting
  /\ defer_stack \in [Levels -> Seq(Exprs)]
  /\ \A d \in Levels : Len(defer_stack[d]) <= MAX_DEFERS_PER_BLOCK
  /\ defer_depth \in -1 .. MAX_DEFER_DEPTH
  /\ loop_defer_base \in [Levels -> Levels]
  /\ loop_depth \in 0 .. MAX_DEFER_DEPTH
  /\ emitted \in [before : {"none", "value", "return"},
                  groups : Seq(Seq(Exprs)),
                  exit : {"none", "end", "return", "break", "continue"}]

\* After each nested statement, however deep, defer_depth and loop_depth are
\* again what they were when the body around it was entered, and behind a
\* function they are back at their initial values: levels opened by
\* cg_emit_block and loops entered by cg_emit_stmt are all closed again.
CountersRestored ==
  IF calls = << >>
  THEN defer_depth = -1 /\ loop_depth = 0
  ELSE defer_depth = Top.depth /\ loop_depth = Top.loops

\* While at most MAX_DEFER_DEPTH bodies are open, whatever the walk has been
\* through before, cg_emit_block and the loop statements write inside
\* defer_stack and loop_defer_base. (One more open block and they do not:
\* codegen_c.c:317 has no test.)
ArraysSuffice == Len(calls) <= MAX_DEFER_DEPTH => InArrays

\* What the emitted code really runs: code behind `return` is not reached.
Ran ==
  IF emitted.before = "return"
  THEN [k \in DOMAIN emitted.groups |-> << >>]
  ELSE emitted.groups

\* The lexical scopes the walk is in.
SourceScopes ==
  [i \in 1 .. Len(calls) |->
     [loop |-> calls[i].form \in LoopForms, defers |-> calls[i].defers]]

ExitKind ==
  IF emitted.exit \in {"break", "continue"} THEN "jump" ELSE emitted.exit

Scopes == INSTANCE DeferScopes
            WITH scopes <- SourceScopes, at <- ExitKind, ran <- Ran

\* The emitter implements the lexical reading of `defer`: the code it writes at
\* the end of a block, at return, break and continue runs the expressions
\* deferred so far in exactly the scopes being left, innermost first and last
\* deferred first.
RefinesScopes == Scopes!Spec

\* "LIFO cleanup on normal returns": where control leaves a function, by
\* return or at the closing brace of its body, the code that is reached runs
\* every expression deferred in the open scopes.
CleanupOnReturn ==
  [][(emitted'.exit = "return" \/ (emitted'.exit = "end" /\ Len(calls) = 1))
       => Ran' = [k \in 1 .. Len(calls) |->
                    Reverse(calls[Len(calls) - k + 1].defers)]]_vars

-----------------------------------------------------------------------------
(* The invariants the proofs use. *)

\* Each frame was entered with the counters of the frame around it, moved on
\* by what its own form opens; so the counters stay below the nesting.
ChainedAt(frames, i) ==
  /\ frames[i].depth \in 0 .. i - 1
  /\ frames[i].loops \in 0 .. i - 1
  /\ \A k \in 1 .. i : frames[k].loops <= frames[i].loops
  /\ frames[i].form \in {"fn", "block"} \cup LoopForms
  /\ i = 1 <=> frames[i].form = "fn"
  /\ i > 1 =>
       /\ frames[i].depth =
            frames[i - 1].depth + (IF frames[i].form = SliceForm THEN 0 ELSE 1)
       /\ frames[i].loops =
            frames[i - 1].loops
              + (IF frames[i].form \in LoopForms \ {SliceForm} THEN 1 ELSE 0)

FramesChained == \A i \in 1 .. Len(calls) : ChainedAt(calls, i)

BookkeepingInv == TypeOK /\ FramesChained /\ CountersRestored

\* Without slice loops, level i-1 holds what the i-th open body deferred, if
\* the array has that level.
LevelsMatchFrames ==
  \A i \in 1 .. Len(calls) :
    /\ calls[i].depth = i - 1
    /\ i - 1 \in Levels => defer_stack[i - 1] = calls[i].defers
    /\ Len(calls[i].defers) <= MaxDefers

\* Seen from any open body, the base recorded for its innermost loop is the
\* level just outside that loop's body; with no loop recorded, none is open.
LoopBaseAt(frames, base, i) ==
  IF frames[i].loops = 0
  THEN \A k \in 1 .. i : frames[k].form \notin LoopForms
  ELSE \E j \in 2 .. i :
         /\ base[frames[i].loops] = j - 2
         /\ frames[j].form \in LoopForms
         /\ \A k \in j + 1 .. i : frames[k].form \notin LoopForms

LoopBasesMatchFrames ==
  \A i \in 1 .. Len(calls) :
    i - 1 \in Levels => LoopBaseAt(calls, loop_defer_base, i)

LexicalInv == BookkeepingInv /\ LevelsMatchFrames /\ LoopBasesMatchFrames
=============================================================================
