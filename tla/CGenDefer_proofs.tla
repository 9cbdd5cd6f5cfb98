-------------------------- MODULE CGenDefer_proofs --------------------------
(***************************************************************************)
(* Proofs about CGenDefer, for every value of its constants: its           *)
(* bookkeeping, and that it implements DeferScopes when programs have no   *)
(* slice loop, no function body that ends in a trailing expression, and    *)
(* no block with more defer statements than a level has room for.          *)
(***************************************************************************)
EXTENDS CGenDefer, SequenceTheorems, TLAPS

\* Reversing keeps a sequence over S a sequence over S, of the same length.
LEMMA ReverseSeq ==
  ASSUME NEW S, NEW s \in Seq(S)
  PROVE  /\ Reverse(s) \in Seq(S)
         /\ Len(Reverse(s)) = Len(s)
<1>1. \A i \in 1 .. Len(s) : s[(Len(s) - i) + 1] \in S
  OBVIOUS
<1> QED BY <1>1 DEF Reverse

\* Dropping the last element.
LEMMA FrontSeq ==
  ASSUME NEW S, NEW s \in Seq(S), s # << >>
  PROVE  /\ Front(s) \in Seq(S)
         /\ Len(Front(s)) = Len(s) - 1
         /\ \A i \in 1 .. Len(s) - 1 : Front(s)[i] = s[i]
         /\ Len(s) \in Nat \ {0}
<1>1. Len(s) \in Nat \ {0}
  BY EmptySeq
<1>2. \A i \in 1 .. Len(s) - 1 : s[i] \in S
  BY <1>1
<1> DEFINE f == SubSeq(s, 1, Len(s) - 1)
<1>3. /\ f \in Seq(S)
      /\ Len(f) = IF 1 <= Len(s) - 1 THEN (Len(s) - 1) - 1 + 1 ELSE 0
      /\ \A i \in 1 .. (Len(s) - 1) - 1 + 1 : f[i] = s[1 + i - 1]
  BY <1>1, <1>2, SubSeqProperties
<1>4. Front(s) = f
  BY DEF Front
<1> HIDE DEF f
<1>5. \A i \in 1 .. Len(s) - 1 : f[i] = s[i]
  BY <1>1, <1>3
<1> QED BY <1>1, <1>3, <1>4, <1>5

\* What cg_emit_defers writes is one sequence of expressions per level.
LEMMA EmitDefersType ==
  ASSUME TypeOK, InArrays, NEW downTo \in Nat
  PROVE  cg_emit_defers(downTo) \in Seq(Seq(Exprs))
<1> DEFINE n == defer_depth - downTo + 1
<1>0. defer_depth \in Int /\ n \in Int /\ defer_depth < MAX_DEFER_DEPTH
  BY CGenAssumption DEF TypeOK, InArrays
<1>1. ASSUME NEW k \in 1 .. n
      PROVE  Reverse(defer_stack[defer_depth - k + 1]) \in Seq(Exprs)
  <2>1. defer_depth - k + 1 \in Levels
    BY <1>0, CGenAssumption DEF Levels
  <2>2. defer_stack[defer_depth - k + 1] \in Seq(Exprs)
    BY <2>1 DEF TypeOK
  <2> QED BY <2>2, ReverseSeq
<1>2. CASE n \in Nat
  BY <1>1, <1>2 DEF cg_emit_defers
<1>3. CASE n \notin Nat
  <2>1. 1 .. n = 1 .. 0
    BY <1>0, <1>3
  <2>2. cg_emit_defers(downTo) = << >>
    BY <2>1 DEF cg_emit_defers
  <2> QED BY <2>2
<1> QED BY <1>2, <1>3

-----------------------------------------------------------------------------
(* The bookkeeping: TypeOK and CountersRestored, whatever the programs use. *)

\* The form of a loop is never that of a function body or a plain block.
LEMMA FormsDisjoint == "fn" \notin LoopForms /\ "block" \notin LoopForms
BY CGenAssumption DEF SliceForm

LEMMA InitBookkeeping == Init => BookkeepingInv
<1> SUFFICES ASSUME Init PROVE BookkeepingInv
  OBVIOUS
<1>1. TypeOK
  BY CGenAssumption DEF Init, TypeOK, Levels, Nothing, Emission
<1>2. FramesChained /\ CountersRestored
  BY DEF Init, FramesChained, CountersRestored
<1> QED BY <1>1, <1>2 DEF BookkeepingInv

\* The counters of the innermost frame bound the two counters of CGen.
LEMMA CountersBounded ==
  ASSUME BookkeepingInv
  PROVE  /\ defer_depth \in -1 .. Len(calls) - 1
         /\ loop_depth \in 0 .. Len(calls)
         /\ calls # << >> => /\ Len(calls) \in 1 .. MaxNesting
                            /\ defer_depth \in 0 .. Len(calls) - 1
                            /\ loop_depth \in 0 .. Len(calls) - 1
                            /\ Top \in Frame
                            /\ defer_depth = Top.depth
                            /\ loop_depth = Top.loops
         /\ calls = << >> => defer_depth = -1 /\ loop_depth = 0 /\ Len(calls) = 0
<1>1. Len(calls) \in Nat /\ Len(calls) <= MaxNesting /\ calls \in Seq(Frame)
  BY DEF BookkeepingInv, TypeOK
<1>2. CASE calls = << >>
  BY <1>1, <1>2, EmptySeq DEF BookkeepingInv, CountersRestored
<1>3. CASE calls # << >>
  <2>1. Len(calls) \in 1 .. MaxNesting
    BY <1>1, <1>3, EmptySeq, CGenAssumption
  <2>2. Top \in Frame
    BY <1>1, <2>1 DEF Top
  <2>3. defer_depth = Top.depth /\ loop_depth = Top.loops
    BY <1>3 DEF BookkeepingInv, CountersRestored
  <2>4. Top.depth \in 0 .. Len(calls) - 1 /\ Top.loops \in 0 .. Len(calls) - 1
    <3>1. ChainedAt(calls, Len(calls))
      BY <2>1 DEF BookkeepingInv, FramesChained
    <3> QED BY <2>1, <3>1 DEF ChainedAt, Top
  <2> QED BY <1>3, <2>1, <2>2, <2>3, <2>4
<1> QED BY <1>2, <1>3

\* ChainedAt(frames, i) is about the first i frames only.
LEMMA ChainedLocal ==
  ASSUME NEW f, NEW g, NEW i \in Nat \ {0},
         \A k \in 1 .. i : /\ f[k].form = g[k].form
                           /\ f[k].depth = g[k].depth
                           /\ f[k].loops = g[k].loops,
         ChainedAt(f, i)
  PROVE  ChainedAt(g, i)
<1>1. i \in 1 .. i /\ (i > 1 => i - 1 \in 1 .. i)
  OBVIOUS
<1> QED BY <1>1 DEF ChainedAt

\* Entering a body keeps the frames chained.
LEMMA PushFrame ==
  ASSUME calls \in Seq(Frame), FramesChained, calls # << >>,
         NEW f \in Frame,
         calls' = Append(calls, f),
         f.form \in {"block"} \cup LoopForms,
         f.depth = Top.depth + (IF f.form = SliceForm THEN 0 ELSE 1),
         f.loops = Top.loops + (IF f.form \in LoopForms \ {SliceForm} THEN 1 ELSE 0)
  PROVE  FramesChained'
<1> DEFINE n == Len(calls)
<1>1. n \in Nat \ {0}
  BY EmptySeq
<1>2. /\ calls' \in Seq(Frame)
      /\ Len(calls') = n + 1
      /\ \A i \in 1 .. n : calls'[i] = calls[i]
      /\ calls'[n + 1] = f
  BY AppendProperties
<1>3. Top = calls[n]
  BY DEF Top
<1>4. \A i \in 1 .. n : ChainedAt(calls, i)
  BY DEF FramesChained
<1> HIDE DEF n
<1>5. ASSUME NEW i \in 1 .. n
      PROVE  ChainedAt(calls', i)
  <2>1. i \in Nat \ {0} /\ \A k \in 1 .. i : calls'[k] = calls[k]
    BY <1>1, <1>2
  <2> QED BY <2>1, <1>4, ChainedLocal
<1>6. ChainedAt(calls', n + 1)
  <2>1. /\ calls[n].depth \in 0 .. n - 1
        /\ calls[n].loops \in 0 .. n - 1
        /\ \A k \in 1 .. n : calls[k].loops <= calls[n].loops
        /\ \A k \in 1 .. n : calls[k].loops \in Int
    <3>1. n \in 1 .. n
      BY <1>1
    <3>2. \A k \in 1 .. n : calls[k].loops \in 0 .. k - 1
      BY <1>4 DEF ChainedAt
    <3> QED BY <1>1, <1>4, <3>1, <3>2 DEF ChainedAt
  <2>2. f.depth \in 0 .. n /\ f.loops \in 0 .. n /\ f.loops >= calls[n].loops
    BY <1>1, <1>3, <2>1
  <2>3. \A k \in 1 .. n + 1 : calls'[k].loops <= f.loops
    BY <1>1, <1>2, <2>1, <2>2
  <2>4. f.form # "fn" /\ n + 1 # 1 /\ (n + 1) - 1 = n
    BY <1>1, FormsDisjoint
  <2>5. calls'[n] = calls[n] /\ calls'[n + 1] = f
    BY <1>1, <1>2
  <2>6. /\ f.depth = calls'[n].depth + (IF f.form = SliceForm THEN 0 ELSE 1)
        /\ f.loops = calls'[n].loops
                       + (IF f.form \in LoopForms \ {SliceForm} THEN 1 ELSE 0)
    BY <1>3, <2>5
  <2>7. /\ f.depth \in 0 .. (n + 1) - 1 /\ f.loops \in 0 .. (n + 1) - 1
        /\ f.form \in {"fn", "block"} \cup LoopForms
        /\ n + 1 = 1 <=> f.form = "fn"
    BY <2>2, <2>4
  <2> HIDE DEF n
  <2> QED BY ONLY <2>3, <2>4, <2>5, <2>6, <2>7 DEF ChainedAt
<1>7. \A i \in 1 .. n + 1 : ChainedAt(calls', i)
  BY <1>1, <1>5, <1>6
<1> QED BY <1>2, <1>7 DEF FramesChained

\* Leaving a body keeps the frames chained.
LEMMA PopFrame ==
  ASSUME calls \in Seq(Frame), FramesChained, calls # << >>,
         calls' = Front(calls)
  PROVE  /\ calls' \in Seq(Frame)
         /\ Len(calls') = Len(calls) - 1
         /\ \A i \in 1 .. Len(calls) - 1 : calls'[i] = calls[i]
         /\ FramesChained'
<1>1. /\ Len(calls) \in Nat \ {0}
      /\ calls' \in Seq(Frame)
      /\ Len(calls') = Len(calls) - 1
      /\ \A i \in 1 .. Len(calls) - 1 : calls'[i] = calls[i]
  BY FrontSeq
<1>2. ASSUME NEW i \in 1 .. Len(calls')
      PROVE  ChainedAt(calls', i)
  <2>1. /\ i \in Nat \ {0} /\ ChainedAt(calls, i)
        /\ \A k \in 1 .. i : calls'[k] = calls[k]
    BY <1>1 DEF FramesChained
  <2> QED BY <2>1, ChainedLocal
<1> QED BY <1>1, <1>2 DEF FramesChained

\* While the walk goes on they index the arrays; a body opened now moves them
\* at most one beyond.
LEMMA CountersInArrays ==
  ASSUME BookkeepingInv
  PROVE  /\ defer_depth \in Int /\ loop_depth \in Nat
         /\ calls = << >> => InArrays
         /\ Walking => defer_depth \in Levels /\ loop_depth \in Levels
         /\ InArrays => /\ defer_depth + 1 \in 0 .. MAX_DEFER_DEPTH
                        /\ loop_depth + 1 \in 0 .. MAX_DEFER_DEPTH
<1>1. MAX_DEFER_DEPTH \in Nat \ {0}
  BY CGenAssumption
<1>2. /\ defer_depth \in -1 .. MAX_DEFER_DEPTH
      /\ loop_depth \in 0 .. MAX_DEFER_DEPTH
      /\ Len(calls) \in Nat
  BY DEF BookkeepingInv, TypeOK
<1>3. calls # << >> => defer_depth >= 0
  BY <1>2, CountersBounded
<1>4. calls = << >> => defer_depth = -1 /\ loop_depth = 0
  BY CountersBounded
<1> QED BY <1>1, <1>2, <1>3, <1>4 DEF Levels, InArrays, Walking

\* Where a write ends up.
LEMMA WrittenCells ==
  ASSUME NEW array, NEW i, NEW value
  PROVE  \A d \in Levels : Written(array, i, value)[d] = IF d = i THEN value ELSE array[d]
BY DEF Written

LEMMA WrittenType ==
  ASSUME NEW T, NEW array \in [Levels -> T], NEW i, NEW value \in T
  PROVE  Written(array, i, value) \in [Levels -> T]
BY DEF Written

\* A level opened from inside the arrays is at most one beyond them.
LEMMA OpenLevelType ==
  ASSUME BookkeepingInv, OpenLevel, InArrays
  PROVE  /\ defer_depth' \in 0 .. MAX_DEFER_DEPTH
         /\ defer_stack' \in [Levels -> Seq(Exprs)]
         /\ \A d \in Levels : Len(defer_stack'[d]) <= MAX_DEFERS_PER_BLOCK
<1>1. defer_depth' \in 0 .. MAX_DEFER_DEPTH
  BY CountersInArrays DEF OpenLevel
<1>2. /\ defer_stack \in [Levels -> Seq(Exprs)]
      /\ \A d \in Levels : Len(defer_stack[d]) <= MAX_DEFERS_PER_BLOCK
  BY DEF BookkeepingInv, TypeOK
<1>3. /\ << >> \in Seq(Exprs) /\ Len(<< >>) <= MAX_DEFERS_PER_BLOCK
  BY CGenAssumption
<1>4. defer_stack' = Written(defer_stack, defer_depth + 1, << >>)
  BY DEF OpenLevel
<1>5. defer_stack' \in [Levels -> Seq(Exprs)]
  BY <1>2, <1>3, <1>4, WrittenType
<1>6. ASSUME NEW d \in Levels PROVE Len(defer_stack'[d]) <= MAX_DEFERS_PER_BLOCK
  <2>1. defer_stack'[d] = IF d = defer_depth + 1 THEN << >> ELSE defer_stack[d]
    BY <1>4, WrittenCells
  <2> QED BY <1>2, <1>3, <2>1
<1> QED BY <1>1, <1>5, <1>6

\* Nothing written is a well-typed emission.
LEMMA NothingType ==
  Nothing \in [before : {"none", "value", "return"},
              groups : Seq(Seq(Exprs)),
              exit : {"none", "end", "return", "break", "continue"}]
BY DEF Nothing, Emission

\* Each action preserves the bookkeeping invariant.
LEMMA FnDefBookkeeping == ASSUME BookkeepingInv, FnDef PROVE BookkeepingInv'
<1> DEFINE f == NewFrame("fn", defer_depth + 1, loop_depth)
<1>1. calls = << >> /\ defer_depth = -1 /\ loop_depth = 0 /\ Len(calls) = 0
  BY CountersBounded DEF FnDef
<1>2. f \in Frame /\ f.depth = 0 /\ f.loops = 0 /\ f.form = "fn"
  BY <1>1 DEF NewFrame, Frame
<1>3. calls' = <<f>> /\ Len(calls') = 1 /\ calls'[1] = f /\ calls' # << >>
  BY DEF FnDef
<1> HIDE DEF f
<1>4. TypeOK'
  <2>1. calls' \in Seq(Frame) /\ Len(calls') <= MaxNesting
    BY <1>2, <1>3, CGenAssumption
  <2>2. /\ defer_depth' \in 0 .. MAX_DEFER_DEPTH
        /\ defer_stack' \in [Levels -> Seq(Exprs)]
        /\ \A d \in Levels : Len(defer_stack'[d]) <= MAX_DEFERS_PER_BLOCK
    BY <1>1, CountersInArrays, OpenLevelType DEF FnDef
  <2>3. defer_depth' \in -1 .. MAX_DEFER_DEPTH
    BY <2>2, CGenAssumption
  <2> QED BY <2>1, <2>2, <2>3, NothingType
          DEF FnDef, TypeOK, BookkeepingInv
<1>5. FramesChained'
  <2>1. ChainedAt(calls', 1)
    BY <1>2, <1>3 DEF ChainedAt
  <2> QED BY <1>3, <2>1 DEF FramesChained
<1>6. CountersRestored'
  <2>1. Top' = f
    BY <1>3 DEF Top
  <2>2. defer_depth' = 0 /\ loop_depth' = 0
    BY <1>1 DEF FnDef, OpenLevel
  <2> QED BY <1>2, <1>3, <2>1, <2>2 DEF CountersRestored
<1> QED BY <1>4, <1>5, <1>6 DEF BookkeepingInv

\* The three ways to enter a nested body share this argument.
LEMMA NestedBodyBookkeeping ==
  ASSUME BookkeepingInv, Walking, Len(calls) < MaxNesting,
         NEW f \in Frame,
         calls' = Append(calls, f),
         f.form \in {"block"} \cup LoopForms,
         f.depth = defer_depth + (IF f.form = SliceForm THEN 0 ELSE 1),
         f.loops = loop_depth + (IF f.form \in LoopForms \ {SliceForm} THEN 1 ELSE 0),
         defer_depth' = f.depth, loop_depth' = f.loops,
         defer_stack' \in [Levels -> Seq(Exprs)],
         \A d \in Levels : Len(defer_stack'[d]) <= MAX_DEFERS_PER_BLOCK,
         loop_defer_base' \in [Levels -> Levels],
         emitted' = Nothing
  PROVE  BookkeepingInv'
<1>1. /\ calls \in Seq(Frame)
      /\ Len(calls) \in 1 .. MaxNesting
      /\ defer_depth = Top.depth /\ loop_depth = Top.loops
      /\ loop_depth \in 0 .. Len(calls) - 1 /\ calls # << >>
  BY CountersBounded DEF BookkeepingInv, TypeOK, Walking
<1>2. /\ calls' \in Seq(Frame) /\ calls' # << >>
      /\ Len(calls') = Len(calls) + 1
      /\ calls'[Len(calls) + 1] = f
  BY <1>1, AppendProperties
<1>3. TypeOK'
  <2>1. Len(calls') <= MaxNesting
    BY <1>1, <1>2, CGenAssumption
  <2>2. /\ defer_depth \in Levels /\ loop_depth \in Levels
        /\ MAX_DEFER_DEPTH \in Nat
    BY CountersInArrays, CGenAssumption
  <2>3. /\ f.depth \in {defer_depth, defer_depth + 1}
        /\ f.loops \in {loop_depth, loop_depth + 1}
    BY <2>2 DEF Levels
  <2>4. /\ defer_depth' \in -1 .. MAX_DEFER_DEPTH
        /\ loop_depth' \in 0 .. MAX_DEFER_DEPTH
    BY <2>2, <2>3 DEF Levels
  <2> QED BY <1>2, <2>1, <2>4, NothingType DEF TypeOK
<1>4. FramesChained'
  BY <1>1, PushFrame DEF BookkeepingInv
<1>5. CountersRestored'
  BY <1>2 DEF CountersRestored, Top
<1> QED BY <1>3, <1>4, <1>5 DEF BookkeepingInv

LEMMA BlockStmtBookkeeping == ASSUME BookkeepingInv, BlockStmt PROVE BookkeepingInv'
<1> DEFINE f == NewFrame("block", defer_depth + 1, loop_depth)
<1>1. defer_depth \in Int /\ loop_depth \in Int
  BY CountersInArrays
<1>2. /\ f \in Frame /\ f.form = "block"
      /\ f.depth = defer_depth + 1 /\ f.loops = loop_depth
  BY <1>1 DEF NewFrame, Frame
<1>3. "block" # SliceForm
  BY DEF SliceForm
<1>4. /\ Walking /\ InArrays /\ Len(calls) < MaxNesting /\ calls' = Append(calls, f)
  BY DEF BlockStmt, Walking
<1> HIDE DEF f
<1> QED BY <1>1, <1>2, <1>3, <1>4, FormsDisjoint, OpenLevelType, NestedBodyBookkeeping
        DEF BlockStmt, OpenLevel, BookkeepingInv, TypeOK

LEMMA LoopStmtBookkeeping ==
  ASSUME BookkeepingInv, NEW form \in LoopForms, LoopStmt(form)
  PROVE  BookkeepingInv'
<1> DEFINE f == NewFrame(form, defer_depth + 1, loop_depth + 1)
<1>1. /\ Walking /\ InArrays /\ Len(calls) < MaxNesting /\ form # SliceForm
      /\ calls' = Append(calls, f)
  BY DEF LoopStmt, Walking
<1>2. defer_depth \in Levels /\ defer_depth \in Int /\ loop_depth \in Int
  BY <1>1, CountersInArrays
<1>3. /\ f \in Frame /\ f.form = form
      /\ f.depth = defer_depth + 1 /\ f.loops = loop_depth + 1
  BY <1>2, CGenAssumption DEF NewFrame, Frame
<1>4. loop_defer_base' \in [Levels -> Levels]
  BY <1>2, WrittenType DEF LoopStmt, BookkeepingInv, TypeOK
<1> HIDE DEF f
<1> QED BY <1>1, <1>2, <1>3, <1>4, OpenLevelType, NestedBodyBookkeeping
        DEF LoopStmt, OpenLevel

LEMMA SliceLoopStmtBookkeeping ==
  ASSUME BookkeepingInv, SliceLoopStmt PROVE BookkeepingInv'
<1> DEFINE f == NewFrame(SliceForm, defer_depth, loop_depth)
<1>1. /\ Walking /\ Len(calls) < MaxNesting /\ SliceForm \in LoopForms
      /\ calls' = Append(calls, f)
  BY DEF SliceLoopStmt
<1>2. defer_depth \in Levels /\ defer_depth \in Int /\ loop_depth \in Int
  BY <1>1, CountersInArrays
<1>3. /\ f \in Frame /\ f.form = SliceForm
      /\ f.depth = defer_depth /\ f.loops = loop_depth
  BY <1>2 DEF NewFrame, Frame
<1> HIDE DEF f
<1> QED BY <1>1, <1>2, <1>3, NestedBodyBookkeeping
        DEF SliceLoopStmt, cgen, BookkeepingInv, TypeOK

LEMMA DeferStmtBookkeeping ==
  ASSUME BookkeepingInv, NEW e \in Exprs, DeferStmt(e)
  PROVE  BookkeepingInv'
<1> DEFINE n == Len(calls)
           f == [calls[n] EXCEPT !.defers = Append(@, e)]
<1>1. /\ calls # << >> /\ calls \in Seq(Frame) /\ n \in Nat /\ n \in 1 .. n
      /\ defer_depth = Top.depth /\ loop_depth = Top.loops
  BY CountersBounded DEF DeferStmt, Walking, BookkeepingInv, TypeOK
<1>2. calls[n] \in Frame
  BY <1>1
<1>3. /\ f \in Frame
      /\ f.form = calls[n].form /\ f.depth = calls[n].depth /\ f.loops = calls[n].loops
  BY <1>2, AppendProperties DEF Frame
<1>4. calls' = [calls EXCEPT ![n] = f]
  BY <1>1 DEF DeferStmt
<1> HIDE DEF n, f
<1>5. /\ calls' \in Seq(Frame) /\ Len(calls') = Len(calls)
      /\ \A i \in 1 .. n : calls'[i] = IF i = n THEN f ELSE calls[i]
  BY <1>1, <1>3, <1>4, ExceptSeq DEF n
<1>6. \A i \in 1 .. n : /\ calls'[i].form = calls[i].form
                        /\ calls'[i].depth = calls[i].depth
                        /\ calls'[i].loops = calls[i].loops
  BY <1>3, <1>5
<1>7. TypeOK'
  <2>1. defer_depth \in Levels
    BY CountersInArrays DEF DeferStmt
  <2>2. defer_stack[defer_depth] \in Seq(Exprs)
    BY <2>1 DEF BookkeepingInv, TypeOK
  <2>3. /\ Append(defer_stack[defer_depth], e) \in Seq(Exprs)
        /\ Len(Append(defer_stack[defer_depth], e)) = Len(defer_stack[defer_depth]) + 1
    BY <2>2, AppendProperties
  <2>4. /\ defer_stack' \in [Levels -> Seq(Exprs)]
        /\ \A d \in Levels : Len(defer_stack'[d]) <= MAX_DEFERS_PER_BLOCK
    <3>1. CASE Len(defer_stack[defer_depth]) < MAX_DEFERS_PER_BLOCK
      <4>1. defer_stack' = [defer_stack EXCEPT ![defer_depth] = Append(@, e)]
        BY <3>1 DEF DeferStmt
      <4>2. Len(defer_stack[defer_depth]) + 1 <= MAX_DEFERS_PER_BLOCK
        BY <3>1, <2>2, CGenAssumption
      <4> QED BY <2>1, <2>3, <4>1, <4>2 DEF BookkeepingInv, TypeOK
    <3>2. CASE ~(Len(defer_stack[defer_depth]) < MAX_DEFERS_PER_BLOCK)
      BY <3>2 DEF DeferStmt, BookkeepingInv, TypeOK
    <3> QED BY <3>1, <3>2
  <2> QED BY <1>5, <2>4, NothingType DEF DeferStmt, BookkeepingInv, TypeOK
<1>8. FramesChained'
  <2> SUFFICES ASSUME NEW i \in 1 .. Len(calls')
               PROVE  ChainedAt(calls', i)
    BY DEF FramesChained
  <2>1. /\ i \in Nat \ {0} /\ i \in 1 .. n /\ ChainedAt(calls, i)
        /\ \A k \in 1 .. i : k \in 1 .. n
    BY <1>1, <1>5 DEF n, BookkeepingInv, FramesChained
  <2> QED BY <1>6, <2>1, ChainedLocal
<1>9. CountersRestored'
  <2>1. Top' = calls'[n] /\ Top = calls[n]
    BY <1>5 DEF Top, n
  <2>2. calls' # << >>
    BY <1>1, <1>5, EmptySeq DEF n
  <2> QED BY <1>1, <1>6, <2>1, <2>2 DEF CountersRestored, DeferStmt
<1> QED BY <1>7, <1>8, <1>9 DEF BookkeepingInv

\* return, break, continue and the other statements only write.
LEMMA WriteOnlyBookkeeping ==
  ASSUME BookkeepingInv,
         UNCHANGED <<calls, defer_stack, defer_depth, loop_defer_base, loop_depth>>,
         emitted' \in [before : {"none", "value", "return"},
                      groups : Seq(Seq(Exprs)),
                      exit : {"none", "end", "return", "break", "continue"}]
  PROVE  BookkeepingInv'
<1>1. TypeOK'
  BY DEF BookkeepingInv, TypeOK
<1>2. FramesChained' /\ CountersRestored'
  BY DEF BookkeepingInv, FramesChained, ChainedAt, CountersRestored, Top
<1> QED BY <1>1, <1>2 DEF BookkeepingInv

LEMMA ReturnStmtBookkeeping == ASSUME BookkeepingInv, ReturnStmt PROVE BookkeepingInv'
<1>1. cg_emit_defers(0) \in Seq(Seq(Exprs))
  BY EmitDefersType DEF BookkeepingInv, ReturnStmt, Walking
<1> QED BY <1>1, WriteOnlyBookkeeping DEF ReturnStmt, Emission

LEMMA JumpStmtBookkeeping ==
  ASSUME BookkeepingInv, NEW jump \in {"break", "continue"}, JumpStmt(jump)
  PROVE  BookkeepingInv'
<1>1. loop_defer_base[loop_depth] + 1 \in Nat
  <2>1. loop_defer_base[loop_depth] \in Levels
    BY CountersInArrays DEF BookkeepingInv, TypeOK, JumpStmt
  <2> QED BY <2>1, CGenAssumption DEF Levels
<1>2. cg_emit_defers(loop_defer_base[loop_depth] + 1) \in Seq(Seq(Exprs))
  BY <1>1, EmitDefersType DEF BookkeepingInv, JumpStmt, Walking
<1> QED BY <1>2, WriteOnlyBookkeeping DEF JumpStmt, Emission

LEMMA OtherStmtBookkeeping == ASSUME BookkeepingInv, OtherStmt PROVE BookkeepingInv'
BY WriteOnlyBookkeeping, NothingType DEF OtherStmt

\* Behind the end of a body the counters are those of the body around it.
LEMMA EndBlockBookkeeping ==
  ASSUME BookkeepingInv, NEW trailing \in BOOLEAN, EndBlock(trailing)
  PROVE  BookkeepingInv'
<1> DEFINE n == Len(calls)
<1>1. /\ calls # << >> /\ calls \in Seq(Frame) /\ n \in Nat \ {0} /\ n <= MaxNesting
      /\ defer_depth = Top.depth /\ loop_depth = Top.loops /\ Top = calls[n]
      /\ defer_depth \in 0 .. n - 1 /\ loop_depth \in 0 .. n - 1
      /\ Top.form # SliceForm /\ calls' = Front(calls)
  BY CountersBounded DEF EndBlock, Walking, BookkeepingInv, TypeOK, Top
<1>2. ChainedAt(calls, n)
  BY <1>1 DEF BookkeepingInv, FramesChained
<1>3. /\ calls' \in Seq(Frame) /\ Len(calls') = n - 1
      /\ \A i \in 1 .. n - 1 : calls'[i] = calls[i]
      /\ FramesChained'
  BY <1>1, PopFrame DEF BookkeepingInv
<1>4. ASSUME n = 1 PROVE CountersRestored' /\ loop_depth' \in Nat
  <2>1. calls' = << >>
    BY <1>3, <1>4, EmptySeq
  <2>2. calls[n].form = "fn"
    BY <1>2, <1>4 DEF ChainedAt
  <2>3. defer_depth' = -1 /\ loop_depth' = 0
    BY <1>1, <1>4, <2>2, FormsDisjoint DEF EndBlock
  <2>4. CountersRestored'
    BY <2>1, <2>3 DEF CountersRestored
  <2> QED BY <2>3, <2>4
<1>5. ASSUME n > 1 PROVE CountersRestored' /\ loop_depth' \in Nat
  <2>1. /\ calls[n].depth = calls[n - 1].depth + 1
        /\ calls[n].loops = calls[n - 1].loops
                              + (IF calls[n].form \in LoopForms THEN 1 ELSE 0)
    BY <1>1, <1>2, <1>5 DEF ChainedAt
  <2>2. Top' = calls[n - 1] /\ calls' # << >>
    BY <1>1, <1>3, <1>5, EmptySeq DEF Top
  <2>3. n - 1 \in 1 .. n /\ ChainedAt(calls, n - 1)
    BY <1>1, <1>5 DEF BookkeepingInv, FramesChained
  <2>4. calls[n - 1].depth \in Int /\ calls[n - 1].loops \in Nat
    BY <1>1, <2>3 DEF ChainedAt
  <2>5. defer_depth' = calls[n - 1].depth /\ loop_depth' = calls[n - 1].loops
    BY <1>1, <2>1, <2>4 DEF EndBlock
  <2>6. CountersRestored'
    BY <2>2, <2>5 DEF CountersRestored
  <2> QED BY <2>4, <2>5, <2>6
<1>6. CountersRestored' /\ loop_depth' \in Nat
  <2>1. n \in Nat \ {0}
    BY <1>1
  <2> HIDE DEF n
  <2>2. n = 1 \/ n > 1
    BY ONLY <2>1
  <2> QED BY <1>4, <1>5, <2>2
<1>7. TypeOK'
  <2>0. defer_depth \in Levels /\ loop_depth \in Levels
    BY CountersInArrays DEF EndBlock
  <2>1. defer_depth' \in -1 .. MAX_DEFER_DEPTH
    BY <2>0, CGenAssumption DEF EndBlock, Levels
  <2>2. loop_depth' \in 0 .. MAX_DEFER_DEPTH
    BY <1>6, <2>0, CGenAssumption DEF EndBlock, Levels
  <2>3. cg_emit_defers(defer_depth) \in Seq(Seq(Exprs))
    <3>1. TypeOK /\ InArrays
      BY DEF BookkeepingInv, EndBlock, Walking
    <3>2. defer_depth \in Nat
      BY <1>1
    <3> QED BY <3>1, <3>2, EmitDefersType
  <2>4. Len(calls') <= MaxNesting
    BY <1>1, <1>3, CGenAssumption
  <2> QED BY <1>3, <2>1, <2>2, <2>3, <2>4 DEF EndBlock, Emission, BookkeepingInv, TypeOK
<1> QED BY <1>3, <1>6, <1>7 DEF BookkeepingInv

LEMMA EndSliceLoopBookkeeping ==
  ASSUME BookkeepingInv, EndSliceLoop PROVE BookkeepingInv'
<1> DEFINE n == Len(calls)
<1>1. /\ calls # << >> /\ calls \in Seq(Frame) /\ n \in Nat \ {0} /\ n <= MaxNesting
      /\ defer_depth = Top.depth /\ loop_depth = Top.loops /\ Top = calls[n]
      /\ Top.form = SliceForm /\ calls' = Front(calls)
  BY CountersBounded DEF EndSliceLoop, Walking, BookkeepingInv, TypeOK, Top
<1>2. ChainedAt(calls, n)
  BY <1>1 DEF BookkeepingInv, FramesChained
<1>3. /\ calls' \in Seq(Frame) /\ Len(calls') = n - 1
      /\ \A i \in 1 .. n - 1 : calls'[i] = calls[i]
      /\ FramesChained'
  BY <1>1, PopFrame DEF BookkeepingInv
<1>4. n > 1
  <2>1. calls[n].form # "fn"
    BY <1>1 DEF SliceForm
  <2>2. n = 1 <=> calls[n].form = "fn"
    BY <1>2 DEF ChainedAt
  <2>3. n \in Nat \ {0}
    BY <1>1
  <2> HIDE DEF n
  <2> QED BY ONLY <2>1, <2>2, <2>3
<1>5. /\ calls[n].depth = calls[n - 1].depth + 0
      /\ calls[n].loops = calls[n - 1].loops + 0
  BY <1>1, <1>2, <1>4 DEF ChainedAt
<1>6. Top' = calls[n - 1] /\ calls' # << >>
  BY <1>1, <1>3, <1>4, EmptySeq DEF Top
<1>7. calls[n - 1].depth \in Int /\ calls[n - 1].loops \in Nat
  <2>1. n - 1 \in 1 .. n /\ ChainedAt(calls, n - 1)
    BY <1>1, <1>4 DEF BookkeepingInv, FramesChained
  <2> QED BY <1>1, <2>1 DEF ChainedAt
<1>8. CountersRestored'
  BY <1>1, <1>5, <1>6, <1>7 DEF CountersRestored, EndSliceLoop, cgen
<1>9. TypeOK'
  <2>1. Len(calls') <= MaxNesting
    BY <1>1, <1>3, CGenAssumption
  <2>2. << << >> >> \in Seq(Seq(Exprs))
    OBVIOUS
  <2> QED BY <1>3, <2>1, <2>2 DEF EndSliceLoop, cgen, Emission, BookkeepingInv, TypeOK
<1> QED BY <1>3, <1>8, <1>9 DEF BookkeepingInv

LEMMA BookkeepingStep == BookkeepingInv /\ [Next]_vars => BookkeepingInv'
<1> SUFFICES ASSUME BookkeepingInv, [Next]_vars PROVE BookkeepingInv'
  OBVIOUS
<1>1. CASE UNCHANGED vars
  <2>1. emitted' = emitted
    BY <1>1 DEF vars
  <2> QED BY <1>1, <2>1, WriteOnlyBookkeeping DEF vars, BookkeepingInv, TypeOK
<1>2. CASE Next
  BY <1>2, FnDefBookkeeping, BlockStmtBookkeeping, LoopStmtBookkeeping,
     SliceLoopStmtBookkeeping, DeferStmtBookkeeping, ReturnStmtBookkeeping,
     JumpStmtBookkeeping, OtherStmtBookkeeping, EndBlockBookkeeping,
     EndSliceLoopBookkeeping DEF Next
<1> QED BY <1>1, <1>2

\* For programs of any shape and any nesting, up to and including the step that
\* writes behind the arrays: the emitter puts no more expressions into a level
\* than it has room for, and neither counter gets further than one beyond its
\* array.
THEOREM TypeCorrect == Spec => []TypeOK
<1>1. BookkeepingInv => TypeOK
  BY DEF BookkeepingInv
<1> QED BY <1>1, InitBookkeeping, BookkeepingStep, PTL DEF Spec

\* For programs of any shape, slice loops and trailing expressions included,
\* defer_depth and loop_depth are restored behind every nested body.
THEOREM CountersAlwaysRestored == Spec => []CountersRestored
<1>1. BookkeepingInv => CountersRestored
  BY DEF BookkeepingInv
<1> QED BY <1>1, InitBookkeeping, BookkeepingStep, PTL DEF Spec

\* For programs of any shape and any nesting: as long as no more than
\* MAX_DEFER_DEPTH bodies are open, every index cg_emit_block, the loop
\* statements and cg_emit_defers use is inside defer_stack and
\* loop_defer_base, however many bodies were opened and closed before.
THEOREM NestingFits == Spec => []ArraysSuffice
<1>1. ASSUME BookkeepingInv PROVE ArraysSuffice
  <2>1. /\ Len(calls) \in Nat /\ MAX_DEFER_DEPTH \in Nat \ {0}
        /\ defer_depth \in Int /\ loop_depth \in Int
    BY <1>1, CGenAssumption, CountersInArrays DEF BookkeepingInv, TypeOK
  <2>2. calls = << >> => InArrays
    BY <1>1, CountersInArrays
  <2>3. calls # << >> => /\ defer_depth \in 0 .. Len(calls) - 1
                         /\ loop_depth \in 0 .. Len(calls) - 1
    BY <1>1, CountersBounded
  <2> QED BY <2>1, <2>2, <2>3 DEF ArraysSuffice, InArrays
<1> QED BY <1>1, InitBookkeeping, BookkeepingStep, PTL DEF Spec

-----------------------------------------------------------------------------
(* Refinement *)

\* The programs the refinement is about.
LexicalPrograms ==
  /\ SliceForm \notin LoopForms
  /\ MaxDefers <= MAX_DEFERS_PER_BLOCK

-----------------------------------------------------------------------------
(* The inductive invariant: levels and loop bases follow the source. *)

LEMMA InitLexical == Init => LexicalInv
BY InitBookkeeping
   DEF Init, LexicalInv, LevelsMatchFrames, LoopBasesMatchFrames

\* What LexicalInv says of the innermost body.
LEMMA InnermostLevel ==
  ASSUME LexicalInv
  PROVE  /\ Len(calls) \in Nat /\ calls \in Seq(Frame)
         /\ defer_depth = Len(calls) - 1
         /\ calls # << >> => Len(calls) \in 1 .. Len(calls)
<1>1. BookkeepingInv /\ LevelsMatchFrames
  BY DEF LexicalInv
<1>2. Len(calls) \in Nat /\ calls \in Seq(Frame)
  BY <1>1 DEF BookkeepingInv, TypeOK
<1>3. CASE calls = << >>
  BY <1>1, <1>2, <1>3, CountersBounded
<1>4. CASE calls # << >>
  <2>1. Len(calls) \in 1 .. Len(calls)
    BY <1>1, <1>4, CountersBounded
  <2>2. calls[Len(calls)].depth = Len(calls) - 1
    BY <1>1, <2>1 DEF LevelsMatchFrames
  <2>3. defer_depth = calls[Len(calls)].depth
    BY <1>1, <1>4, CountersBounded DEF Top
  <2> QED BY <1>2, <2>1, <2>2, <2>3
<1> QED BY <1>3, <1>4

\* LoopBaseAt(frames, base, i) looks at the first i frames, and at the base of
\* no more loops than frame i is in.
LEMMA LoopBaseLocal ==
  ASSUME NEW f, NEW g, NEW b, NEW c, NEW i \in Nat \ {0},
         \A k \in 1 .. i : f[k].form = g[k].form /\ f[k].loops = g[k].loops,
         f[i].loops # 0 => b[f[i].loops] = c[f[i].loops],
         LoopBaseAt(f, b, i)
  PROVE  LoopBaseAt(g, c, i)
<1>1. g[i].loops = f[i].loops
  OBVIOUS
<1>2. CASE f[i].loops = 0
  BY <1>1, <1>2 DEF LoopBaseAt
<1>3. CASE f[i].loops # 0
  <2>1. PICK j \in 2 .. i :
          /\ b[f[i].loops] = j - 2
          /\ f[j].form \in LoopForms
          /\ \A k \in j + 1 .. i : f[k].form \notin LoopForms
    BY <1>3 DEF LoopBaseAt
  <2>2. /\ c[g[i].loops] = j - 2
        /\ g[j].form \in LoopForms
        /\ \A k \in j + 1 .. i : g[k].form \notin LoopForms
    BY <1>1, <1>3, <2>1
  <2> QED BY <1>1, <1>3, <2>2 DEF LoopBaseAt
<1> QED BY <1>2, <1>3

\* Entering a body: its level is empty, and a loop's base is the level below.
LEMMA EnterBodyLexical ==
  ASSUME LexicalInv, BookkeepingInv',
         NEW f \in Frame, calls' = Append(calls, f),
         f.defers = << >>, f.depth = defer_depth + 1,
         defer_stack' = Written(defer_stack, defer_depth + 1, << >>),
         \/ /\ f.form \notin LoopForms
            /\ f.loops = loop_depth
            /\ UNCHANGED loop_defer_base
         \/ /\ f.form \in LoopForms
            /\ f.loops = loop_depth + 1
            /\ calls # << >>
            /\ loop_defer_base' = Written(loop_defer_base, loop_depth + 1, defer_depth),
         MaxDefers \in Nat
  PROVE  LexicalInv'
<1> DEFINE n == Len(calls)
<1>1. /\ n \in Nat /\ defer_depth = n - 1 /\ calls \in Seq(Frame)
      /\ BookkeepingInv
  BY InnermostLevel DEF LexicalInv
<1>2. /\ Len(calls') = n + 1
      /\ \A i \in 1 .. n : calls'[i] = calls[i]
      /\ calls'[n + 1] = f
  BY <1>1, AppendProperties
<1>3. MAX_DEFER_DEPTH \in Nat /\ defer_stack \in [Levels -> Seq(Exprs)]
  BY <1>1, CGenAssumption DEF BookkeepingInv, TypeOK
<1>4. /\ loop_depth \in Nat
      /\ loop_defer_base \in [Levels -> Levels]
      /\ calls # << >> => loop_depth + 1 \in 1 .. n
  BY <1>1, CountersInArrays, CountersBounded DEF BookkeepingInv, TypeOK
<1>5. LevelsMatchFrames /\ LoopBasesMatchFrames
  BY DEF LexicalInv
<1>6. \A i \in 1 .. n : calls[i].loops \in 0 .. loop_depth
  <2>1. CASE calls = << >>
    BY <1>1, <2>1
  <2>2. CASE calls # << >>
    <3>1. n \in 1 .. n /\ loop_depth = calls[n].loops
      BY <1>1, <2>2, CountersBounded, InnermostLevel DEF Top
    <3>2. \A i \in 1 .. n : ChainedAt(calls, i)
      BY <1>1 DEF BookkeepingInv, FramesChained
    <3>3. \A i \in 1 .. n : calls[i].loops <= calls[n].loops
      BY <3>1, <3>2 DEF ChainedAt
    <3>4. \A i \in 1 .. n : calls[i].loops \in 0 .. i - 1
      BY <3>2 DEF ChainedAt
    <3> QED BY <1>1, <3>1, <3>3, <3>4
  <2> QED BY <2>1, <2>2
<1>7. LevelsMatchFrames'
  <2> SUFFICES ASSUME NEW i \in 1 .. n + 1
               PROVE  /\ calls'[i].depth = i - 1
                      /\ i - 1 \in Levels => defer_stack'[i - 1] = calls'[i].defers
                      /\ Len(calls'[i].defers) <= MaxDefers
    BY <1>2 DEF LevelsMatchFrames
  <2>1. CASE i = n + 1
    <3>1. i - 1 \in Levels => defer_stack'[i - 1] = << >>
      BY <1>1, <2>1, WrittenCells
    <3> QED BY <1>1, <1>2, <2>1, <3>1
  <2>2. CASE i \in 1 .. n
    <3>1. i - 1 # n
      BY <1>1, <2>2
    <3>2. i - 1 \in Levels => defer_stack'[i - 1] = defer_stack[i - 1]
      BY <1>1, <3>1, WrittenCells
    <3> QED BY <1>2, <1>5, <2>2, <3>2 DEF LevelsMatchFrames
  <2> QED BY <1>1, <2>1, <2>2
<1>8. ASSUME NEW i \in 1 .. n, i - 1 \in Levels
      PROVE  LoopBaseAt(calls', loop_defer_base', i)
  <2>1. i \in Nat \ {0} /\ \A k \in 1 .. i : calls'[k] = calls[k]
    BY <1>1, <1>2
  <2>2. LoopBaseAt(calls, loop_defer_base, i)
    BY <1>5, <1>8 DEF LoopBasesMatchFrames
  <2>3. loop_defer_base'[calls[i].loops] = loop_defer_base[calls[i].loops]
    <3>1. calls[i].loops # loop_depth + 1
      BY <1>4, <1>6
    <3>2. calls[i].loops \in Levels
      <4>1. calls[i].loops \in 0 .. i - 1
        BY <1>1 DEF BookkeepingInv, FramesChained, ChainedAt
      <4> QED BY <1>3, <1>8, <4>1 DEF Levels
    <3> QED BY <1>4, <3>1, <3>2, WrittenCells
  <2> QED BY <2>1, <2>2, <2>3, LoopBaseLocal
<1>9. ASSUME n \in Levels
      PROVE  LoopBaseAt(calls', loop_defer_base', n + 1)
  <2>1. CASE f.form \in LoopForms
    <3>1. /\ f.loops = loop_depth + 1 /\ calls # << >>
          /\ loop_defer_base' = Written(loop_defer_base, loop_depth + 1, defer_depth)
      BY <2>1
    <3>2. n + 1 \in 2 .. n + 1
      BY <1>1, <3>1, InnermostLevel
    <3>3. loop_defer_base'[f.loops] = (n + 1) - 2 /\ f.loops # 0
      <4>1. f.loops \in Levels
        BY <1>1, <1>3, <1>4, <1>9, <3>1 DEF Levels
      <4> QED BY <1>1, <1>4, <3>1, <4>1, WrittenCells
    <3> DEFINE j == n + 1
    <3>4. /\ j \in 2 .. n + 1
          /\ loop_defer_base'[calls'[n + 1].loops] = j - 2
          /\ calls'[j].form \in LoopForms
          /\ \A k \in j + 1 .. n + 1 : calls'[k].form \notin LoopForms
          /\ calls'[n + 1].loops # 0
      BY <1>1, <1>2, <2>1, <3>2, <3>3
    <3> HIDE DEF j
    <3> QED BY <3>4 DEF LoopBaseAt
  <2>2. CASE f.form \notin LoopForms
    <3>1. f.loops = loop_depth /\ loop_defer_base' = loop_defer_base
      BY <2>2
    <3>2. CASE calls = << >>
      <4>1. n = 0 /\ loop_depth = 0
        BY <1>1, <3>2, CountersBounded
      <4> QED BY <1>2, <2>2, <3>1, <4>1 DEF LoopBaseAt
    <3>3. CASE calls # << >>
      <4>1. n \in 1 .. n /\ loop_depth = calls[n].loops
        BY <1>1, <3>3, CountersBounded, InnermostLevel DEF Top
      <4>2. LoopBaseAt(calls, loop_defer_base, n)
        <5>1. n - 1 \in Levels
          BY <1>1, <1>3, <1>9, <4>1 DEF Levels
        <5> QED BY <1>5, <4>1, <5>1 DEF LoopBasesMatchFrames
      <4>3. CASE loop_depth = 0
        <5>1. \A k \in 1 .. n : calls[k].form \notin LoopForms
          BY <4>1, <4>2, <4>3 DEF LoopBaseAt
        <5>2. \A k \in 1 .. n + 1 : calls'[k].form \notin LoopForms
          BY <1>1, <1>2, <2>2, <5>1
        <5> QED BY <1>2, <3>1, <4>3, <5>2 DEF LoopBaseAt
      <4>4. CASE loop_depth # 0
        <5>1. PICK j \in 2 .. n :
                /\ loop_defer_base[loop_depth] = j - 2
                /\ calls[j].form \in LoopForms
                /\ \A k \in j + 1 .. n : calls[k].form \notin LoopForms
          BY <4>1, <4>2, <4>4 DEF LoopBaseAt
        <5>2. /\ j \in 2 .. n + 1
              /\ calls'[j].form \in LoopForms
              /\ \A k \in j + 1 .. n + 1 : calls'[k].form \notin LoopForms
          BY <1>1, <1>2, <2>2, <5>1
        <5>3. loop_defer_base'[calls'[n + 1].loops] = j - 2 /\ calls'[n + 1].loops # 0
          BY <1>2, <3>1, <4>4, <5>1
        <5> QED BY <5>2, <5>3 DEF LoopBaseAt
      <4> QED BY <4>3, <4>4
    <3> QED BY <3>2, <3>3
  <2> QED BY <2>1, <2>2
<1>10. LoopBasesMatchFrames'
  <2>1. \A i \in 1 .. n + 1 : i - 1 \in Levels => LoopBaseAt(calls', loop_defer_base', i)
    <3> SUFFICES ASSUME NEW i \in 1 .. n + 1, i - 1 \in Levels
                 PROVE  LoopBaseAt(calls', loop_defer_base', i)
      OBVIOUS
    <3>1. CASE i = n + 1
      BY <1>1, <1>9, <3>1
    <3>2. CASE i \in 1 .. n
      BY <1>8, <3>2
    <3> QED BY <1>1, <3>1, <3>2
  <2> QED BY <1>2, <2>1 DEF LoopBasesMatchFrames
<1> QED BY <1>7, <1>10 DEF LexicalInv

\* Leaving a body: the remaining frames still have their levels and bases.
LEMMA LeaveBodyLexical ==
  ASSUME LexicalInv, BookkeepingInv', calls # << >>, calls' = Front(calls),
         UNCHANGED <<defer_stack, loop_defer_base>>
  PROVE  LexicalInv'
<1> DEFINE n == Len(calls)
<1>1. /\ n \in Nat \ {0}
      /\ Len(calls') = n - 1
      /\ \A i \in 1 .. n - 1 : calls'[i] = calls[i]
  BY InnermostLevel, FrontSeq
<1>2. LevelsMatchFrames /\ LoopBasesMatchFrames
  BY DEF LexicalInv
<1>3. \A i \in 1 .. n - 1 : i \in 1 .. n /\ i \in Nat \ {0}
  BY <1>1
<1>4. LevelsMatchFrames'
  BY <1>1, <1>2, <1>3 DEF LevelsMatchFrames
<1>5. LoopBasesMatchFrames'
  <2> SUFFICES ASSUME NEW i \in 1 .. n - 1, i - 1 \in Levels
               PROVE  LoopBaseAt(calls', loop_defer_base', i)
    BY <1>1 DEF LoopBasesMatchFrames
  <2>1. LoopBaseAt(calls, loop_defer_base, i)
    BY <1>2, <1>3 DEF LoopBasesMatchFrames
  <2>2. \A k \in 1 .. i : calls'[k] = calls[k]
    BY <1>1, <1>3
  <2> QED BY <1>3, <2>1, <2>2, LoopBaseLocal
<1> QED BY <1>4, <1>5 DEF LexicalInv

\* defer e; the level has room, so frame and level grow alike.
LEMMA DeferStmtLexical ==
  ASSUME LexicalPrograms, LexicalInv, BookkeepingInv',
         NEW e \in Exprs, DeferStmt(e)
  PROVE  /\ LexicalInv'
         /\ Len(calls') = Len(calls)
         /\ \A i \in 1 .. Len(calls) :
              /\ calls'[i].form = calls[i].form
              /\ calls'[i].defers = IF i = Len(calls) THEN Append(calls[i].defers, e)
                                    ELSE calls[i].defers
<1> DEFINE n == Len(calls)
           f == [calls[n] EXCEPT !.defers = Append(@, e)]
<1>1. /\ calls # << >> /\ n \in 1 .. n /\ n \in Nat /\ calls \in Seq(Frame)
      /\ defer_depth = n - 1 /\ BookkeepingInv
  BY InnermostLevel DEF DeferStmt, Walking, LexicalInv
<1>2. calls[n] \in Frame /\ calls[n].defers \in Seq(Exprs)
  <2>1. calls[n] \in Frame
    BY <1>1
  <2> QED BY <2>1 DEF Frame
<1>3. /\ f \in Frame /\ f.form = calls[n].form /\ f.depth = calls[n].depth
      /\ f.loops = calls[n].loops /\ f.defers = Append(calls[n].defers, e)
  BY <1>2, AppendProperties DEF Frame
<1>4. calls' = [calls EXCEPT ![n] = f]
  BY <1>1 DEF DeferStmt
<1>5. n - 1 \in Levels /\ defer_stack \in [Levels -> Seq(Exprs)]
  BY <1>1, CountersInArrays DEF DeferStmt, BookkeepingInv, TypeOK
<1>6. LevelsMatchFrames /\ LoopBasesMatchFrames
  BY DEF LexicalInv
<1>7. /\ defer_stack[n - 1] = calls[n].defers
      /\ Len(calls[n].defers) < MaxDefers
  BY <1>1, <1>5, <1>6 DEF LevelsMatchFrames, DeferStmt, Top
<1>8. Len(calls[n].defers) < MAX_DEFERS_PER_BLOCK
  <2>1. Len(calls[n].defers) \in Nat
    BY <1>2
  <2> QED BY <1>7, <2>1, CGenAssumption DEF LexicalPrograms
<1>9. defer_stack' = [defer_stack EXCEPT ![n - 1] = Append(calls[n].defers, e)]
  BY <1>1, <1>5, <1>7, <1>8 DEF DeferStmt
<1> HIDE DEF n, f
<1>10. /\ Len(calls') = n
       /\ \A i \in 1 .. n : calls'[i] = IF i = n THEN f ELSE calls[i]
  BY <1>1, <1>3, <1>4, ExceptSeq DEF n
<1>11. \A i \in 1 .. n :
         /\ calls'[i].form = calls[i].form
         /\ calls'[i].depth = calls[i].depth
         /\ calls'[i].loops = calls[i].loops
         /\ calls'[i].defers = IF i = n THEN Append(calls[i].defers, e)
                               ELSE calls[i].defers
  BY <1>3, <1>10
<1>12. LevelsMatchFrames'
  <2> SUFFICES ASSUME NEW i \in 1 .. n
               PROVE  /\ calls'[i].depth = i - 1
                      /\ i - 1 \in Levels => defer_stack'[i - 1] = calls'[i].defers
                      /\ Len(calls'[i].defers) <= MaxDefers
    BY <1>10 DEF LevelsMatchFrames
  <2>1. /\ calls[i].depth = i - 1
        /\ i - 1 \in Levels => defer_stack[i - 1] = calls[i].defers
        /\ Len(calls[i].defers) <= MaxDefers
    BY <1>6 DEF LevelsMatchFrames, n
  <2>2. CASE i = n
    <3>1. Len(Append(calls[n].defers, e)) = Len(calls[n].defers) + 1
      BY <1>2, AppendProperties
    <3>2. Len(calls[n].defers) \in Nat
      BY <1>2
    <3>3. Len(calls[n].defers) + 1 <= MaxDefers
      BY <1>7, <3>2, CGenAssumption
    <3> QED BY <1>5, <1>9, <1>11, <2>1, <2>2, <3>1, <3>3
  <2>3. CASE i # n
    <3>1. i - 1 \in Levels /\ i - 1 # n - 1
      BY <1>1, <1>5, <2>3, CGenAssumption DEF Levels
    <3>2. defer_stack'[i - 1] = defer_stack[i - 1]
      BY <1>5, <1>9, <3>1
    <3> QED BY <1>11, <2>1, <2>3, <3>2
  <2> QED BY <2>2, <2>3
<1>13. LoopBasesMatchFrames'
  <2> SUFFICES ASSUME NEW i \in 1 .. n, i - 1 \in Levels
               PROVE  LoopBaseAt(calls', loop_defer_base', i)
    BY <1>10 DEF LoopBasesMatchFrames
  <2>1. LoopBaseAt(calls, loop_defer_base, i) /\ i \in Nat \ {0}
    BY <1>1, <1>6 DEF LoopBasesMatchFrames, n
  <2>2. \A k \in 1 .. i : k \in 1 .. n
    BY <1>1
  <2>3. loop_defer_base' = loop_defer_base
    BY DEF DeferStmt
  <2> QED BY <1>11, <2>1, <2>2, <2>3, LoopBaseLocal
<1> QED BY <1>10, <1>11, <1>12, <1>13 DEF LexicalInv, n

\* Steps that only write.
LEMMA WriteOnlyLexical ==
  ASSUME LexicalInv, BookkeepingInv',
         UNCHANGED <<calls, defer_stack, defer_depth, loop_defer_base, loop_depth>>
  PROVE  LexicalInv'
BY DEF LexicalInv, LevelsMatchFrames, LoopBasesMatchFrames, LoopBaseAt

-----------------------------------------------------------------------------
(* The step simulation. *)

\* The abstract specification uses the same operators on sequences.
LEMMA SameReverse == \A s : Scopes!Reverse(s) = Reverse(s)
BY DEF Reverse, Scopes!Reverse

LEMMA SameFront == \A s : Scopes!Front(s) = Front(s)
BY DEF Front, Scopes!Front

\* The source scopes are one record per frame.
LEMMA SourceScopesSeq ==
  ASSUME calls \in Seq(Frame)
  PROVE  /\ SourceScopes \in Seq(Scopes!Scope)
         /\ Len(SourceScopes) = Len(calls)
         /\ \A i \in 1 .. Len(calls) :
              SourceScopes[i] = [loop |-> calls[i].form \in LoopForms,
                                 defers |-> calls[i].defers]
         /\ \A i \in 1 .. Len(calls) : SourceScopes[i].defers = calls[i].defers
         /\ \A i \in 1 .. Len(calls) :
              SourceScopes[i].loop <=> calls[i].form \in LoopForms
         /\ calls = << >> => SourceScopes = << >>
         /\ calls # << >> => SourceScopes # << >>
<1> DEFINE n == Len(calls)
           s(i) == [loop |-> calls[i].form \in LoopForms, defers |-> calls[i].defers]
<1>1. n \in Nat
  OBVIOUS
<1>2. \A i \in 1 .. n : s(i) \in Scopes!Scope
  <2> SUFFICES ASSUME NEW i \in 1 .. n PROVE s(i) \in Scopes!Scope
    OBVIOUS
  <2>1. calls[i] \in Frame
    OBVIOUS
  <2>2. calls[i].defers \in Seq(Exprs)
    BY <2>1 DEF Frame
  <2> QED BY <2>2 DEF Scopes!Scope
<1>3. SourceScopes = [i \in 1 .. n |-> s(i)]
  BY DEF SourceScopes
<1> HIDE DEF s
<1>4. /\ SourceScopes \in Seq(Scopes!Scope)
      /\ Len(SourceScopes) = n
      /\ \A i \in 1 .. n : SourceScopes[i] = s(i)
  BY <1>1, <1>2, <1>3
<1>5. (calls = << >> => n = 0) /\ (calls # << >> => n # 0)
  BY EmptySeq
<1>6. \A i \in 1 .. n : s(i).defers = calls[i].defers
  BY DEF s
<1>7. \A i \in 1 .. n : s(i).loop <=> calls[i].form \in LoopForms
  BY DEF s
<1>8. (calls = << >> => SourceScopes = << >>) /\ (calls # << >> => SourceScopes # << >>)
  BY <1>4, <1>5, EmptySeq
<1>9. \A i \in 1 .. n : SourceScopes[i] = [loop |-> calls[i].form \in LoopForms,
                                          defers |-> calls[i].defers]
  BY <1>4 DEF s
<1> QED BY <1>1, <1>4, <1>6, <1>7, <1>8, <1>9

\* What cg_emit_defers(downTo) writes is what leaving the scopes from the
\* innermost down to scope downTo + 1 has to run.
LEMMA EmitIsUnwind ==
  ASSUME LexicalInv, InArrays, NEW downTo \in 0 .. Len(calls)
  PROVE  cg_emit_defers(downTo) = Scopes!Unwound(Len(calls) - downTo)
<1> DEFINE n == Len(calls)
<1>1. n \in Nat /\ calls \in Seq(Frame) /\ defer_depth = n - 1
  BY InnermostLevel
<1>2. Len(SourceScopes) = n
  BY <1>1, SourceScopesSeq
<1>3. defer_depth - downTo + 1 = n - downTo
  BY <1>1
<1>4. ASSUME NEW k \in 1 .. n - downTo
      PROVE  Reverse(defer_stack[defer_depth - k + 1])
               = Reverse(SourceScopes[n - k + 1].defers)
  <2>1. n - k + 1 \in 1 .. n /\ defer_depth - k + 1 = (n - k + 1) - 1
    BY <1>1
  <2>2. defer_stack[(n - k + 1) - 1] = calls[n - k + 1].defers
    <3>1. n - 1 < MAX_DEFER_DEPTH /\ MAX_DEFER_DEPTH \in Nat
      BY <1>1, CGenAssumption DEF InArrays
    <3>2. (n - k + 1) - 1 \in Levels
      BY <1>1, <2>1, <3>1 DEF Levels
    <3> QED BY <2>1, <3>2 DEF LexicalInv, LevelsMatchFrames
  <2>3. SourceScopes[n - k + 1].defers = calls[n - k + 1].defers
    BY <1>1, <2>1, SourceScopesSeq
  <2> QED BY <2>1, <2>2, <2>3
<1>5. cg_emit_defers(downTo) =
        [k \in 1 .. n - downTo |-> Reverse(defer_stack[defer_depth - k + 1])]
  BY <1>3 DEF cg_emit_defers
<1>6. Scopes!Unwound(n - downTo) =
        [k \in 1 .. n - downTo |-> Reverse(SourceScopes[n - k + 1].defers)]
  BY <1>2, SameReverse DEF Scopes!Unwound
<1> QED BY <1>4, <1>5, <1>6

\* Opening a body appends a scope.
LEMMA OpenSimulated ==
  ASSUME calls \in Seq(Frame), NEW f \in Frame, calls' = Append(calls, f),
         f.defers = << >>, emitted' = Nothing
  PROVE  Scopes!Open(f.form \in LoopForms)
<1> DEFINE n == Len(calls)
           new == [loop |-> f.form \in LoopForms, defers |-> f.defers]
<1>1. /\ n \in Nat /\ calls' \in Seq(Frame) /\ Len(calls') = n + 1
      /\ \A i \in 1 .. n : calls'[i] = calls[i]
      /\ calls'[n + 1] = f
  BY AppendProperties
<1>2. /\ SourceScopes \in Seq(Scopes!Scope) /\ Len(SourceScopes) = n
      /\ \A i \in 1 .. n :
           SourceScopes[i] = [loop |-> calls[i].form \in LoopForms,
                              defers |-> calls[i].defers]
  BY SourceScopesSeq
<1>3. SourceScopes' =
        [i \in 1 .. n + 1 |-> [loop |-> calls'[i].form \in LoopForms,
                              defers |-> calls'[i].defers]]
  BY <1>1 DEF SourceScopes
<1>4. new \in Scopes!Scope
  BY DEF Frame, Scopes!Scope
<1>5. /\ Append(SourceScopes, new) \in Seq(Scopes!Scope)
      /\ Len(Append(SourceScopes, new)) = n + 1
      /\ \A i \in 1 .. n : Append(SourceScopes, new)[i] = SourceScopes[i]
      /\ Append(SourceScopes, new)[n + 1] = new
  BY <1>2, <1>4, AppendProperties
<1> DEFINE t == Append(SourceScopes, new)
<1>6. SourceScopes' = t
  <2>1. t = [i \in 1 .. n + 1 |-> t[i]]
    BY <1>1, <1>5
  <2> HIDE DEF t
  <2>2. ASSUME NEW i \in 1 .. n + 1
        PROVE  t[i] = [loop |-> calls'[i].form \in LoopForms,
                       defers |-> calls'[i].defers]
    <3>1. CASE i = n + 1
      BY <1>1, <1>5, <3>1 DEF t
    <3>2. CASE i \in 1 .. n
      BY <1>1, <1>2, <1>5, <3>2 DEF t
    <3> QED BY <1>1, <3>1, <3>2
  <2> QED BY <1>3, <2>1, <2>2
<1>7. ExitKind' = "none" /\ Ran' = << >>
  BY DEF ExitKind, Ran, Nothing, Emission
<1> QED BY <1>6, <1>7 DEF Scopes!Open

\* Closing a body removes the innermost scope and runs what it deferred.
LEMMA EndSimulated ==
  ASSUME LexicalInv, ~TrailingFn, NEW trailing \in BOOLEAN, EndBlock(trailing)
  PROVE  Scopes!End
<1> DEFINE n == Len(calls)
<1>1. /\ calls # << >> /\ calls \in Seq(Frame) /\ n \in Nat \ {0} /\ defer_depth = n - 1
      /\ calls' = Front(calls) /\ InArrays
  BY InnermostLevel DEF EndBlock, Walking
<1>2. /\ calls' \in Seq(Frame) /\ Len(calls') = n - 1
      /\ \A i \in 1 .. n - 1 : calls'[i] = calls[i]
  BY <1>1, FrontSeq
<1>3. /\ SourceScopes \in Seq(Scopes!Scope) /\ Len(SourceScopes) = n /\ SourceScopes # << >>
      /\ \A i \in 1 .. n :
           SourceScopes[i] = [loop |-> calls[i].form \in LoopForms,
                              defers |-> calls[i].defers]
  BY <1>1, SourceScopesSeq
<1> DEFINE t == Front(SourceScopes)
<1>4. /\ t \in Seq(Scopes!Scope) /\ Len(t) = n - 1
      /\ \A i \in 1 .. n - 1 : t[i] = SourceScopes[i]
  BY <1>3, FrontSeq
<1> HIDE DEF t
<1>5. SourceScopes' = t
  <2>1. SourceScopes' =
          [i \in 1 .. n - 1 |-> [loop |-> calls'[i].form \in LoopForms,
                                defers |-> calls'[i].defers]]
    BY <1>2 DEF SourceScopes
  <2>2. t = [i \in 1 .. n - 1 |-> t[i]]
    BY <1>4
  <2>3. \A i \in 1 .. n - 1 : t[i] = [loop |-> calls'[i].form \in LoopForms,
                                      defers |-> calls'[i].defers]
    <3> SUFFICES ASSUME NEW i \in 1 .. n - 1
                 PROVE  t[i] = [loop |-> calls'[i].form \in LoopForms,
                                defers |-> calls'[i].defers]
      OBVIOUS
    <3>1. i \in 1 .. n
      BY <1>1
    <3>2. calls'[i] = calls[i] /\ t[i] = SourceScopes[i]
      BY <1>2, <1>4
    <3> QED BY <1>3, <3>1, <3>2
  <2> QED BY <2>1, <2>2, <2>3
<1>6. cg_emit_defers(defer_depth) = Scopes!Unwound(1)
  <2>1. n - 1 \in 0 .. n /\ n - (n - 1) = 1
    BY <1>1
  <2> QED BY <1>1, <2>1, EmitIsUnwind
<1>7. emitted'.before # "return" /\ emitted'.exit = "end"
      /\ emitted'.groups = cg_emit_defers(defer_depth)
  BY DEF EndBlock, Emission
<1>8. ExitKind' = "end" /\ Ran' = Scopes!Unwound(1)
  BY <1>6, <1>7 DEF ExitKind, Ran
<1>9. t = Scopes!Front(SourceScopes)
  BY SameFront DEF t
<1> QED BY <1>3, <1>5, <1>8, <1>9 DEF Scopes!End

\* return runs what every open scope deferred.
LEMMA ReturnSimulated ==
  ASSUME LexicalInv, ReturnStmt
  PROVE  Scopes!Return
<1>1. /\ Len(calls) \in Nat /\ calls \in Seq(Frame) /\ calls # << >> /\ InArrays
  BY InnermostLevel DEF ReturnStmt, Walking
<1>2. SourceScopes # << >> /\ Len(SourceScopes) = Len(calls)
  BY <1>1, SourceScopesSeq
<1>3. cg_emit_defers(0) = Scopes!Unwound(Len(SourceScopes))
  BY <1>1, <1>2, EmitIsUnwind
<1>4. ExitKind' = "return" /\ Ran' = cg_emit_defers(0)
  BY DEF ReturnStmt, Emission, ExitKind, Ran
<1>5. UNCHANGED SourceScopes
  BY DEF ReturnStmt, SourceScopes
<1> QED BY <1>2, <1>3, <1>4, <1>5 DEF Scopes!Return

\* break and continue run what the scopes of the innermost loop deferred.
LEMMA JumpSimulated ==
  ASSUME LexicalInv, NEW jump \in {"break", "continue"}, JumpStmt(jump)
  PROVE  Scopes!Jump
<1> DEFINE n == Len(calls)
<1>1. /\ n \in 1 .. n /\ n \in Nat /\ calls \in Seq(Frame) /\ calls # << >> /\ InArrays
  BY InnermostLevel DEF JumpStmt, Walking
<1>2. /\ Len(SourceScopes) = n
      /\ \A i \in 1 .. n : SourceScopes[i].loop <=> calls[i].form \in LoopForms
  BY <1>1, SourceScopesSeq
<1>3. loop_depth = calls[n].loops /\ LoopBaseAt(calls, loop_defer_base, n)
  <2>1. BookkeepingInv
    BY DEF LexicalInv
  <2>2. loop_depth = Top.loops
    BY <1>1, <2>1, CountersBounded
  <2>3. defer_depth \in Levels /\ defer_depth = n - 1
    BY <2>1, InnermostLevel, CountersInArrays DEF JumpStmt
  <2> QED BY <1>1, <2>2, <2>3 DEF LexicalInv, LoopBasesMatchFrames, Top
<1>4. loop_depth \in Nat
  BY CountersInArrays DEF LexicalInv
<1>5. ExitKind' = "jump" /\ UNCHANGED SourceScopes
  BY DEF JumpStmt, Emission, ExitKind, SourceScopes
<1>6. CASE loop_depth = 0
  <2>1. \A k \in 1 .. n : ~SourceScopes[k].loop
    BY <1>2, <1>3, <1>6 DEF LoopBaseAt
  <2>2. Ran' = << >>
    BY <1>6 DEF JumpStmt, Emission, Ran
  <2> QED BY <1>2, <1>5, <2>1, <2>2 DEF Scopes!Jump
<1>7. CASE loop_depth # 0
  <2>1. PICK j \in 2 .. n :
          /\ loop_defer_base[loop_depth] = j - 2
          /\ calls[j].form \in LoopForms
          /\ \A k \in j + 1 .. n : calls[k].form \notin LoopForms
    BY <1>3, <1>7 DEF LoopBaseAt
  <2>2. j \in 1 .. n /\ \A k \in j + 1 .. n : k \in 1 .. n
    BY <1>1, <2>1
  <2>3. Scopes!InnermostLoop(j)
    BY <1>2, <2>1, <2>2 DEF Scopes!InnermostLoop
  <2>4. (j - 2) + 1 \in 0 .. n /\ n - ((j - 2) + 1) = n - j + 1
    BY <1>1, <2>1
  <2>5. cg_emit_defers((j - 2) + 1) = Scopes!Unwound(n - j + 1)
    BY <1>1, <2>4, EmitIsUnwind
  <2>6. Ran' = cg_emit_defers((j - 2) + 1)
    BY <1>4, <1>7, <2>1 DEF JumpStmt, Emission, Ran
  <2> QED BY <1>2, <1>5, <2>2, <2>3, <2>5, <2>6 DEF Scopes!Jump
<1> QED BY <1>6, <1>7

\* A defer statement is added to the innermost scope.
LEMMA DeferSimulated ==
  ASSUME LexicalPrograms, LexicalInv, BookkeepingInv', NEW e \in Exprs, DeferStmt(e)
  PROVE  Scopes!Defer(e)
<1> DEFINE n == Len(calls)
           s(i) == [loop |-> calls[i].form \in LoopForms, defers |-> calls[i].defers]
           t == [SourceScopes EXCEPT ![n].defers = Append(@, e)]
<1>1. /\ calls # << >> /\ calls \in Seq(Frame) /\ n \in 1 .. n
  BY InnermostLevel DEF DeferStmt, Walking
<1>2. /\ Len(calls') = n
      /\ \A i \in 1 .. n : /\ calls'[i].form = calls[i].form
                            /\ calls'[i].defers = IF i = n THEN Append(calls[i].defers, e)
                                                  ELSE calls[i].defers
  BY DeferStmtLexical
<1>3. /\ SourceScopes # << >> /\ Len(SourceScopes) = n
      /\ SourceScopes = [i \in 1 .. n |-> s(i)]
  BY <1>1, SourceScopesSeq DEF SourceScopes
<1>4. SourceScopes' = [i \in 1 .. n |-> [loop |-> calls'[i].form \in LoopForms,
                                        defers |-> calls'[i].defers]]
  BY <1>2 DEF SourceScopes
<1>5. t = [i \in 1 .. n |-> IF i = n THEN [s(i) EXCEPT !.defers = Append(@, e)] ELSE s(i)]
  BY <1>1, <1>3
<1>6. ASSUME NEW i \in 1 .. n
      PROVE  [loop |-> calls'[i].form \in LoopForms, defers |-> calls'[i].defers]
               = IF i = n THEN [s(i) EXCEPT !.defers = Append(@, e)] ELSE s(i)
  <2>1. CASE i = n
    <3>1. calls'[i].form = calls[i].form /\ calls'[i].defers = Append(calls[i].defers, e)
      BY <1>2, <2>1
    <3>2. [s(i) EXCEPT !.defers = Append(@, e)] =
            [loop |-> calls[i].form \in LoopForms, defers |-> Append(calls[i].defers, e)]
      OBVIOUS
    <3> QED BY <2>1, <3>1, <3>2
  <2>2. CASE i # n
    BY <1>2, <2>2
  <2> QED BY <2>1, <2>2
<1>7. SourceScopes' = t
  BY <1>4, <1>5, <1>6
<1>8. ExitKind' = "none" /\ Ran' = << >>
  BY DEF DeferStmt, ExitKind, Ran, Nothing, Emission
<1> QED BY <1>3, <1>7, <1>8 DEF Scopes!Defer

\* Without slice loops none is open.
LEMMA NoSliceLoopOpen ==
  ASSUME LexicalPrograms, LexicalInv
  PROVE  ~EndSliceLoop
<1> SUFFICES ASSUME EndSliceLoop PROVE FALSE
  OBVIOUS
<1>1. calls # << >> /\ calls[Len(calls)].form = SliceForm
  BY DEF EndSliceLoop, Walking, Top
<1>2. Len(calls) \in 1 .. Len(calls)
  BY <1>1, InnermostLevel
<1>3. ChainedAt(calls, Len(calls))
  BY <1>2 DEF LexicalInv, BookkeepingInv, FramesChained
<1>4. calls[Len(calls)].form \in {"fn", "block"} \cup LoopForms
  BY <1>3 DEF ChainedAt
<1> QED BY <1>1, <1>4 DEF LexicalPrograms, SliceForm

\* Every step keeps the invariant and is a step of the abstract specification.
LEMMA StepSimulated ==
  ASSUME LexicalPrograms, ~TrailingFn, LexicalInv, [Next]_vars
  PROVE  LexicalInv' /\ [Scopes!Next]_<<SourceScopes, ExitKind, Ran>>
<1>1. BookkeepingInv' /\ BookkeepingInv
  BY BookkeepingStep DEF LexicalInv
<1>2. /\ calls \in Seq(Frame) /\ defer_depth = Len(calls) - 1
      /\ defer_depth \in Int /\ loop_depth \in Int /\ MaxDefers \in Nat
  BY <1>1, InnermostLevel, CountersInArrays, CGenAssumption
<1>3. CASE UNCHANGED vars
  <2>1. LexicalInv'
    BY <1>1, <1>3, WriteOnlyLexical DEF vars
  <2>2. UNCHANGED <<SourceScopes, ExitKind, Ran>>
    BY <1>3 DEF vars, SourceScopes, ExitKind, Ran
  <2> QED BY <2>1, <2>2
<1>4. CASE FnDef
  <2> DEFINE f == NewFrame("fn", defer_depth + 1, loop_depth)
  <2>1. calls = << >> /\ Len(calls) = 0
    BY <1>1, <1>4, CountersBounded DEF FnDef
  <2>2. calls' = Append(calls, f) /\ Len(calls) < MaxNesting
    BY <1>4, <2>1, CGenAssumption DEF FnDef
  <2>3. /\ f \in Frame /\ f.defers = << >> /\ f.depth = defer_depth + 1
        /\ f.loops = loop_depth /\ f.form = "fn"
    BY <1>2 DEF NewFrame, Frame
  <2> HIDE DEF f
  <2>4. LexicalInv'
    BY <1>1, <1>2, <1>4, <2>2, <2>3, FormsDisjoint, EnterBodyLexical DEF FnDef, OpenLevel
  <2>5. Scopes!Open(f.form \in LoopForms)
    BY <1>2, <1>4, <2>2, <2>3, OpenSimulated DEF FnDef
  <2>6. (f.form \in LoopForms) \in BOOLEAN
    OBVIOUS
  <2> QED BY <2>4, <2>5, <2>6 DEF Scopes!Next
<1>5. CASE BlockStmt
  <2> DEFINE f == NewFrame("block", defer_depth + 1, loop_depth)
  <2>1. calls' = Append(calls, f) /\ Len(calls) < MaxNesting
    BY <1>5 DEF BlockStmt
  <2>2. /\ f \in Frame /\ f.defers = << >> /\ f.depth = defer_depth + 1
        /\ f.loops = loop_depth /\ f.form = "block"
    BY <1>2 DEF NewFrame, Frame
  <2> HIDE DEF f
  <2>3. LexicalInv'
    BY <1>1, <1>2, <1>5, <2>1, <2>2, FormsDisjoint, EnterBodyLexical DEF BlockStmt, OpenLevel
  <2>4. Scopes!Open(f.form \in LoopForms)
    BY <1>2, <1>5, <2>1, <2>2, OpenSimulated DEF BlockStmt
  <2>5. (f.form \in LoopForms) \in BOOLEAN
    OBVIOUS
  <2> QED BY <2>3, <2>4, <2>5 DEF Scopes!Next
<1>6. ASSUME NEW form \in LoopForms, LoopStmt(form)
      PROVE  LexicalInv' /\ [Scopes!Next]_<<SourceScopes, ExitKind, Ran>>
  <2> DEFINE f == NewFrame(form, defer_depth + 1, loop_depth + 1)
  <2>1. calls' = Append(calls, f) /\ Len(calls) < MaxNesting
    BY <1>6 DEF LoopStmt
  <2>2. /\ f \in Frame /\ f.defers = << >> /\ f.depth = defer_depth + 1
        /\ f.loops = loop_depth + 1 /\ f.form = form
    BY <1>2, CGenAssumption DEF NewFrame, Frame
  <2> HIDE DEF f
  <2>3. LexicalInv'
    BY <1>1, <1>2, <1>6, <2>1, <2>2, EnterBodyLexical DEF LoopStmt, OpenLevel, Walking
  <2>4. Scopes!Open(f.form \in LoopForms)
    BY <1>2, <1>6, <2>1, <2>2, OpenSimulated DEF LoopStmt
  <2>5. (f.form \in LoopForms) \in BOOLEAN
    OBVIOUS
  <2> QED BY <2>3, <2>4, <2>5 DEF Scopes!Next
<1>7. ASSUME NEW e \in Exprs, DeferStmt(e)
      PROVE  LexicalInv' /\ [Scopes!Next]_<<SourceScopes, ExitKind, Ran>>
  <2>1. LexicalInv' /\ Scopes!Defer(e)
    BY <1>1, <1>7, DeferStmtLexical, DeferSimulated
  <2> QED BY <2>1 DEF Scopes!Next
<1>8. CASE ReturnStmt
  <2>1. LexicalInv'
    BY <1>1, <1>8, WriteOnlyLexical DEF ReturnStmt
  <2> QED BY <1>8, <2>1, ReturnSimulated DEF Scopes!Next
<1>9. ASSUME NEW jump \in {"break", "continue"}, JumpStmt(jump)
      PROVE  LexicalInv' /\ [Scopes!Next]_<<SourceScopes, ExitKind, Ran>>
  <2>1. LexicalInv'
    BY <1>1, <1>9, WriteOnlyLexical DEF JumpStmt
  <2>2. Scopes!Jump
    BY <1>9, JumpSimulated
  <2> QED BY <2>1, <2>2 DEF Scopes!Next
<1>10. CASE OtherStmt
  <2>1. LexicalInv'
    BY <1>1, <1>10, WriteOnlyLexical DEF OtherStmt
  <2>2. Scopes!Other
    BY <1>10 DEF OtherStmt, Scopes!Other, SourceScopes, ExitKind, Ran, Nothing, Emission
  <2> QED BY <2>1, <2>2 DEF Scopes!Next
<1>11. ASSUME NEW trailing \in BOOLEAN, EndBlock(trailing)
       PROVE  LexicalInv' /\ [Scopes!Next]_<<SourceScopes, ExitKind, Ran>>
  <2>1. LexicalInv'
    BY <1>1, <1>11, LeaveBodyLexical DEF EndBlock, Walking
  <2>2. Scopes!End
    BY <1>11, EndSimulated
  <2> QED BY <2>1, <2>2 DEF Scopes!Next
<1>12. CASE SliceLoopStmt
  BY <1>12 DEF SliceLoopStmt, LexicalPrograms
<1>13. ~EndSliceLoop
  BY NoSliceLoopOpen
<1> QED BY <1>3, <1>4, <1>5, <1>6, <1>7, <1>8, <1>9, <1>10, <1>11, <1>12, <1>13 DEF Next

\* For programs without slice loops, without trailing expressions in function
\* bodies and with no overfull block, of any nesting, the code written at every
\* exit runs the deferred expressions of exactly the scopes being left, innermost
\* first and last deferred first, as long as no write goes behind the arrays
\* (NestingFits says when none does).
THEOREM EmitterRefinesScopes ==
  ASSUME LexicalPrograms, ~TrailingFn
  PROVE  Spec => RefinesScopes
<1>1. Init => LexicalInv
  BY InitLexical
<1>2. LexicalInv /\ [Next]_vars => LexicalInv'
  BY StepSimulated
<1>3. Init => Scopes!Init
  BY DEF Init, Scopes!Init, SourceScopes, ExitKind, Ran, Nothing, Emission
<1>4. LexicalInv /\ [Next]_vars => [Scopes!Next]_<<SourceScopes, ExitKind, Ran>>
  BY StepSimulated
<1> QED BY <1>1, <1>2, <1>3, <1>4, PTL DEF Spec, RefinesScopes, Scopes!Spec

\* What a step that leaves the function writes, in terms of the bodies it leaves.
LEMMA ReturnCleansUp ==
  ASSUME LexicalPrograms, ~TrailingFn, LexicalInv, Next,
         emitted'.exit = "return" \/ (emitted'.exit = "end" /\ Len(calls) = 1)
  PROVE  Ran' = [k \in 1 .. Len(calls) |-> Reverse(calls[Len(calls) - k + 1].defers)]
<1> DEFINE n == Len(calls)
<1>1. n \in Nat /\ calls \in Seq(Frame)
  BY InnermostLevel
<1>2. /\ Len(SourceScopes) = n
      /\ \A i \in 1 .. n : SourceScopes[i].defers = calls[i].defers
  BY <1>1, SourceScopesSeq
<1>3. Scopes!Unwound(n) = [k \in 1 .. n |-> Reverse(calls[n - k + 1].defers)]
  <2>1. \A k \in 1 .. n : n - k + 1 \in 1 .. n
    BY <1>1
  <2> QED BY <1>2, <2>1, SameReverse DEF Scopes!Unwound
<1>4. ASSUME emitted' = Nothing PROVE FALSE
  BY <1>4 DEF Nothing, Emission
<1>5. CASE ReturnStmt
  <2>1. Scopes!Return
    BY <1>5, ReturnSimulated
  <2> QED BY <1>2, <1>3, <2>1 DEF Scopes!Return
<1>6. ASSUME NEW trailing \in BOOLEAN, EndBlock(trailing)
      PROVE  Ran' = [k \in 1 .. n |-> Reverse(calls[n - k + 1].defers)]
  <2>1. Scopes!End
    BY <1>6, EndSimulated
  <2>2. emitted'.exit = "end"
    BY <1>6 DEF EndBlock, Emission
  <2> QED BY <1>3, <2>1, <2>2 DEF Scopes!End
<1>7. ASSUME NEW jump \in {"break", "continue"}, JumpStmt(jump) PROVE FALSE
  <2>1. emitted'.exit = jump
    BY <1>7 DEF JumpStmt, Emission
  <2> QED BY <2>1
<1>8. ~SliceLoopStmt
  BY DEF SliceLoopStmt, LexicalPrograms
<1>9. ~EndSliceLoop
  BY NoSliceLoopOpen
<1> QED BY <1>4, <1>5, <1>6, <1>7, <1>8, <1>9
        DEF Next, FnDef, BlockStmt, LoopStmt, DeferStmt, OtherStmt

\* "LIFO cleanup on normal returns", for the same programs: wherever control leaves
\* a function, by return or at its closing brace, every expression deferred in the
\* open blocks is run, innermost block first and last deferred first.
THEOREM EmitterCleansUp ==
  ASSUME LexicalPrograms, ~TrailingFn
  PROVE  Spec => CleanupOnReturn
<1>1. Init => LexicalInv
  BY InitLexical
<1>2. LexicalInv /\ [Next]_vars => LexicalInv'
  BY StepSimulated
<1>3. LexicalInv /\ [Next]_vars =>
        [(emitted'.exit = "return" \/ (emitted'.exit = "end" /\ Len(calls) = 1))
           => Ran' = [k \in 1 .. Len(calls) |->
                        Reverse(calls[Len(calls) - k + 1].defers)]]_vars
  BY ReturnCleansUp
<1> QED BY <1>1, <1>2, <1>3, PTL DEF Spec, CleanupOnReturn
=============================================================================
