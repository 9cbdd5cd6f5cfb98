---------------------------- MODULE Driver_proofs ----------------------------
(***************************************************************************)
(* What the driver promises on every path through main(), for programs of  *)
(* any length, any number of options and any capacities: no use after      *)
(* free, no leak but the messages, no binary from a program with reported  *)
(* errors, an exit status that tells what was found.                       *)
(***************************************************************************)
EXTENDS Driver, SequenceTheorems, TLAPS

Lexing == {"test_lexer", "dump_tokens", "tokenize"}
Analysing == {"test_sema", "test_sema_done", "check", "build", "emit", "cc", "report"}
Running == Lexing \cup {"parse"} \cup Analysing

Bad(n) == \E i \in 1 .. n : program.tokens[i] = "bad"

\* The diagnostic engine and the token array, with the records TypeOK compares
\* the fields of.
DiagOK ==
  /\ diag \in [items : Seq({"lexer", "sema"} \X Nat), capacity : Nat,
               error_count : Nat, has_errors : BOOLEAN]
  /\ Len(diag.items) <= diag.capacity
  /\ diag.error_count = Len(diag.items)
  /\ diag.has_errors <=> diag.error_count > 0
TokensOK == tokens \in [count : Nat, capacity : Nat] /\ tokens.count <= tokens.capacity

\* What is held at each point of main(). An array that never grew is null.
HeapAt ==
  /\ pc = "args" => \A r \in Resources : heap[r] = "none"
  /\ pc \in Running => heap["source"] = "held" /\ heap["arena"] = "held"
  /\ pc # "exit" => heap["messages"] # "freed"
  /\ pc # "exit" /\ diag.items # << >> => heap["messages"] = "held"
  /\ pc \in Lexing => heap["tokens"] # "freed"
  /\ pc \in {"test_lexer", "dump_tokens"} => heap["tokens"] = "none"
  /\ pc \in Analysing \cup {"parse"} => heap["tokens"] = "held"

\* What each pass found is in the diagnostics by the time main() relies on it.
ErrorsFound ==
  /\ pc \in Lexing \cup {"args"} /\ Bad(at) => diag.items # << >>
  /\ pc \in Analysing \cup {"parse"} /\ Bad(Len(program.tokens)) => diag.items # << >>
  /\ reported > 0 => diag.items # << >>
  /\ pc \in {"test_sema_done", "emit", "cc"} /\ program.sema_errors > 0 => diag.items # << >>
  /\ pc = "report" /\ Set("check") /\ program.sema_errors > 0 => diag.items # << >>
  /\ pc = "cc" => diag.items = << >>
  /\ pc \in Analysing => had_error = program.parse_error

\* Which options lead where.
PathTaken ==
  /\ pc = "test_lexer" => Set("test_lexer")
  /\ pc \in {"test_sema", "test_sema_done"} => Set("test_sema")
  /\ pc \in {"build", "emit", "cc"} => Set("build")
  /\ pc = "check" => ~Set("test_sema")
  /\ pc = "report" => ~Set("test_sema") /\ ~Set("build")

DriverInv ==
  /\ TypeOK /\ DiagOK /\ TokensOK
  /\ MemorySafe /\ HeapAt /\ OnlyMessagesLeak
  /\ ErrorsFound /\ PathTaken
  /\ BuiltFromCheckedProgram /\ StatusTellsErrors

-----------------------------------------------------------------------------
\* Growing by doubling makes room for one entry more.
LEMMA GrownFits ==
  ASSUME NEW count \in Nat, NEW capacity \in Nat, count <= capacity,
         NEW first \in Nat \ {0}
  PROVE  Grown(count, capacity, first) \in Nat /\ count + 1 <= Grown(count, capacity, first)
BY DEF Grown

\* diag_emit keeps the engine's counters together and loses no message.
LEMMA EmitKeeps ==
  ASSUME DiagOK, NEW err \in {"lexer", "sema"} \X Nat, diag' = diag_emit(err)
  PROVE  DiagOK' /\ diag'.items # << >>
<1>1. /\ diag.items \in Seq({"lexer", "sema"} \X Nat) /\ diag.capacity \in Nat
      /\ diag.error_count = Len(diag.items) /\ Len(diag.items) \in Nat
      /\ Len(diag.items) <= diag.capacity
  BY DEF DiagOK
<1> DEFINE cap == Grown(Len(diag.items), diag.capacity, DiagCapacity)
<1>2. cap \in Nat /\ Len(diag.items) + 1 <= cap
  BY <1>1, GrownFits, DriverAssumption
<1>3. /\ Append(diag.items, err) \in Seq({"lexer", "sema"} \X Nat)
      /\ Len(Append(diag.items, err)) = Len(diag.items) + 1
      /\ Append(diag.items, err) # << >>
  BY <1>1, AppendProperties
<1>4. diag' = [items |-> Append(diag.items, err), capacity |-> cap,
               error_count |-> diag.error_count + 1, has_errors |-> TRUE]
  BY DEF diag_emit
<1> HIDE DEF cap
<1>5. /\ diag'.items = Append(diag.items, err) /\ diag'.capacity = cap
      /\ diag'.error_count = diag.error_count + 1 /\ diag'.has_errors = TRUE
  BY <1>4
<1> QED BY <1>1, <1>2, <1>3, <1>4, <1>5 DEF DiagOK

\* A step that uses what is held and frees nothing twice.
LEMMA MemoryKeeps ==
  ASSUME TypeOK, MemorySafe,
         NEW uses \in SUBSET Resources, NEW allocs \in SUBSET Resources,
         NEW frees \in SUBSET Resources,
         Memory(uses, allocs, frees),
         \A r \in uses : heap[r] = "held",
         \A r \in frees : heap[r] # "freed"
  PROVE  /\ MemorySafe'
         /\ heap' \in [Resources -> {"none", "held", "freed"}]
         /\ \A r \in frees : heap'[r] # "held"
         /\ \A r \in frees : heap[r] = "none" => heap'[r] = "none"
         /\ \A r \in allocs \ frees : heap'[r] = "held"
         /\ \A r \in Resources \ (allocs \cup frees) : heap'[r] = heap[r]
<1>1. MemorySafe'
  BY DEF Memory, MemorySafe
<1>2. heap' = [r \in Resources |->
                IF r \in frees THEN IF heap[r] = "none" THEN "none" ELSE "freed"
                ELSE IF r \in allocs THEN "held" ELSE heap[r]]
  BY DEF Memory
<1>3. heap \in [Resources -> {"none", "held", "freed"}]
  BY DEF TypeOK
<1> QED BY <1>1, <1>2, <1>3

LEMMA InitEstablishes == Init => DriverInv
<1> SUFFICES ASSUME Init PROVE DriverInv
  OBVIOUS
<1>1. diag.items = << >> /\ Len(diag.items) = 0 /\ << >> \in Seq({"lexer", "sema"} \X Nat)
  BY DEF Init
<1>2. program \in Programs /\ Len(program.tokens) \in Nat /\ program.sema_errors \in Nat
  BY DEF Init, Programs, BoundedSeq, SeqOf
<1>3. TypeOK /\ DiagOK /\ TokensOK
  BY <1>1, <1>2, DriverAssumption DEF Init, TypeOK, DiagOK, TokensOK, Resources
<1>4. MemorySafe /\ HeapAt /\ OnlyMessagesLeak
  BY <1>1 DEF Init, MemorySafe, HeapAt, OnlyMessagesLeak, Resources, Running, Lexing, Analysing
<1>5. ErrorsFound /\ PathTaken
  BY <1>1 DEF Init, ErrorsFound, PathTaken, Lexing, Analysing, Bad
<1>6. BuiltFromCheckedProgram /\ StatusTellsErrors
  BY DEF Init, BuiltFromCheckedProgram, StatusTellsErrors
<1> QED BY <1>3, <1>4, <1>5, <1>6 DEF DriverInv

\* What the steps below need of the invariant's records.
LEMMA Records ==
  ASSUME DriverInv
  PROVE  /\ Len(program.tokens) \in Nat /\ program.tokens \in Seq({"good", "bad"})
         /\ program.sema_errors \in Nat
         /\ at \in Nat /\ at <= Len(program.tokens)
         /\ reported \in Nat /\ reported <= program.sema_errors
         /\ diag.items = << >> <=> ~diag.has_errors
         /\ diag.items = << >> <=> diag.error_count = 0
         /\ diag.error_count \in Nat
<1>1. program \in Programs /\ diag.items \in Seq({"lexer", "sema"} \X Nat)
  BY DEF DriverInv, TypeOK, DiagOK, TokensOK
<1>2. Len(program.tokens) \in Nat /\ program.tokens \in Seq({"good", "bad"})
  BY <1>1 DEF Programs, BoundedSeq, SeqOf
<1>3. program.sema_errors \in Nat
  BY <1>1, DriverAssumption DEF Programs
<1>4. diag.items = << >> <=> Len(diag.items) = 0
  BY <1>1, EmptySeq
<1>5. Len(diag.items) \in Nat
  BY <1>1
<1> QED BY <1>2, <1>3, <1>4, <1>5 DEF DriverInv, TypeOK, DiagOK, TokensOK

LEMMA ParseArgPreserves == DriverInv /\ ParseArg => DriverInv'
<1> SUFFICES ASSUME DriverInv, ParseArg PROVE DriverInv'
  OBVIOUS
<1>1. /\ pc = "args" /\ pc' \in {"args", "exit"} /\ status' \in {0, 1}
      /\ UNCHANGED <<program, at, tokens, diag, had_error, reported, built, heap, fault>>
  BY DEF ParseArg, Exit, DriverInv, TypeOK
<1>2. TypeOK' /\ DiagOK' /\ TokensOK'
  BY <1>1 DEF DriverInv, TypeOK, DiagOK, TokensOK
<1>3. MemorySafe' /\ HeapAt' /\ OnlyMessagesLeak'
  BY <1>1 DEF DriverInv, MemorySafe, HeapAt, OnlyMessagesLeak, Running, Lexing, Analysing,
              Resources
<1>4. ErrorsFound' /\ PathTaken'
  BY <1>1 DEF DriverInv, ErrorsFound, PathTaken, Lexing, Analysing, Bad
<1>5. BuiltFromCheckedProgram'
  BY <1>1 DEF DriverInv, BuiltFromCheckedProgram
<1>6. StatusTellsErrors'
  BY <1>1 DEF DriverInv, StatusTellsErrors, HeapAt, Resources
<1> QED BY <1>2, <1>3, <1>4, <1>5, <1>6 DEF DriverInv

LEMMA OpenInputPreserves == DriverInv /\ OpenInput => DriverInv'
<1> SUFFICES ASSUME DriverInv, OpenInput PROVE DriverInv'
  OBVIOUS
<1>1. /\ pc = "args" /\ pc' \in {"test_lexer", "dump_tokens", "tokenize", "exit"}
      /\ pc' = "test_lexer" => Set("test_lexer")
      /\ status' \in {0, 1}
      /\ UNCHANGED <<args, program, at, tokens, diag, had_error, reported, built, fault>>
  BY DEF OpenInput, Exit, Goto, DriverInv, TypeOK
<1>2. \/ pc' = "exit" /\ heap' = heap
      \/ pc' # "exit" /\ heap' = [heap EXCEPT !["source"] = "held", !["arena"] = "held"]
  BY DEF OpenInput, Exit, Goto
<1>3. TypeOK' /\ DiagOK' /\ TokensOK'
  BY <1>1, <1>2 DEF DriverInv, TypeOK, DiagOK, TokensOK, Resources
<1>4. MemorySafe' /\ HeapAt' /\ OnlyMessagesLeak'
  BY <1>1, <1>2 DEF DriverInv, TypeOK, MemorySafe, HeapAt, OnlyMessagesLeak, Running, Lexing,
                    Analysing, Resources
<1>5. ErrorsFound'
  BY <1>1 DEF DriverInv, ErrorsFound, Lexing, Analysing, Bad
<1>6. PathTaken' /\ BuiltFromCheckedProgram'
  BY <1>1 DEF DriverInv, PathTaken, Set, BuiltFromCheckedProgram
<1>7. StatusTellsErrors'
  BY <1>1, <1>2 DEF DriverInv, StatusTellsErrors, HeapAt, Resources
<1> QED BY <1>3, <1>4, <1>5, <1>6, <1>7 DEF DriverInv

-----------------------------------------------------------------------------
\* lexer_next reports every bad token it consumes, whoever calls it.
LEMMA LexNextPreserves ==
  ASSUME DriverInv, pc \in Lexing, NEW allocs \in SUBSET {"tokens"}, LexNext(allocs),
         allocs = {} \/ pc = "tokenize", TokensOK',
         UNCHANGED <<pc, args, program, had_error, reported, built, status>>
  PROVE  DriverInv'
<1> DEFINE bad == program.tokens[at + 1] = "bad"
           new == allocs \cup (IF bad THEN {"messages"} ELSE {})
<1>1. /\ at \in Nat /\ at < Len(program.tokens) /\ at' = at + 1
      /\ diag' = IF bad THEN diag_emit(LexError(at + 1)) ELSE diag
      /\ Memory({"source"}, new, {})
      /\ Len(program.tokens) \in Nat
  BY Records DEF LexNext
<1>2. /\ heap["source"] = "held" /\ heap["arena"] = "held" /\ heap["messages"] # "freed"
      /\ diag.items # << >> => heap["messages"] = "held"
      /\ heap["tokens"] # "freed"
      /\ pc # "tokenize" => heap["tokens"] = "none"
  BY DEF DriverInv, HeapAt, Running, Lexing
<1>3. TypeOK /\ DiagOK /\ MemorySafe /\ (Bad(at) => diag.items # << >>)
  BY DEF DriverInv, ErrorsFound
<1>4. /\ {"source"} \in SUBSET Resources /\ new \in SUBSET Resources
      /\ {} \in SUBSET Resources
      /\ \A r \in {"source"} : heap[r] = "held"
      /\ \A r \in {} : heap[r] # "freed"
  BY <1>2 DEF Resources
<1> HIDE DEF new
<1>5. /\ MemorySafe' /\ heap' \in [Resources -> {"none", "held", "freed"}]
      /\ \A r \in new : heap'[r] = "held"
      /\ \A r \in Resources \ new : heap'[r] = heap[r]
  BY <1>1, <1>3, <1>4, MemoryKeeps DEF Memory
<1>6. /\ heap'["source"] = "held" /\ heap'["arena"] = "held"
      /\ heap'["tokens"] = "held" \/ heap'["tokens"] = heap["tokens"]
      /\ allocs = {} => heap'["tokens"] = heap["tokens"]
      /\ bad => heap'["messages"] = "held"
      /\ ~bad => heap'["messages"] = heap["messages"]
  BY <1>2, <1>5 DEF new, Resources
<1>7. /\ DiagOK' /\ (bad => diag'.items # << >>) /\ (~bad => diag' = diag)
      /\ diag.items # << >> => diag'.items # << >>
  <2>1. LexError(at + 1) \in {"lexer", "sema"} \X Nat
    BY <1>1 DEF LexError
  <2>2. CASE bad
    BY <1>1, <1>3, <2>1, <2>2, EmitKeeps
  <2>3. CASE ~bad
    BY <1>1, <1>3, <2>3 DEF DiagOK
  <2> QED BY <2>2, <2>3
<1>8. Bad(at)' => diag'.items # << >>
  <2>1. ~bad => (Bad(at)' => Bad(at))
    BY <1>1 DEF Bad
  <2> QED BY <1>3, <1>7, <2>1
<1> HIDE DEF bad
<1>9. TypeOK'
  BY <1>1, <1>5, <1>7 DEF DriverInv, TypeOK, DiagOK, TokensOK
<1>10. HeapAt' /\ OnlyMessagesLeak'
  BY <1>2, <1>6, <1>7 DEF HeapAt, OnlyMessagesLeak, Running, Lexing, Analysing
<1>11. ErrorsFound'
  BY <1>7, <1>8 DEF DriverInv, ErrorsFound, Lexing, Analysing
<1>12. PathTaken' /\ BuiltFromCheckedProgram' /\ StatusTellsErrors'
  BY DEF DriverInv, PathTaken, Set, BuiltFromCheckedProgram, StatusTellsErrors, Lexing
<1> QED BY <1>5, <1>7, <1>9, <1>10, <1>11, <1>12 DEF DriverInv

\* A semantic pass reports an error: whatever comes later finds it.
LEMMA SemaReportPreserves ==
  ASSUME DriverInv, pc \in {"test_sema", "check", "build"},
         reported < program.sema_errors, reported' = reported + 1,
         diag' = diag_emit(SemaError(reported + 1)), Memory(Tree, {"messages"}, {}),
         UNCHANGED <<pc, args, program, at, tokens, had_error, built, status>>
  PROVE  DriverInv'
<1>1. reported' \in 0 .. program.sema_errors /\ SemaError(reported + 1) \in {"lexer", "sema"} \X Nat
  BY Records DEF SemaError
<1>2. TypeOK /\ DiagOK /\ MemorySafe
  BY DEF DriverInv
<1>3. heap["source"] = "held" /\ heap["arena"] = "held" /\ heap["tokens"] = "held"
  BY DEF DriverInv, HeapAt, Running, Analysing
<1>4. /\ {"source", "arena"} \in SUBSET Resources /\ {"messages"} \in SUBSET Resources
      /\ {} \in SUBSET Resources
      /\ \A r \in {"source", "arena"} : heap[r] = "held"
      /\ \A r \in {} : heap[r] # "freed"
  BY <1>3 DEF Resources
<1>5. /\ MemorySafe' /\ heap' \in [Resources -> {"none", "held", "freed"}]
      /\ heap'["messages"] = "held"
      /\ \A r \in Resources \ {"messages"} : heap'[r] = heap[r]
  BY <1>2, <1>4, MemoryKeeps DEF Memory, Tree
<1>6. DiagOK' /\ diag'.items # << >>
  BY <1>1, <1>2, EmitKeeps
<1>7. TypeOK' /\ TokensOK'
  BY <1>1, <1>5, <1>6 DEF DriverInv, TypeOK, DiagOK, TokensOK
<1>8. HeapAt' /\ OnlyMessagesLeak'
  BY <1>3, <1>5 DEF HeapAt, OnlyMessagesLeak, Running, Lexing, Analysing, Resources
<1>9. ErrorsFound'
  BY <1>6 DEF DriverInv, ErrorsFound, Lexing, Analysing
<1>10. PathTaken' /\ BuiltFromCheckedProgram' /\ StatusTellsErrors'
  BY DEF DriverInv, PathTaken, Set, BuiltFromCheckedProgram, StatusTellsErrors
<1> QED BY <1>5, <1>6, <1>7, <1>8, <1>9, <1>10 DEF DriverInv

\* A step that allocates and frees nothing, from one point behind the lexer to
\* another: Parse, the end of a semantic pass, codegen_c_emit.
LEMMA PassEndPreserves ==
  ASSUME DriverInv, pc \in Analysing \cup {"parse"}, pc' \in Analysing,
         NEW uses \in SUBSET {"source", "arena", "tokens"}, Memory(uses, {}, {}),
         had_error' = program.parse_error, reported' \in {0, reported},
         UNCHANGED <<args, program, at, tokens, diag, built, status>>,
         PathTaken',
         pc' \in {"test_sema_done", "emit", "cc"} /\ program.sema_errors > 0
           => diag.items # << >>,
         pc' = "report" /\ Set("check") /\ program.sema_errors > 0 => diag.items # << >>,
         pc' = "cc" => diag.items = << >>
  PROVE  DriverInv'
<1>1. TypeOK /\ DiagOK /\ MemorySafe
  BY DEF DriverInv
<1>2. heap["source"] = "held" /\ heap["arena"] = "held" /\ heap["tokens"] = "held"
  BY DEF DriverInv, HeapAt, Running
<1>3. /\ uses \in SUBSET Resources /\ {} \in SUBSET Resources
      /\ \A r \in uses : heap[r] = "held"
      /\ \A r \in {} : heap[r] # "freed"
  BY <1>2 DEF Resources
<1>4. /\ MemorySafe' /\ heap' \in [Resources -> {"none", "held", "freed"}]
      /\ \A r \in Resources : heap'[r] = heap[r]
  BY <1>1, <1>3, MemoryKeeps DEF Memory
<1>5. TypeOK' /\ DiagOK' /\ TokensOK'
  BY <1>4, Records DEF DriverInv, TypeOK, DiagOK, TokensOK, Analysing
<1>6. HeapAt' /\ OnlyMessagesLeak'
  BY <1>2, <1>4 DEF DriverInv, HeapAt, OnlyMessagesLeak, Running, Lexing, Analysing, Resources
<1>7. ErrorsFound'
  BY DEF DriverInv, ErrorsFound, Lexing, Analysing, Set, Bad
<1>8. BuiltFromCheckedProgram' /\ StatusTellsErrors'
  BY DEF DriverInv, BuiltFromCheckedProgram, StatusTellsErrors, Analysing
<1> QED BY <1>4, <1>5, <1>6, <1>7, <1>8 DEF DriverInv

\* A return from main(): what is freed was never freed before, and nothing but
\* messages is left.
LEMMA ExitPreserves ==
  ASSUME DriverInv, pc \in Running,
         NEW uses \in SUBSET Resources, NEW frees \in SUBSET Resources,
         NEW code \in {0, 1}, Memory(uses, {}, frees), Exit(code),
         \A r \in uses : heap[r] = "held",
         \A r \in frees : heap[r] # "freed",
         \A r \in Resources \ ({"messages"} \cup frees) : heap[r] = "none",
         UNCHANGED <<args, program, at, tokens, diag, had_error, reported>>,
         code = 0 =>
           /\ ~Bad(Len(program.tokens))
           /\ program.sema_errors > 0 =>
                Set("test_lexer") \/ (\A f \in {"check", "test_sema", "build"} : ~Set(f))
           /\ program.parse_error =>
                Set("test_lexer") \/ Set("test_sema") \/ Set("build"),
         built' => built \/ (~Bad(Len(program.tokens)) /\ program.sema_errors = 0)
  PROVE  DriverInv'
<1>1. TypeOK /\ DiagOK /\ MemorySafe /\ {} \in SUBSET Resources
  BY DEF DriverInv
<1>2. /\ MemorySafe' /\ heap' \in [Resources -> {"none", "held", "freed"}]
      /\ \A r \in frees : heap'[r] # "held"
      /\ \A r \in Resources \ frees : heap'[r] = heap[r]
  BY <1>1, MemoryKeeps DEF Memory
<1>3. pc' = "exit" /\ status' = code
  BY DEF Exit
<1>4. TypeOK' /\ DiagOK' /\ TokensOK'
  BY <1>2, <1>3 DEF DriverInv, TypeOK, DiagOK, TokensOK
<1>5. HeapAt' /\ OnlyMessagesLeak'
  BY <1>2, <1>3 DEF HeapAt, OnlyMessagesLeak, Running, Lexing, Analysing
<1>6. ErrorsFound' /\ PathTaken'
  BY <1>3 DEF DriverInv, ErrorsFound, PathTaken, Lexing, Analysing
<1>7. ~Bad(Len(program.tokens)) => \A i \in 1 .. Len(program.tokens) : program.tokens[i] = "good"
  BY Records DEF Bad
<1>8. BuiltFromCheckedProgram' /\ StatusTellsErrors'
  BY <1>3, <1>7 DEF DriverInv, BuiltFromCheckedProgram, StatusTellsErrors, Set
<1> QED BY <1>2, <1>4, <1>5, <1>6, <1>8 DEF DriverInv

-----------------------------------------------------------------------------
LEMMA LexingPreserves == DriverInv /\ (TestLexer \/ DumpTokens \/ Tokenize) => DriverInv'
<1> SUFFICES ASSUME DriverInv, TestLexer \/ DumpTokens \/ Tokenize PROVE DriverInv'
  OBVIOUS
<1>1. {} \in SUBSET {"tokens"} /\ {"tokens"} \in SUBSET {"tokens"}
  OBVIOUS
<1>2. /\ UNCHANGED <<args, program, had_error, reported, built>>
      /\ TestLexer \/ DumpTokens => UNCHANGED tokens
  BY DEF TestLexer, DumpTokens, Tokenize
<1>3. CASE TestLexer
  <2>1. pc = "test_lexer" /\ TokensOK'
    BY <1>2, <1>3 DEF TestLexer, DriverInv, TokensOK
  <2>2. CASE LexNext({}) /\ UNCHANGED <<pc, status>>
    BY <1>1, <1>2, <2>1, <2>2, LexNextPreserves DEF Lexing
  <2>3. CASE /\ at = Len(program.tokens) /\ Memory({}, {}, {"arena", "source"})
             /\ Exit(IF diag.has_errors THEN 1 ELSE 0) /\ UNCHANGED <<at, diag>>
    <3> DEFINE code == IF diag.has_errors THEN 1 ELSE 0
    <3>1. code \in {0, 1} /\ (code = 0 => diag.items = << >>) /\ Exit(code)
      BY <2>3, Records
    <3>2. code = 0 => ~Bad(Len(program.tokens))
      BY <2>1, <2>3, <3>1 DEF DriverInv, ErrorsFound, Lexing
    <3>3. Set("test_lexer")
      BY <2>1 DEF DriverInv, PathTaken
    <3>4. /\ heap["source"] = "held" /\ heap["arena"] = "held" /\ heap["tokens"] = "none"
      BY <2>1 DEF DriverInv, HeapAt, Running, Lexing
    <3>5. /\ {} \in SUBSET Resources /\ {"arena", "source"} \in SUBSET Resources
          /\ \A r \in {} : heap[r] = "held"
          /\ \A r \in {"arena", "source"} : heap[r] # "freed"
          /\ \A r \in Resources \ ({"messages"} \cup {"arena", "source"}) : heap[r] = "none"
      BY <3>4 DEF Resources
    <3>6. pc \in Running
      BY <2>1 DEF Running, Lexing
    <3>7. /\ UNCHANGED <<args, program, at, tokens, diag, had_error, reported, built>>
          /\ Memory({}, {}, {"arena", "source"})
      BY <1>2, <1>3, <2>3
    <3> HIDE DEF code
    <3> QED BY <3>1, <3>2, <3>3, <3>5, <3>6, <3>7, ExitPreserves DEF Memory, Exit
  <2> QED BY <1>3, <2>2, <2>3 DEF TestLexer
<1>4. CASE DumpTokens
  <2>1. pc = "dump_tokens" /\ TokensOK'
    BY <1>2, <1>4 DEF DumpTokens, DriverInv, TokensOK
  <2>2. CASE LexNext({}) /\ UNCHANGED <<pc, status>>
    BY <1>1, <1>2, <2>1, <2>2, LexNextPreserves DEF Lexing
  <2>3. CASE at' = 0 /\ Goto("tokenize") /\ UNCHANGED <<diag, heap, fault>>
    <3>1. pc' = "tokenize" /\ at' = 0 /\ status' = status /\ UNCHANGED <<diag, heap, fault>>
      BY <2>3 DEF Goto
    <3>2. TypeOK' /\ DiagOK'
      BY <1>2, <1>4, <2>1, <3>1, Records DEF DriverInv, TypeOK, DiagOK
    <3>3. MemorySafe' /\ HeapAt' /\ OnlyMessagesLeak'
      BY <2>1, <3>1 DEF DriverInv, MemorySafe, HeapAt, OnlyMessagesLeak, Running, Lexing, Analysing
    <3>4. ErrorsFound' /\ PathTaken'
      BY <1>2, <2>1, <3>1 DEF DriverInv, ErrorsFound, PathTaken, Lexing, Analysing, Bad
    <3>5. BuiltFromCheckedProgram' /\ StatusTellsErrors'
      BY <1>2, <3>1 DEF DriverInv, BuiltFromCheckedProgram, StatusTellsErrors
    <3> QED BY <2>1, <3>2, <3>3, <3>4, <3>5 DEF DriverInv
  <2> QED BY <1>4, <2>2, <2>3 DEF DumpTokens
<1>5. CASE Tokenize
  <2>1. pc = "tokenize" /\ TokensOK'
    <3>1. tokens' = PushToken /\ tokens.count \in Nat /\ tokens.capacity \in Nat
            /\ tokens.count <= tokens.capacity
      BY <1>5 DEF Tokenize, DriverInv, TokensOK
    <3>2. /\ Grown(tokens.count, tokens.capacity, TokenCapacity) \in Nat
          /\ tokens.count + 1 <= Grown(tokens.count, tokens.capacity, TokenCapacity)
      BY <3>1, GrownFits, DriverAssumption
    <3> QED BY <1>5, <3>1, <3>2 DEF TokensOK, PushToken, Tokenize
  <2>2. CASE LexNext({"tokens"}) /\ UNCHANGED <<pc, status>>
    BY <1>1, <1>2, <2>1, <2>2, LexNextPreserves DEF Lexing
  <2>3. CASE /\ at = Len(program.tokens) /\ Memory({}, {"tokens"}, {})
             /\ Goto("parse") /\ UNCHANGED <<at, diag>>
    <3>1. pc' = "parse" /\ status' = status
      BY <2>3 DEF Goto
    <3>2. /\ heap["source"] = "held" /\ heap["arena"] = "held"
          /\ heap["messages"] # "freed"
          /\ diag.items # << >> => heap["messages"] = "held"
      BY <2>1 DEF DriverInv, HeapAt, Running, Lexing
    <3>3. /\ {} \in SUBSET Resources /\ {"tokens"} \in SUBSET Resources
          /\ \A r \in {} : heap[r] = "held"
          /\ \A r \in {} : heap[r] # "freed"
      BY DEF Resources
    <3>4. /\ MemorySafe' /\ heap' \in [Resources -> {"none", "held", "freed"}]
          /\ heap'["tokens"] = "held"
          /\ \A r \in Resources \ {"tokens"} : heap'[r] = heap[r]
      BY <2>3, <3>3, MemoryKeeps DEF DriverInv, Memory
    <3>5. TypeOK' /\ DiagOK'
      BY <1>2, <2>1, <2>3, <3>1, <3>4 DEF DriverInv, TypeOK, DiagOK, TokensOK
    <3>6. HeapAt' /\ OnlyMessagesLeak'
      BY <2>3, <3>1, <3>2, <3>4 DEF HeapAt, OnlyMessagesLeak, Running, Lexing, Analysing, Resources
    <3>7. ErrorsFound' /\ PathTaken'
      BY <1>2, <2>1, <2>3, <3>1 DEF DriverInv, ErrorsFound, PathTaken, Lexing, Analysing, Bad
    <3>8. BuiltFromCheckedProgram' /\ StatusTellsErrors'
      BY <1>2, <3>1 DEF DriverInv, BuiltFromCheckedProgram, StatusTellsErrors
    <3> QED BY <2>1, <3>4, <3>5, <3>6, <3>7, <3>8 DEF DriverInv
  <2> QED BY <1>5, <2>2, <2>3 DEF Tokenize
<1> QED BY <1>3, <1>4, <1>5

LEMMA ParsePreserves == DriverInv /\ Parse => DriverInv'
<1> SUFFICES ASSUME DriverInv, Parse PROVE DriverInv'
  OBVIOUS
<1>1. /\ pc = "parse" /\ pc' \in {"test_sema", "check", "build", "report"}
      /\ had_error' = program.parse_error /\ Memory({"tokens"} \cup Tree, {}, {})
      /\ UNCHANGED <<args, program, at, tokens, diag, reported, built, status>>
      /\ pc' = "test_sema" => Set("test_sema")
      /\ pc' = "build" => Set("build")
      /\ pc' = "check" => ~Set("test_sema")
      /\ pc' = "report" => ~Set("test_sema") /\ ~Set("build") /\ ~Set("check")
  BY DEF Parse, Goto
<1>2. PathTaken'
  BY <1>1 DEF PathTaken, Set
<1>3. {"tokens"} \cup Tree \in SUBSET {"source", "arena", "tokens"}
  BY DEF Tree
<1> QED BY <1>1, <1>2, <1>3, PassEndPreserves DEF Memory, Analysing

LEMMA SemaPreserves == DriverInv /\ (TestSema \/ Check \/ Build) => DriverInv'
<1> SUFFICES ASSUME DriverInv, TestSema \/ Check \/ Build PROVE DriverInv'
  OBVIOUS
<1>1. PICK label \in {"test_sema_done", "build", "report", "emit"} :
        /\ SemaRun(label)
        /\ pc \in {"test_sema", "check", "build"}
        /\ label = "test_sema_done" => pc = "test_sema"
        /\ label = "emit" => pc = "build"
        /\ label = "build" => Set("build")
        /\ label = "report" => pc = "check" /\ ~Set("build")
  BY DEF TestSema, Check, Build
<1>2. UNCHANGED <<args, program, at, tokens, had_error, built>>
  BY <1>1 DEF SemaRun
<1>3. CASE /\ reported < program.sema_errors /\ reported' = reported + 1
           /\ diag' = diag_emit(SemaError(reported + 1))
           /\ Memory(Tree, {"messages"}, {}) /\ UNCHANGED <<pc, status>>
  BY <1>1, <1>2, <1>3, SemaReportPreserves DEF Memory
<1>4. CASE /\ reported = program.sema_errors /\ reported' = 0
           /\ Memory(Tree, {}, {}) /\ Goto(label) /\ UNCHANGED diag
  <2>1. pc' = label /\ status' = status
    BY <1>4 DEF Goto
  <2>2. program.sema_errors > 0 => diag.items # << >>
    BY <1>4 DEF DriverInv, ErrorsFound
  <2>3. PathTaken'
    BY <1>1, <1>2, <2>1 DEF DriverInv, PathTaken, Set
  <2>4. Tree \in SUBSET {"source", "arena", "tokens"}
    BY DEF Tree
  <2>5. had_error' = program.parse_error
    BY <1>1, <1>2 DEF DriverInv, ErrorsFound, Analysing
  <2> QED BY <1>1, <1>2, <1>4, <2>1, <2>2, <2>3, <2>4, <2>5, PassEndPreserves
          DEF Memory, Analysing
<1> QED BY <1>1, <1>3, <1>4 DEF SemaRun

LEMMA EmitPreserves == DriverInv /\ Emit => DriverInv'
<1> SUFFICES ASSUME DriverInv, Emit PROVE DriverInv'
  OBVIOUS
<1>1. /\ pc = "emit" /\ pc' = "cc" /\ diag.items = << >> /\ Memory(Tree, {}, {})
      /\ UNCHANGED <<args, program, at, tokens, diag, had_error, reported, built, status>>
  BY Records DEF Emit, Goto
<1>2. program.sema_errors > 0 => diag.items # << >>
  BY <1>1 DEF DriverInv, ErrorsFound
<1>3. PathTaken' /\ had_error' = program.parse_error
  BY <1>1 DEF DriverInv, PathTaken, Set, ErrorsFound, Analysing
<1>4. Tree \in SUBSET {"source", "arena", "tokens"}
  BY DEF Tree
<1> QED BY <1>1, <1>2, <1>3, <1>4, PassEndPreserves DEF Memory, Analysing

\* The returns behind the parser: they free everything, or all but messages.
LEMMA ReturnsPreserve ==
  DriverInv /\ (TestSemaDone \/ BuildRejected \/ EmitFails \/ (\E ok \in BOOLEAN : CC(ok)) \/ Report)
    => DriverInv'
<1> SUFFICES ASSUME DriverInv,
                    TestSemaDone \/ BuildRejected \/ EmitFails \/ (\E ok \in BOOLEAN : CC(ok)) \/ Report
             PROVE  DriverInv'
  OBVIOUS
<1>1. /\ UNCHANGED <<args, program, at, tokens, diag, had_error, reported>>
      /\ pc \in {"test_sema_done", "emit", "cc", "report"}
  BY DEF TestSemaDone, BuildRejected, EmitFails, CC, Report
<1>2. pc \in Running /\ pc \in Analysing
  BY <1>1 DEF Running, Analysing
<1>3. /\ heap["source"] = "held" /\ heap["arena"] = "held" /\ heap["tokens"] = "held"
      /\ heap["messages"] # "freed"
      /\ diag.items # << >> => heap["messages"] = "held"
  BY <1>1, <1>2 DEF DriverInv, HeapAt
<1>4. /\ Resources \in SUBSET Resources /\ Resources \ {"messages"} \in SUBSET Resources
      /\ {} \in SUBSET Resources /\ {"source"} \cup Messages \in SUBSET Resources
      /\ Messages \in SUBSET Resources /\ Messages \cup Tree \in SUBSET Resources
      /\ \A r \in Messages \cup Tree : heap[r] = "held"
      /\ \A r \in Messages : heap[r] = "held"
      /\ \A r \in {"source"} \cup Messages : heap[r] = "held"
      /\ \A r \in {} : heap[r] = "held"
      /\ \A r \in Resources : heap[r] # "freed"
      /\ \A r \in Resources \ ({"messages"} \cup Resources) : heap[r] = "none"
      /\ \A r \in Resources \ ({"messages"} \cup (Resources \ {"messages"})) : heap[r] = "none"
  BY <1>3 DEF Resources, Messages, Tree
<1>5. /\ Bad(Len(program.tokens)) => diag.items # << >>
      /\ pc \in {"test_sema_done", "emit", "cc"} /\ program.sema_errors > 0
           => diag.items # << >>
      /\ pc = "report" /\ Set("check") /\ program.sema_errors > 0 => diag.items # << >>
      /\ pc = "cc" => diag.items = << >>
      /\ had_error = program.parse_error
  BY <1>2 DEF DriverInv, ErrorsFound
<1>6. /\ pc = "test_sema_done" => Set("test_sema")
      /\ pc \in {"emit", "cc"} => Set("build")
      /\ pc = "report" => ~Set("test_sema") /\ ~Set("build")
  BY DEF DriverInv, PathTaken
<1>7. CASE TestSemaDone
  <2> DEFINE code == IF diag.error_count > 0 THEN 1 ELSE 0
  <2>1. /\ code \in {0, 1} /\ (code = 0 => diag.items = << >>) /\ Exit(code)
        /\ Memory(Messages, {}, Resources) /\ built' = built /\ pc = "test_sema_done"
    BY <1>7, Records DEF TestSemaDone
  <2> HIDE DEF code
  <2> QED BY <1>1, <1>2, <1>4, <1>5, <1>6, <2>1, ExitPreserves DEF Memory, Exit
<1>8. CASE BuildRejected
  <2> DEFINE code == 1
  <2>1. /\ Memory({"source"} \cup Messages, {}, Resources) /\ built' = built /\ Exit(code)
        /\ code \in {0, 1} /\ code # 0
    BY <1>8 DEF BuildRejected
  <2> HIDE DEF code
  <2> QED BY <1>1, <1>2, <1>4, <2>1, ExitPreserves DEF Memory, Exit
<1>9. CASE EmitFails
  <2> DEFINE code == 1
  <2>1. /\ Memory({}, {}, Resources \ {"messages"}) /\ built' = built /\ Exit(code)
        /\ code \in {0, 1} /\ code # 0
    BY <1>9 DEF EmitFails
  <2> HIDE DEF code
  <2> QED BY <1>1, <1>2, <1>4, <2>1, ExitPreserves DEF Memory, Exit
<1>10. ASSUME NEW ok \in BOOLEAN, CC(ok) PROVE DriverInv'
  <2>1. pc = "cc" /\ ~Bad(Len(program.tokens)) /\ ~(program.sema_errors > 0) /\ Set("build")
    BY <1>5, <1>6, <1>10 DEF CC
  <2>2. built' => built \/ (~Bad(Len(program.tokens)) /\ program.sema_errors = 0)
    BY <2>1, Records
  <2>3. CASE ok
    <3>1. Memory({}, {}, Resources) /\ Exit(0) /\ 0 \in {0, 1}
      BY <1>10, <2>3 DEF CC
    <3> QED BY <1>1, <1>2, <1>4, <2>1, <2>2, <3>1, ExitPreserves DEF Memory, Exit
  <2>4. CASE ~ok
    <3>1. Memory({}, {}, Resources \ {"messages"}) /\ Exit(1) /\ 1 \in {0, 1}
      BY <1>10, <2>4 DEF CC
    <3> QED BY <1>1, <1>2, <1>4, <2>1, <2>2, <3>1, ExitPreserves DEF Memory, Exit
  <2> QED BY <2>3, <2>4
<1>11. CASE Report
  <2> DEFINE code == ExitStatus
  <2>1. /\ code \in {0, 1} /\ (code = 0 => diag.items = << >> /\ ~had_error) /\ Exit(code)
        /\ Memory(Messages \cup Tree, {}, Resources) /\ built' = built /\ pc = "report"
    BY <1>11, Records DEF Report, ExitStatus
  <2> HIDE DEF code
  <2>2. code = 0 => ~Bad(Len(program.tokens)) /\ ~program.parse_error
    BY <1>5, <2>1
  <2>3. code = 0 /\ program.sema_errors > 0 => \A f \in {"check", "test_sema", "build"} : ~Set(f)
    BY <1>5, <1>6, <2>1
  <2> QED BY <1>1, <1>2, <1>4, <2>1, <2>2, <2>3, ExitPreserves DEF Memory, Exit
<1> QED BY <1>7, <1>8, <1>9, <1>10, <1>11

LEMMA StepPreserves == DriverInv /\ [Next]_vars => DriverInv'
<1> SUFFICES ASSUME DriverInv, [Next]_vars PROVE DriverInv'
  OBVIOUS
<1>1. CASE UNCHANGED vars
  BY <1>1 DEF vars, DriverInv, TypeOK, DiagOK, TokensOK, MemorySafe, HeapAt, OnlyMessagesLeak,
              ErrorsFound, PathTaken, BuiltFromCheckedProgram, StatusTellsErrors, Set, Bad
<1> QED BY <1>1, ParseArgPreserves, OpenInputPreserves, LexingPreserves, ParsePreserves,
           SemaPreserves, EmitPreserves, ReturnsPreserve DEF Next

-----------------------------------------------------------------------------
\* The arrays of main() and of the diagnostic engine have room for what is
\* stored in them, and the counters the exit status is read from agree with the
\* messages, for programs of any length and any first capacities.
THEOREM DriverTypeCorrect == Spec => []TypeOK
<1>1. DriverInv => TypeOK
  BY DEF DriverInv
<1> QED BY <1>1, InitEstablishes, StepPreserves, PTL DEF Spec

\* On no path of main() is something used after it was freed or freed twice.
THEOREM DriverMemorySafe == Spec => []MemorySafe
<1>1. DriverInv => MemorySafe
  BY DEF DriverInv
<1> QED BY <1>1, InitEstablishes, StepPreserves, PTL DEF Spec

\* Every return of main() has freed whatever was allocated on the way to it but the
\* messages.
THEOREM DriverFrees == Spec => []OnlyMessagesLeak
<1>1. DriverInv => OnlyMessagesLeak
  BY DEF DriverInv
<1> QED BY <1>1, InitEstablishes, StepPreserves, PTL DEF Spec

\* Whatever options come with --build, a binary is only made of a program in
\* which neither the lexer nor the semantic analysis finds an error.
THEOREM DriverBuildsChecked == Spec => []BuiltFromCheckedProgram
<1>1. DriverInv => BuiltFromCheckedProgram
  BY DEF DriverInv
<1> QED BY <1>1, InitEstablishes, StepPreserves, PTL DEF Spec

\* Exit status 0 behind a program that was read means that the passes asked for
\* found no error in it.
THEOREM DriverStatusTells == Spec => []StatusTellsErrors
<1>1. DriverInv => StatusTellsErrors
  BY DEF DriverInv
<1> QED BY <1>1, InitEstablishes, StepPreserves, PTL DEF Spec
=============================================================================
