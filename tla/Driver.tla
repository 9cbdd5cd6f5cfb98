------------------------------- MODULE Driver -------------------------------
(***************************************************************************)
(* The compiler driver (src/main.c) and the diagnostic engine              *)
(* (src/diag.c): options, the passes each mode runs and in which order,    *)
(* the errors they report, what is freed on which path, the exit status.   *)
(*                                                                         *)
(* The passes are known by what they report. A program is a sequence of    *)
(* tokens, each good, or bad: the lexer reports a bad one whenever it      *)
(* meets it; whether the parser finds an error in it; and how many errors  *)
(* one semantic pass over its tree reports. The parser reports straight to *)
(* stderr, every other pass through diag_emit. No pass emits warnings.     *)
(***************************************************************************)
EXTENDS Integers, Sequences, FiniteSets, SequencesExt

CONSTANTS
  TokenCapacity,  \* first capacity of the token array, 256 in the source
  DiagCapacity,   \* first capacity of the diagnostics array, 16 in the source
  DumpLimit,      \* tokens --dump-tokens prints at most, 10000 in the source
  MaxArgs,        \* bound: command line arguments
  MaxTokens,      \* bound: tokens of a program
  MaxSemaErrors   \* bound: errors of one semantic pass

ASSUME DriverAssumption ==
  /\ TokenCapacity \in Nat \ {0} /\ DiagCapacity \in Nat \ {0}
  /\ DumpLimit \in Nat
  /\ MaxArgs \in Nat /\ MaxTokens \in Nat /\ MaxSemaErrors \in Nat

VARIABLES
  pc,       \* where main() is
  args,     \* the options seen so far
  input,    \* was an input file named?
  program,  \* the program in the input file
  at,       \* lexer: tokens consumed
  tokens,   \* [count, capacity] of the token array
  diag,     \* the DiagnosticEngine
  had_error,\* parser.had_error
  reported, \* sema: errors the running pass has reported
  built,    \* did cc produce the binary?
  heap,     \* [Resources -> {"none", "held", "freed"}]
  fault,    \* was something used or freed that is not held?
  status    \* exit status

vars == <<pc, args, input, program, at, tokens, diag, had_error, reported, built,
          heap, fault, status>>

\* --expand is accepted and has no effect.
Flags == {"dump_tokens", "dump_ast", "expand", "test_lexer", "test_parser",
          "check", "test_sema", "build"}
Resources == {"source", "arena", "messages", "tokens"}
Programs ==
  [tokens : BoundedSeq({"good", "bad"}, MaxTokens),
   parse_error : BOOLEAN, sema_errors : 0 .. MaxSemaErrors]

\* What the passes report, named by the place in the program it is about.
LexError(i) == <<"lexer", i>>
SemaError(i) == <<"sema", i>>

-----------------------------------------------------------------------------
\* Room for one more: an array that is full doubles, an empty one is made.
Grown(count, capacity, first) ==
  IF count < capacity THEN capacity
  ELSE IF capacity = 0 THEN first ELSE capacity * 2

\* diag_emit of an error.
diag_emit(err) ==
  [items |-> Append(diag.items, err),
   capacity |-> Grown(Len(diag.items), diag.capacity, DiagCapacity),
   error_count |-> diag.error_count + 1,
   has_errors |-> TRUE]

\* What a step does to the heap. Freeing a null pointer is allowed, which is
\* what an array that never grew is.
Memory(uses, allocs, frees) ==
  /\ fault' = \/ fault
              \/ \E r \in uses : heap[r] # "held"
              \/ \E r \in frees : heap[r] = "freed"
  /\ heap' = [r \in Resources |->
                IF r \in frees THEN IF heap[r] = "none" THEN "none" ELSE "freed"
                ELSE IF r \in allocs THEN "held" ELSE heap[r]]

\* Every node and every message points into the source, the tree is in the
\* arena.
Tree == {"source", "arena"}
Messages == IF diag.items = << >> THEN {} ELSE {"messages"}

Exit(code) == pc' = "exit" /\ status' = code
Goto(label) == pc' = label /\ UNCHANGED status

Init ==
  /\ pc = "args" /\ args = << >> /\ input = FALSE
  /\ program \in Programs
  /\ at = 0
  /\ tokens = [count |-> 0, capacity |-> 0]
  /\ diag = [items |-> << >>, capacity |-> 0, error_count |-> 0, has_errors |-> FALSE]
  /\ had_error = FALSE
  /\ reported = 0
  /\ built = FALSE
  /\ heap = [r \in Resources |-> "none"]
  /\ fault = FALSE
  /\ status = 0

-----------------------------------------------------------------------------
\* The argument loop: an option, the input file, --help or --version, an
\* unknown option, a second input file.
ParseArg ==
  /\ pc = "args"
  /\ Len(args) < MaxArgs
  /\ \/ /\ \E f \in Flags : args' = Append(args, f)
        /\ UNCHANGED <<pc, status, input>>
     \/ /\ args' = Append(args, "file")
        /\ input' = TRUE
        /\ IF input THEN Exit(1) ELSE UNCHANGED <<pc, status>>
     \/ /\ args' = Append(args, "help_or_version")
        /\ Exit(0)
        /\ UNCHANGED input
     \/ /\ args' = Append(args, "unknown")
        /\ Exit(1)
        /\ UNCHANGED input
  /\ UNCHANGED <<program, at, tokens, diag, had_error, reported, built, heap, fault>>

Set(flag) == \E i \in 1 .. Len(args) : args[i] = flag

\* Behind the loop: no input file, a file that cannot be read, or main() goes
\* on with read_file, arena_init, diag_init and lexer_init.
OpenInput ==
  /\ pc = "args"
  /\ \/ /\ Exit(1)
        /\ UNCHANGED heap
     \/ /\ input
        /\ heap' = [heap EXCEPT !["source"] = "held", !["arena"] = "held"]
        /\ Goto(IF Set("test_lexer") THEN "test_lexer"
                ELSE IF Set("dump_tokens") THEN "dump_tokens" ELSE "tokenize")
  /\ UNCHANGED <<args, input, program, at, tokens, diag, had_error, reported, built,
                 fault>>

\* One call of lexer_next: the next token is consumed and, if it is bad,
\* reported. The caller may store it in memory it allocates.
LexNext(allocs) ==
  LET bad == program.tokens[at + 1] = "bad" IN
  /\ at < Len(program.tokens)
  /\ at' = at + 1
  /\ diag' = IF bad THEN diag_emit(LexError(at + 1)) ELSE diag
  /\ Memory({"source"}, allocs \cup (IF bad THEN {"messages"} ELSE {}), {})

\* test_lexer: token kinds only. The diagnostics are not freed.
TestLexer ==
  /\ pc = "test_lexer"
  /\ \/ /\ LexNext({})
        /\ UNCHANGED <<pc, status>>
     \/ /\ at = Len(program.tokens)
        /\ Memory({}, {}, {"arena", "source"})
        /\ Exit(IF diag.has_errors THEN 1 ELSE 0)
        /\ UNCHANGED <<at, diag>>
  /\ UNCHANGED <<args, input, program, tokens, had_error, reported, built>>

\* dump_tokens stops behind the token that exceeds the limit; then lexer_init
\* again: the lexer starts over.
DumpTokens ==
  /\ pc = "dump_tokens"
  /\ \/ /\ at <= DumpLimit
        /\ LexNext({})
        /\ UNCHANGED <<pc, status>>
     \/ /\ at = Len(program.tokens) \/ at > DumpLimit
        /\ at' = 0
        /\ Goto("tokenize")
        /\ UNCHANGED <<diag, heap, fault>>
  /\ UNCHANGED <<args, input, program, tokens, had_error, reported, built>>

\* Mutant: a full array is not grown before the EOF token is stored.
PushToken_no_growth ==
  [count |-> tokens.count + 1,
   capacity |-> IF at = Len(program.tokens) THEN tokens.capacity
                ELSE Grown(tokens.count, tokens.capacity, TokenCapacity)]

\* A token is stored behind the others, growing the array when it is full.
PushToken ==
  [count |-> tokens.count + 1,
   capacity |-> Grown(tokens.count, tokens.capacity, TokenCapacity)]

\* Tokenize everything into an array for the parser; the EOF token comes last.
Tokenize ==
  /\ pc = "tokenize"
  /\ tokens' = PushToken
  /\ \/ /\ LexNext({"tokens"})
        /\ UNCHANGED <<pc, status>>
     \/ /\ at = Len(program.tokens)
        /\ Memory({}, {"tokens"}, {})
        /\ Goto("parse")
        /\ UNCHANGED <<at, diag>>
  /\ UNCHANGED <<args, input, program, had_error, reported, built>>

\* parser_init and parser_parse.
Parse ==
  /\ pc = "parse"
  /\ had_error' = program.parse_error
  /\ Memory({"tokens"} \cup Tree, {}, {})
  /\ Goto(IF Set("test_sema") THEN "test_sema"
          ELSE IF Set("check") THEN "check"
          ELSE IF Set("build") THEN "build" ELSE "report")
  /\ UNCHANGED <<args, input, program, at, tokens, diag, reported, built>>

\* sema_new and sema_run over the tree: the pass reports its errors one by
\* one, then main() goes on.
SemaRun(label) ==
  /\ \/ /\ reported < program.sema_errors
        /\ reported' = reported + 1
        /\ diag' = diag_emit(SemaError(reported + 1))
        /\ Memory(Tree, {"messages"}, {})
        /\ UNCHANGED <<pc, status>>
     \/ /\ reported = program.sema_errors
        /\ reported' = 0
        /\ Memory(Tree, {}, {})
        /\ Goto(label)
        /\ UNCHANGED diag
  /\ UNCHANGED <<args, input, program, at, tokens, had_error, built>>

\* --test-sema and --check: the pass itself.
TestSema == pc = "test_sema" /\ SemaRun("test_sema_done")

TestSemaDone ==
  /\ pc = "test_sema_done"
  /\ Memory(Messages, {}, Resources)
  /\ Exit(IF diag.error_count > 0 THEN 1 ELSE 0)
  /\ UNCHANGED <<args, input, program, at, tokens, diag, had_error, reported, built>>

Check == pc = "check" /\ SemaRun(IF Set("build") THEN "build" ELSE "report")

\* --build: a semantic pass of its own.
Build == pc = "build" /\ SemaRun("emit")

\* Reported errors end the build.
BuildRejected ==
  /\ pc = "emit"
  /\ diag.error_count > 0
  /\ Memory({"source"} \cup Messages, {}, Resources)
  /\ Exit(1)
  /\ UNCHANGED <<args, input, program, at, tokens, diag, had_error, reported, built>>

\* The C file cannot be written: the diagnostics are not freed.
EmitFails ==
  /\ pc = "emit"
  /\ diag.error_count = 0
  /\ Memory({}, {}, Resources \ {"messages"})
  /\ Exit(1)
  /\ UNCHANGED <<args, input, program, at, tokens, diag, had_error, reported, built>>

\* Mutant: code is written whatever was reported.
Emit_unchecked ==
  /\ pc = "emit"
  /\ Memory(Tree, {}, {})
  /\ Goto("cc")
  /\ UNCHANGED <<args, input, program, at, tokens, diag, had_error, reported, built>>

\* codegen_c_emit.
Emit ==
  /\ pc = "emit"
  /\ diag.error_count = 0
  /\ Memory(Tree, {}, {})
  /\ Goto("cc")
  /\ UNCHANGED <<args, input, program, at, tokens, diag, had_error, reported, built>>

\* system(cmd): cc fails, or the binary is there.
CC(ok) ==
  /\ pc = "cc"
  /\ built' = ok
  /\ Memory({}, {}, IF ok THEN Resources ELSE Resources \ {"messages"})
  /\ Exit(IF ok THEN 0 ELSE 1)
  /\ UNCHANGED <<args, input, program, at, tokens, diag, had_error, reported>>

\* Mutant: the parser's errors are not asked for.
ExitStatus_diag_only == IF diag.has_errors THEN 1 ELSE 0

\* The exit status behind the common end of main().
ExitStatus == IF diag.has_errors \/ had_error THEN 1 ELSE 0

\* Mutant: the arena is freed before the tree is printed.
Report_arena_first ==
  /\ pc = "report"
  /\ IF heap["arena"] = "held" THEN /\ Memory({}, {}, {"arena"})
                                   /\ UNCHANGED <<pc, status>>
     ELSE /\ Memory(Messages \cup Tree, {}, Resources \ {"arena"})
          /\ Exit(ExitStatus)
  /\ UNCHANGED <<args, input, program, at, tokens, diag, had_error, reported, built>>

\* Mutant: the tokens are not freed.
Report_keeps_tokens ==
  /\ pc = "report"
  /\ Memory(Messages \cup Tree, {}, Resources \ {"tokens"})
  /\ Exit(ExitStatus)
  /\ UNCHANGED <<args, input, program, at, tokens, diag, had_error, reported, built>>

\* The common end: test_parser or ast_print, diagnostics, free, return.
Report ==
  /\ pc = "report"
  /\ Memory(Messages \cup Tree, {}, Resources)
  /\ Exit(ExitStatus)
  /\ UNCHANGED <<args, input, program, at, tokens, diag, had_error, reported, built>>

Next ==
  \/ ParseArg \/ OpenInput \/ TestLexer \/ DumpTokens \/ Tokenize \/ Parse
  \/ TestSema \/ TestSemaDone \/ Check
  \/ Build \/ BuildRejected \/ EmitFails \/ Emit \/ \E ok \in BOOLEAN : CC(ok)
  \/ Report

Spec == Init /\ [][Next]_vars

-----------------------------------------------------------------------------
\* Counters and arrays agree: the token array and the diagnostics array have
\* room for what is stored, error_count and has_errors tell what is stored.
TypeOK ==
  /\ pc \in {"args", "test_lexer", "dump_tokens", "tokenize", "parse", "test_sema",
            "test_sema_done", "check", "build", "emit", "cc", "report", "exit"}
  /\ program \in Programs
  /\ at \in 0 .. Len(program.tokens)
  /\ tokens.count \in 0 .. tokens.capacity
  /\ Len(diag.items) \in 0 .. diag.capacity
  /\ diag.error_count = Len(diag.items)
  /\ diag.has_errors <=> diag.error_count > 0
  /\ reported \in 0 .. program.sema_errors
  /\ heap \in [Resources -> {"none", "held", "freed"}]
  /\ status \in {0, 1}

\* On no path of main() is memory used after it was freed, or freed twice.
MemorySafe == ~fault

\* Every path to a return frees the source, the arena and the tokens; only
\* diagnostics are left behind, on the early returns.
OnlyMessagesLeak ==
  pc = "exit" => \A r \in Resources \ {"messages"} : heap[r] # "held"

\* A binary is only ever built from a program in which lexer and semantic
\* analysis find no error, whatever other options are given with --build.
BuiltFromCheckedProgram ==
  built => /\ \A i \in 1 .. Len(program.tokens) : program.tokens[i] = "good"
           /\ program.sema_errors = 0

\* Once the input was read, exit status 0 means: no bad token; no semantic
\* error if a semantic pass was asked for; and no parse error, except under
\* --test-lexer, --test-sema and --build, which do not ask the parser.
StatusTellsErrors ==
  (pc = "exit" /\ heap["source"] = "freed" /\ status = 0) =>
    /\ \A i \in 1 .. Len(program.tokens) : program.tokens[i] = "good"
    /\ program.sema_errors > 0 =>
         Set("test_lexer") \/ (\A f \in {"check", "test_sema", "build"} : ~Set(f))
    /\ program.parse_error =>
         Set("test_lexer") \/ Set("test_sema") \/ Set("build")

\* A build that succeeds had no error to report, by the parser either.
BuildSucceedsWithoutErrors == pc = "exit" /\ built => ~had_error
=============================================================================
