# rayac in TLA+

A verification development of `rayac`, the compiler of the Raya language. The
modules model the compiler's own core logic; TLC checks them on small instances
and TLAPS proves what matters most for every instance. `PROJECT.json` maps each
definition to the lines of `src/src/` it models and lists components, runs,
mutants, findings, hazards and theorems.

## 1. The system

`rayac` is one process with one thread. `main()` runs the passes one behind the
other; they share an arena, the source text and the diagnostic engine.

    source text --> Lexer --> token array --> Parser --> syntax tree (arena)
                                                          |
                               Type table, Symbol table <-- Semantic analysis
                                                          |
                                        C backend --> C file --> cc

| Component | Source | State | Operations | Correct when |
|---|---|---|---|---|
| Driver | `main.c` | options, token array, what is allocated, exit status | the option loop, one branch per mode, nine ways to return | nothing is used behind its free; wrong programs are not built; the exit status tells errors |
| Diagnostics | `diag.c` | array of messages, `error_count`, `has_errors` | `diag_init`, `diag_emit`, `diag_print_all` | counters and array agree |
| Arena | `arena.c` | list of chunks with a bump pointer each | init, alloc, reset, set, free | blocks in use are inside their chunk, apart, aligned |
| Syntax tree | `ast.c` | nodes and five kinds of growing lists, in the arena | constructors, `*_list_push`, `grow_array`, printing | what was pushed is read back |
| Lexer | `lexer.c` | position, line, column, the token being read | `lexer_next` | ends; tokens in order, as long as possible, located and valued right |
| Parser | `parser.c` | position in the tokens, `had_error`, the C stack | one function per syntactic form | stays in the array, reports what it rejects, ends |
| Symbol table | `symbol.c` | scope chain of hash buckets | new scope, insert, lookup | agrees with lexical scoping |
| Type table | `type.c` | hash table of interned types | one constructor per type form, coercion | equal types are one pointer |
| Semantic analysis | `sema.c` | current function and its return type, self type, unsafe context, scope, method table | declarations in two passes, checks of statements and expressions | context restored on every way up; callers, bodies and backend see the same signatures and methods; defined on every program |
| C backend | `codegen_c.c` | output, indent, name counter, defer levels, loop bases | one function per node kind | the C text does what the program says, cleanup included |
| Runtime | `raya_rt.c` | none | print, abort | (about twenty lines) |
| String views | `string_view.h` | none | inline helpers | |

**How the parts interact.** The lexer is called by the driver, once per token,
and reports through `diag_emit`. The parser gets the finished token array and
reports to `stderr` and `parser.had_error` only, *not* to the diagnostic engine,
so there are two places to look for errors. Semantic analysis reports through
`diag_emit`, and one of `--check`, `--build`, `--test-sema` runs it. Tree, types
and symbols point into the arena and the source text until `main()` frees them.
The backend walks the tree behind a semantic pass; `cc` is called with
`system()`.

**What is hard.** There is no concurrency, no persistence, no timeout. What is
hard to test is (a) long legal sequences: levels, bases and bump pointers that
must agree again behind any nesting or any order of calls; (b) error paths:
loops that must go on behind a wrong token, returns that must free what was
allocated so far, one pass of several failing; (c) boundaries: ends of arrays,
the end of the text, alignment padding, growth by doubling, literal limits;
(d) what one pass knows and the next asks again: a signature resolved twice, a
value typed behind its first use, a method looked up in two directions.
The hazards, each at its line with the properties aimed at it, are in
`PROJECT.json`.

## 2. Modules

| Module | Models | How |
|---|---|---|
| `DeferScopes` | (abstract) what `defer` promises | open scopes, each with what was deferred in it; no arrays, no levels |
| `CGenDefer` | `defer` in `codegen_c.c` | `defer_stack`, `defer_depth`, `loop_defer_base`, `loop_depth` as in the code; one action per statement form |
| `CGenDefer_proofs` | | bookkeeping; refinement of `DeferScopes`; cleanup on return |
| `Arena`, `Arena_proofs` | `arena.c` | chunk list, blocks callers hold; sums modulo `SIZE` |
| `ArenaLists`, `ArenaLists_proofs` | lists and nodes of `ast.c` | EXTENDS `Arena` with memory, word by word |
| `Driver`, `Driver_proofs` | `main.c`, `diag.c` | a program counter over the passes; the heap as held / freed |
| `Lexer`, `Lexer_proofs` | `lexer.c` | one step per turn of one of its loops |
| `Parser`, `Parser_proofs` | `parser.c` | each parse function as the sequence of things it does; `todo` is the C stack |
| `Environment` | (abstract) lexical scoping | nested scopes, each a function from names to what they mean; no buckets, no chains |
| `SymbolTable` | `symbol.c` | scopes of hash buckets with chains, lookup through the parents |
| `TypeTable` | `type.c` | interned records compared by address; `st_can_coerce` |
| `SemaTypes` | types in `sema.c` | `sema_resolve_type`, array lengths, fields and methods by type name |
| `Sema` | `sema.c` | both passes; composes the four modules above |
| `Tables_proofs` | | refinement of `Environment` by every bracketed use of `SymbolTable`; interning; coercions |
| `Extrema_proofs` | | least and greatest elements of sets of naturals, for the proofs that ask for them |
| `MC...` | | instances for TLC |

Operators that begin with the word "Mutant" in their comment are plausible bugs
of the definition below them. No specification uses them; they show that the
property named with them in `PROJECT.json` can fail.

### C backend: `CGenDefer` and `DeferScopes`

The emitter walks a function body once. `cg_emit_block` opens a level of
`defer_stack`, `AST_DEFER` appends to the current level, `while` and range-`for`
record the level they stand at in `loop_defer_base`. Where control leaves,
`cg_emit_defers(downTo)` writes levels `defer_depth` down to `downTo`. In the
model `calls` is the part of the tree the walk is inside of, and every step is
one statement met next, chosen freely: a behaviour is a walk over an arbitrary
sequence of functions. `emitted` is what the step wrote, as far as `defer` is
concerned, grouped by level; `before` records that a trailing expression was
written first, and `Ran` removes code behind a `return`, which is never reached.

The slice form of `for` is modelled as the code has it: the statements of the
body are emitted in place, with no level and no base of their own.

Neither counter is tested before the cell it names is written
(`codegen_c.c:317`, `417`, `499`), and neither is it in the model: a program with
more than `MAX_DEFER_DEPTH` bodies open at once drives it behind the array. That
write is undefined behaviour, so a walk that makes it ends there (`Walking`).

`DeferScopes` knows lexical scopes and nothing else. The refinement mapping
reads scopes off `calls`. The emitter implements it under two restrictions,
which are constants: no slice loop (`LoopForms`) and no trailing expression in a
function body (`TrailingFn`), with blocks of at most `MAX_DEFERS_PER_BLOCK`
defers (`MaxDefers`); and as long as it has not written behind its arrays.

### Arena and lists: `Arena`, `ArenaLists`

`arena_alloc_aligned` takes the first chunk a request fits into, or appends a
chunk. The two cases and the `abort()` are an action each, with the code's
unchecked sums modulo `SIZE`; `Reset`, `Set` and `FreeAll` are `arena_reset`,
`arena_set` and `arena_free_all`. Only offsets are modelled: that a chunk itself
is aligned is `malloc`'s promise, for alignments up to its own.

`ArenaLists` adds memory, one value per machine word, and lists of different
element sizes growing between nodes in one arena. A push to a full list
allocates twice the capacity, copies, and stores. Its actions are those of
`Arena` (`AllocInChunk`, `AllocNewChunk`, `Reset`, ...) with what they do to
memory and lists added, so one run checks the properties of both: allocations of
other callers, which write their whole block, come between any two pushes, and
emptying the arena ends the lists.

### Driver: `Driver`

`pc` names the stretch of `main()` that runs; options come one at a time. A
program is known by what the passes report about it: good and bad tokens,
whether the parser finds an error, the errors of one semantic pass, which
reports them one by one (`SemaRun`, each through `diag_emit`). `Memory`
records use and freeing of the source, the arena, the token array and the
messages. Passes are taken to return: whether they do is the business of their own
modules (finding 4 is a parser that does not). `EmitFails` and `CC(FALSE)` are the file that cannot be opened and the
C compiler that fails.

### Lexer: `Lexer`

`lexer_next` is called until it returns `TOK_EOF`. `mode` says which of its
loops runs. `Advance` is `lexer_advance_char`, with lines and columns; comments
move the position by hand as the code does, and so get columns of their own.
`strtoll` is the C function as the lexer uses it, on the text of the literal,
saturation at `INT64_MAX` included.

### Parser: `Parser`

A parse function is a sequence of `Expect`, `Take`, `Match`, `Check`, `Loop`,
`Call`, `Return`, ... which reads like the C text; `todo` holds what is still to
be done, first thing first, with the callers' rest behind it. Of the tree only
NULL or not is kept, on which callers branch. Loops remember where their last
turn began, so that a turn that takes no token can be seen.

### Semantic analysis: `SymbolTable`, `TypeTable`, `SemaTypes`, `Sema`

**Symbols.** A scope is its buckets and its `path` from the module scope, which
stands for the parent links. `scope_insert` puts a symbol in front of its chain,
`scope_lookup` asks the scopes of the path from the inside out. `Environment`
knows neither: a scope there gives each name one meaning, and a step opens a
scope, declares a name in the innermost one, or leaves scopes, after which every
name means what it meant. `RefinesEnvironment` reads the meanings off the
buckets with the lookup of the code. `TableSpec` is how `sema.c` uses the table:
a scope is opened inside the current one, empty or with the loop variable in it;
a symbol that is new goes into the current scope, or one that is there gets its
type; the current scope is left for the one around it. The table is proved to be
right under every use of this kind, and the run of the checker shows that its
use, on every path, is one.

**Types.** A pointer to a type is its fields and a serial number, so that two
records with equal fields can be told apart, as their addresses would. The table
is the set of what was interned. Hash buckets are left out of it: the hash is a
function of fields the comparison compares, so equal types share a chain.
`noreturn` is made without the table, as `sema_resolve_type` does. Of the
integer types, which differ in sign and width only, `i32`, `i64`, `u8` and the
two sizes stand for all; the two float types and all constructors are there;
unions, enums and aliases have a struct type of their name in the
code, and so in the model. The fields of a union are another matter: the parser
builds a union as a `struct_decl`, the checker reads `union_decl.fields`, and the
two lie at different places of the node (`ast.h:199-211`). What the checker takes
for the fields is the list of generic parameters, and what it takes for the type of
such a field is a parameter's count of constraints: NULL when there are none,
otherwise a number read as a pointer (`FieldList`, `Wild`).

**The walk.** The declarations of a module are given; its bodies are not. Each
action of `Sema` is the moment at which `sema_check_expr` or `sema_check_stmt`
returns from a node, goes down into one that changes the context, or is done
with one of several children; `frames` is the C stack, with the values the code
keeps in locals (`prev`, `prev_self`, `errs_before`, `elem_type`). An operand is
what the caller learns of an expression: its type, what `expr_diverges` says of
it, whether it names a constant, and the tree where a constant may get it.
A behaviour thus is the check of one program, and all programs over the words of
the module, up to the depth of frames given with it, are checked.

**Undefined behaviour** of the checker itself is the phase `"undefined"`: a NULL
or uninitialised pointer read, a node read as one of another kind, a recursion
without end. Nothing happens behind it. The depth of the C stack is not modelled: a
program nested too deep for it is outside.

`cg_find_method` is the one function of the C backend in this part: it finds
methods again, by another way than the checker.

## 3. Runs

| Run | Properties | Shows |
|---|---|---|
| `cgen_lexical` | `RefinesScopes`, `CleanupOnReturn` | up to four nested bodies, two expressions and full levels: every exit runs the deferred expressions of exactly the scopes being left, innermost first, last deferred first |
| `cgen_all_forms` | `TypeOK`, `CountersRestored`, `ArraysSuffice` | all statement forms, more defers than a level holds, more bodies than there are levels: no level is filled past its end, counters are restored behind every nested statement, and no write goes behind the arrays before one body too many is open |
| `cgen_trailing` | `CleanupOnReturn`, violated | finding 1 |
| `arena` | `TypeOK`, `LiveInside`, `LiveDisjoint`, `LiveAligned`, `ListsTypeOK`, `ListsReadBack` | two lists that both grow twice and more, over several chunks, with nodes and any other allocations, resets of both kinds and a free in any order |
| `driver` | `TypeOK`, `MemorySafe`, `OnlyMessagesLeak`, `BuiltFromCheckedProgram`, `StatusTellsErrors` | every command line of three arguments on every program of three tokens |
| `driver_build` | `BuildSucceedsWithoutErrors`, violated | finding 2 |
| `lexer` | `TypeOK`, `TokensInOrder`, `LinesRight`, `ColumnsRight`, `MaximalMunch`, `StringsEnd`, `DecimalAndHexValues`, `Terminates` | every text of 8 characters of comments, 5 of quotes, 4 of numbers, operators and words |
| `lexer_octal` | `IntLiteralValues`, violated | finding 3 |
| `parser` | `TypeOK`, `NullMeansError`, `AcceptedIsBalanced`, `OnlyMatchArmsGetStuck`, `TerminatesOutsideMatch` | every continuation of five program beginnings by four or five tokens, nearly all of them wrong |
| `parser_match` | `Terminates`, violated | finding 4 |
| `sema` | `SemaTypeOK`, `RefinesEnvironment`, `ContextMatchesFrames`, `Interned`, `CoercionTransitive`, `SignaturesAgree`, `ElementsFit`, `MethodSignaturesAgree`, `MethodsAgree`, `UndefinedOnlyIf`, `TableSpec` | twenty small modules, one per question, with every body over their nodes: shadowing, unsafe code, methods and the lengths in their signatures, unions, error unions, divergence, constants, arrays, operators, module values, signatures, and programs that pass 1 refuses |
| `sema_else_if` | `NoUndefined`, violated | finding 5 |

### Findings

1. A function body that ends in a trailing expression: `cg_emit_block`
   (`codegen_c.c:325`) writes `return` first and the deferred expressions behind
   it. They never run.
2. `--build` (`main.c:333`) asks `diag.error_count` and never
   `parser.had_error`: a program with a parse error is compiled and the exit
   status is 0.
3. `strtoll` gets literals with their `0o` or `0b` prefix (`lexer.c:216`) and
   stops at the letter: every octal and binary literal is 0.
4. A token that starts no match arm is never taken by the loop over the arms
   (`parser.c:604`): the parser does not return, and keeps allocating.
5. `else if`: the parser makes the nested `if` the `else_block`, and
   `sema_check_block` (`sema.c:588`) reads the fields of a block from it. Every
   program with an `else if` crashes the checker.

Other deviations met while modelling are in the model as the code has them, and
the properties are stated around them: columns are wrong behind a block comment
(`ColumnsRight` excludes such lines); a string or comment cut off by the end of
the file is accepted silently (`StringsEnd`); a comment nested too deep is given
up in its middle; early returns leave the messages allocated
(`OnlyMessagesLeak`); the 33rd `defer` of a block is dropped (`DeferStmt`), the
65th nested body is written behind the array (`OpenLevel`, `ArraysSuffice`);
`--dump-tokens` and `--check --build` report every error twice.

In the checker, five things lead to undefined behaviour: `else if`; a function
without a body and with a return type; a constant that comes back to itself in an
array length; a `return`, `try` or `errdefer` in a module value in front of the
first function or method (an `extend` without methods does not count); a field of
the name of a constrained generic parameter of a union. `UndefinedOnlyIf` says that
each case of it in the run's modules is one of these. It is checked for these
modules and not proved, for trees of programs the parser accepts, and the stack
aside.

Also in the checker: the declared fields of a union cannot be reached, its generic
parameters can (`FieldList`); types
around `noreturn` are unequal to themselves (`Interned`, `SignaturesAgree`);
coercion through pointers is not transitive (`CoercionTransitive`,
`ElementsFit`); of a method defined twice the checker takes the last, the
backend the first (`MethodsAgree`); `Self` is `void` in the bodies of methods,
so that the fields of `self` cannot be reached there (`ExtendDecl`); a constant
in an array length is looked up where the length is used, not where it is
written (`ConstantNamed`), which for the signature of a method is every call
(`MethodSignaturesAgree` leaves out places where a constant is hidden); a module
value has the type `void` for what is checked in front of it (`EndModuleValue`);
the arms of a `match` and the arguments of a call
with a wrong number of them are not checked; the length of an array literal is
not compared with its elements; `break` and `continue` need no loop.

### Bounds, and why they are enough

* `CGenDefer`: `MaxNesting` (bodies open at once) and `MaxDefers` (defers in a
  body) are part of the guards. Four nested bodies are a loop inside a block
  inside a loop inside a function, so a jump has an inner and an outer loop to
  confuse; two different expressions show a wrong order. `MaxNesting` is one more
  than `MAX_DEFER_DEPTH`, so that the walks reach the write behind the arrays too.
  The theorems hold for every `MaxNesting` and every `MAX_DEFER_DEPTH`.
* `Arena`, `ArenaLists`: four chunks and four blocks let a later, smaller
  request go back to an earlier chunk. Sizes include 0 and one beyond a default
  chunk, alignments include 0 and 6, which abort. `SIZE` is large enough that no
  sum wraps around. Five pushes onto lists of first capacity 2 grow them three
  times; chunks of eight words make blocks spread over several chunks.
* `Driver`: `TokenCapacity` 2 and `DiagCapacity` 1 make both arrays grow, also
  exactly at the EOF token; three arguments are a file and any pair of options.
* `Lexer`: `MAX_COMMENT_DEPTH` 2 and `INT64_MAX` 100 are reached by the texts.
  Alphabets are split by what interacts: comments with line feeds, quotes with
  escapes, numbers with operators and identifiers.
* `Parser`: each beginning leads into the middle of one group of functions, and
  the words that follow include the ones that open, close and separate there.
  All things a function can do, `Take` at the end of the file, every loop and
  NULL results of every caller are met.
* `Sema`: two buckets, in which three names collide, so chains have more than one
  element. `MaxScopes` 5 is the module, a function, its body and two scopes in it,
  `MaxSymbols` 7 leaves three local declarations behind those of the module, its
  function and parameters. `MaxErrors` 1: the checker goes on behind an error, and the only thing
  that depends on their number is whether there are more than before (`return`)
  or any (pass 2), which one error shows. `MaxOperands` 2 are the children of a
  binary node; `MaxElements` 3 lets the type of a literal's elements change twice
  (`i32`, `i64`, `f64` or `?i64`), which is where transitivity counts. `MaxTypeDepth` 2 bounds `&` applied to `&`, and the
  depth `st_can_coerce` looks into optionals and unions, which the types of the
  instances do not exceed. `UINT64` is 16, so that `0 - 2` wraps around.

`CHECK_DEADLOCK FALSE` is used where the program ends (`Driver`, `Lexer`,
`Parser`, `Sema`), aborts (`Arena`), runs off its arrays (`CGenDefer`) or reaches a
bound (`Arena`, `ArenaLists`, `Sema`).

### Fairness

`Lexer` and `Parser` have `WF_vars(Next)`: the compiler is one thread that waits
for nothing, so it goes on as long as it can. It says nothing about which step is
taken. The other modules have no liveness property: a walk or a sequence of
allocations may stop anywhere, and `main()` ends when its passes do. That the
checker ends is part of `UndefinedOnlyIf`: the one recursion that is not on
the tree, the evaluation of constants, is endless only on a cycle.

## 4. Proofs

All proofs are checked by TLAPS with Z3, Zenon and LS4, for every value of the
constants the assumptions allow.

**`TypeCorrect`, `CountersAlwaysRestored`, `NestingFits`** (`CGenDefer_proofs`).
`Spec => []TypeOK`, `Spec => []CountersRestored` and `Spec => []ArraysSuffice`, for
all array limits and all nestings, all statement forms included. `TypeOK` goes as
far as the first write behind the arrays, which the code does not prevent; it says
that the counters are at most one beyond them then, and that no level ever holds
more than it has room for. `ArraysSuffice` says when there is no such write: as
long as at most `MAX_DEFER_DEPTH` bodies are open. None of the three is inductive:
when a body ends, the counters must become those of the body around it, which only
the frames know. `BookkeepingInv` adds `FramesChained`: each frame was entered with
the counters of the frame around it, moved on by what its own form opens, so both
counters also stay below the nesting. One lemma says that
pushing, one that popping a frame keeps the chain.

**`EmitterRefinesScopes`** (same module). `Spec => RefinesScopes` for
programs without slice loops and trailing function expressions and with at most
`MAX_DEFERS_PER_BLOCK` defers per block, of any nesting, until a write goes behind
the arrays. Two more invariants say what the arrays
hold: `LevelsMatchFrames` (level i-1 is what the i-th open body deferred, and
nothing an earlier body left there) and `LoopBasesMatchFrames` (seen from any
open body, the base recorded for its innermost loop is the level just outside
that loop's body; quantified over all open bodies, not only the top, because a
body that ends brings the one around it back). Together with `BookkeepingInv`
they are `LexicalInv`. Each action then maps to an action of `DeferScopes`.

**`EmitterCleansUp`** (same module). `Spec => CleanupOnReturn` for the same
programs: where control leaves a function, by `return` or at its closing brace,
the code it meets runs every expression deferred in the open bodies, innermost
first and last deferred first. It follows from the same invariant; a program
with a trailing function expression, which the hypothesis leaves out, is what
finding 1 is about.

**`ArenaTypeCorrect`, `ArenaMemorySafe`, `ArenaAligns`** (`Arena_proofs`).
`Spec => []TypeOK`, `Spec => [](LiveInside /\ LiveDisjoint)` and `Spec =>
[]LiveAligned`, under `NoWrap`: no requested size with its alignment, and no
capacity, is beyond half of `size_t`, and neither are the offsets then. The
hypothesis is necessary, since the test at `arena.c:72` can wrap around.
`ArenaInv` adds that capacities stay small enough (`CapacitiesSmall`) and that
the identifiers of blocks in use are below the next one (`IdsBelow`): later
blocks lie behind earlier ones of the same chunk. That the offsets are multiples
of the alignment comes down to two lemmas on remainders. The lemmas about a
request are stated for any request that is small enough, not for the members of
`Sizes`, so that the lists can use them.

**`ListsTypeCorrect`, `ListsKeepElements`, `ListsMemorySafe`**
(`ArenaLists_proofs`). `ListsSpec => []ListsTypeOK`, `[]ListsReadBack`, and the
three properties of the arena again with lists and nodes as its clients, for any
number of lists and any element sizes, under `ListsNoWrap`: `NoWrap`, and the
largest list block is within half of `size_t` too. `ListsReadBack` alone is not
inductive: an element survives another list's growth because the lists' blocks
do not overlap (`ListsApart`), and a store into the new block because that block
is apart from every block in use (`LiveDisjoint`), which needs that the lists'
blocks are in use and large enough (`Housed`). `ListsInv` is `ArenaInv` with
these. The copy of `grow_array` is the one place where words move, and slot
arithmetic (`SlotBelow`, `SlotWords`) shows that it moves all of them.

**`DriverTypeCorrect`, `DriverMemorySafe`, `DriverFrees`,
`DriverBuildsChecked`, `DriverStatusTells`** (`Driver_proofs`). The five safety
properties of the driver, for any number of arguments, tokens and errors and any
first capacities. `DriverInv` says what is held at each point of `main()`
(`HeapAt`), what the passes behind that point have left in the diagnostics
(`ErrorsFound`: by the time `main()` asks, every bad token and every semantic
error counts), and which options lead there (`PathTaken`). Without the last two,
`StatusTellsErrors` does not follow from what is stored.

**`LexerTypeCorrect`, `LexerOrdered`, `LexerLines`, `LexerColumns`,
`LexerMunches`, `LexerEndsStrings`, `LexerValues`** (`Lexer_proofs`). All seven
safety properties of the lexer, for texts of any length over any characters, any
`MAX_COMMENT_DEPTH` and any `INT64_MAX`. A token is right when it is returned
because of what was known while it was read: where it started and at which line
and column (`StartLocated`), how its base came about (`InBase`), how its string
ended (`InString`); and this is right when reading begins because the lexer's own
line and column are (`Located`). The latter has an exception, which the proof
found: behind a line comment the column is not right, and nothing is read there
before the line feed sets it. `LexerInv` joins these with the order of tokens and
start (`Ordered`). The value of a literal, a sum over its digits, is never
computed: the text given to `strtoll` is shown to be the text the property
speaks of.

**`TableIsBlockStructured`** (`Tables_proofs`). `TableSpec =>
RefinesEnvironment`, for any names, any hash function, any number of buckets,
scopes and symbols. `TableInv`: the current scope is the last one and the path of
each scope is all scopes up to it (`Nested`); the symbols of a chain have
different ranks, which are those of symbols that were there when they came
(`Ranked`), so that writing to a symbol writes to no other. `Level(sc, s)` is what
names mean in scope `s` of the scopes `sc`, without paths, and `VisibleIs` shows
that it is what the lookup of the code says. The rest are facts about levels: a
symbol at the head of its chain hides its own name and no other
(`FirstInserted`, `LevelInserted`); an empty scope is at the level of the one
around it (`LevelEmpty`); a level depends on its own scope and those in front
(`LevelLocal`), which is why leaving a scope brings every meaning back. Each step
of `TableSpec` then is a step of `Environment`. TLC checks `TableSpec` of the
checker itself in the run `sema`, where `RefinesEnvironment` is checked as well.

**`TypesStayInterned`** (`Tables_proofs`). `TypesSpec => []Interned`, where a
step of `TypesSpec` is one call of a constructor of `type.c` on any types in hand
or the making of a `noreturn`. A step of `Sema` makes several such calls, one on
the result of the other. The lemma `InternType` says what each gives: the record
of the shape, in the table, the same one when asked again, and every earlier
record still there.

**`CoercionsStayTransitive`** (`Tables_proofs`). `TypesSpec => [](Shallow =>
CoercionTransitive)`, whatever types are built. `Targets` follows the recursion
of `st_can_coerce` for `MaxTypeDepth` levels, which is all of it when no type of
the table is nested deeper: that is `Shallow`, as the types of the run `sema` are
(the code has no bound, and for every table some bound will do). `ShallowAtFirst`
says that the empty table is. Then the targets of a type are closed
(`TargetsClosed`), and the least set that is (`TargetsLeast`); so what the second
conversion goes into is a target of its target already, and the two direct
coercions left compose (`CoercesOn`), because numbers have bit widths, of which
only the order counts (`Measured`, kept by every constructor). Levels are counted
up from 0, and what is shown of each is shown by the least level where it would
fail (`LevelByLevel`).

**`ParserTypeCorrect`, `NullIsReported`** (`Parser_proofs`). `Spec => []TypeOK`
and `Spec => []NullMeansError`, for every sequence of tokens, from the assumption
that tokens are strings. Neither is inductive, since a step does whatever `todo`
holds. `ParserInv` says what it may hold: well-formed things (`Thing`), a `Take`
only as the first of them and only when a token is there, a `Return("null")` only
behind an `Error`, or first when an error has been reported (`Ready`). A thing is
well-formed when its parts are (`Shape`): who expects or matches tokens does not
mean the end of the file, what follows a check takes a token only where the check
says that there is one, and what `IfNull` holds may return NULL again because one
was returned. `Thing` is membership in some set closed under taking parts, which
needs no induction: `ThingParts` and `ThingMade` are all that is used of it. The
lemmas of "The parse functions" then show of each of them that it is well-formed;
a change of the grammar is checked there, one function at a time.

**`LoopsMoveOn`** (`Parser_proofs`). `Spec => []OnlyMatchArmsGetStuck`, for every
sequence of tokens: the only loop of `parser.c` that can begin two turns at one
token is that over the arms of a match (finding 4), and then an error has been
reported. The property looks at a loop when its turn is over; in between, `todo`
must say why the turn will not end where it began. `Moving` says it, for every loop
in `todo` whose turn began at the present token (`Goes`). One of these holds:

* the token is certain to be taken next (`Certain`): what comes first takes it, or
  does nothing unless it takes one. So a statement takes the keyword the block has
  seen, a declaration the one it is entered with, an attribute its `#`;
* in front of the loop, in its own function, stands a `Guard`: a thing that takes a
  token or leaves the loop whichever branch is taken, as most loops have one. It
  stays in front of the loop until it is done, whatever the calls before it do,
  because a `Break` or a `Return` among them leaves only what was begun later;
* a declaration is being looked for (`AtTop`): the function does nothing but skip
  until it takes a token or returns NULL, and then recovery takes one;
* it is an arm of a match, and its `=>` is still expected (`Sees`), or an error has
  been reported.

Bodies of loops have this of their own (`Turns`), shown function by function in
"The parse functions: how they are written". `Guard` and `Written`, like `Thing`,
are membership in some set closed under taking parts. The step from `ParserInv` and
`Moving` has one lemma per way of taking a step: a token is taken, a thing is
replaced by others, a loop begins a turn, a loop or a function is left.

**`AcceptedBalances`** (`Parser_proofs`). `Spec => []AcceptedIsBalanced`, for every
sequence of tokens: when `parser_parse` returns and no error has been reported, all
tokens have been taken and their brackets are in order, of the three kinds and
properly nested. The property looks at the end; in between, `todo` must say how the
brackets taken so far will be closed. The argument has three parts:

* **what a thing does to the open brackets.** `Leads(x, a, b, l, f)`: done without
  an error, x leads from the stack of open brackets `a` to `b`, unless it leaves its
  loop, then with one of `l`, or its function, then with one of `f`. It is membership
  in some set of such judgements that is closed under `Rule`, one disjunct per kind
  of thing: an `Expect` of a bracket pushes or pops, the two branches of a `Match`
  lead to the same stack or report an error, a turn of a loop ends, or is broken
  off, with the stack it began with, a call leaves the stack as it was;
* **what a parse function does.** It leads from any stack back to that stack, also
  when it returns half-way (`BodiesFlat`). "The brackets of the parse functions"
  shows it function by function, as a path (`Path`) of stacks through the body; so
  what `Rule` says of a call holds of the body of what is called;
* **what is to be done.** `Agenda(todo, a)`: the first thing leads from the open
  brackets `a` to some `b` that the rest closes, and where it may leave a loop or a
  function with other brackets open, the rest behind the nearest loop in a turn, or
  the nearest end of a function, closes those. The last thing is the loop over the
  declarations, which is reached with no bracket open and left only at the end of
  the tokens.

The inductive invariant `Bracketed` says that `todo` is an agenda for the brackets
open at `pos` (`Level`), unless an error has been reported or is about to be. It
has one step per action. A token that is taken unasked is one of those the check
in front of it has named, no bracket among them (`NoBracket`), or it is skipped by
recovery, and then an error has been reported. The invariant also says that "eof" is none of
the tokens, from `ParserAssumption`: `lexer_next` returns `TOK_EOF` behind the text
only, and `main.c` stops there; were it a token in the middle, the loop over the
declarations would end in front of the rest.

The inductive invariants were checked by TLC on the instances of the runs before
they were proved. `Thing`, `Guard`, `Written`, `Leads` and `Agenda` quantify over
all sets, which TLC cannot do: `Moving` was checked with recursive operators in
place of `Guard` and `Written`, `Thing` and `Bracketed` not at all.

**Only model-checked.** Liveness, which is beyond the prover: that `parser_parse`
returns (`TerminatesOutsideMatch`) is liveness, of which `LoopsMoveOn` is the
safety half for loops, not for recursion. The properties of `Sema` itself:
`SemaTypes` and `Sema` walk type and constant expressions with RECURSIVE operators,
so no theorem can be about them; what they rest on, the two tables, is proved.

## 5. What is not modelled

* A deferred expression that holds a block (`defer unsafe { ... };`). A `return`
  in it makes `cg_emit_defers` call itself without end; planned.
* Text: expressions, types and declarations of the C backend, `ast_print`,
  printing of diagnostics. Structural recursion without state of interest.
* The constructors of `ast.c`: they fill in fields.
* `malloc` that fails for the token and message arrays: the code does not test
  it. For arena chunks it does, and `AllocAborts` is that case.
* `lexer_peek`, `lexer_advance`, `diag_free`: nothing calls them. Float values.
* The tree the parser builds, hence precedence; planned.
* In the checker: the texts of its reports (`st_name`, `st_print`) and
  `is_error_return`, which it leaves in the tree for the backend; the parts of
  `st_from_ast` that `sema_resolve_type` has done itself before it calls it.
  Trees with NULL children, which the parser leaves behind an error.
* The runtime of compiled programs: it prints or aborts.

## 6. Plan

The order is by weight in the program.

1. Done: `CGenDefer` with its abstract specification and proofs; `Arena` with
   its proofs and `ArenaLists`; `Driver`; `Lexer`; `Parser`; `Environment`,
   `SymbolTable`, `TypeTable`, `SemaTypes` and `Sema`.
   Proofs of the safety properties of `Arena`, `ArenaLists`, `Driver`,
   `Lexer` and `Parser`, of `SymbolTable` against `Environment`, and of
   interning and coercions.
2. `Parser` trees: precedence and associativity of `parser_parse_expr_bp`
   against a reference definition, over all short operator sequences.
3. Deferred blocks: re-entry of `cg_emit_defers`.
