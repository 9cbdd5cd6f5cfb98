------------------------------- MODULE Arena -------------------------------
(***************************************************************************)
(* The arena allocator (src/arena.c) every token, syntax tree node, type   *)
(* and symbol of the compiler lives in: a list of chunks, each with a bump *)
(* pointer, searched from the first chunk on.                              *)
(*                                                                         *)
(* Sizes and offsets are size_t: sums are taken modulo SIZE = SIZE_MAX + 1 *)
(* where the code does not test them. Memory itself is left out; `live` is *)
(* the set of blocks handed out and not yet given up, which is what a      *)
(* caller may still use. ArenaLists adds memory.                           *)
(***************************************************************************)
EXTENDS Integers, Sequences, FiniteSets

CONSTANTS
  SIZE,              \* SIZE_MAX + 1
  DEFAULT_CAPACITY,  \* ARENA_DEFAULT_CAPACITY, 1 MB in the source
  InitialCapacities, \* the arguments of arena_init
  Sizes,             \* the sizes callers ask for
  Aligns,            \* the alignments callers ask for
  MaxChunks,         \* bound: chunks in the list
  MaxBlocks          \* bound: blocks handed out between two resets

ASSUME ArenaAssumption ==
  /\ SIZE \in Nat \ {0}
  /\ DEFAULT_CAPACITY \in 1 .. SIZE - 1
  /\ InitialCapacities \subseteq 0 .. SIZE - 1
  /\ Sizes \subseteq 0 .. SIZE - 1
  /\ Aligns \subseteq 0 .. SIZE - 1
  /\ MaxChunks \in Nat
  /\ MaxBlocks \in Nat

VARIABLES
  chunks,  \* the chunk list, first chunk first
  live,    \* the blocks callers hold
  blocks,  \* how many were handed out since the last reset
  status   \* "running", or "aborted" behind a call of abort()

vars == <<chunks, live, blocks, status>>

Chunk == [used : 0 .. SIZE - 1, capacity : 0 .. SIZE - 1]
Block == [id : Nat, chunk : Nat, off : 0 .. SIZE - 1, size : 0 .. SIZE - 1,
          align : 0 .. SIZE - 1]

is_power_of_two(x) == x # 0 /\ \E k \in 0 .. x : 2 ^ k = x

\* Mutant: the offset is rounded down.
AlignedOffset_down(used, align) == used - (used % align)

\* Mutant: the offset is not rounded at all.
AlignedOffset_none(used, align) == used

\* (used + align - 1) & ~(align - 1)
AlignedOffset(used, align) ==
  LET x == (used + align - 1) % SIZE IN x - (x % align)

\* Mutant: the test leaves the padding out.
Fits_without_padding(chunk, size, align) ==
  (chunk.used + size) % SIZE <= chunk.capacity

\* The test arena_alloc_aligned makes of a chunk: the sum may wrap around.
Fits(chunk, size, align) ==
  (AlignedOffset(chunk.used, align) + size) % SIZE <= chunk.capacity

\* The capacity arena_new_chunk gives a chunk.
NewCapacity(min_size) ==
  IF min_size > DEFAULT_CAPACITY THEN min_size ELSE DEFAULT_CAPACITY

NewBlock(chunk, off, size, align) ==
  [id |-> blocks, chunk |-> chunk, off |-> off, size |-> size, align |-> align]

-----------------------------------------------------------------------------
\* arena_init
Init ==
  /\ \E c \in InitialCapacities :
       chunks = <<[used |-> 0,
                   capacity |-> IF c = 0 THEN DEFAULT_CAPACITY ELSE c]>>
  /\ live = {}
  /\ blocks = 0
  /\ status = "running"

\* Mutant: the bump pointer is moved by the size alone.
AllocInChunk_no_padding(size, align, i) ==
  /\ status = "running"
  /\ is_power_of_two(align)
  /\ blocks < MaxBlocks
  /\ Fits(chunks[i], size, align)
  /\ \A k \in 1 .. i - 1 : ~Fits(chunks[k], size, align)
  /\ LET off == AlignedOffset(chunks[i].used, align)
     IN  /\ chunks' = [chunks EXCEPT ![i].used = (chunks[i].used + size) % SIZE]
         /\ live' = live \cup {NewBlock(i, off, size, align)}
  /\ blocks' = blocks + 1
  /\ UNCHANGED status

\* arena_alloc_aligned, when chunk i is the first the request fits into.
AllocInChunk(size, align, i) ==
  /\ status = "running"
  /\ is_power_of_two(align)
  /\ blocks < MaxBlocks
  /\ Fits(chunks[i], size, align)
  /\ \A k \in 1 .. i - 1 : ~Fits(chunks[k], size, align)
  /\ LET off == AlignedOffset(chunks[i].used, align)
     IN  /\ chunks' = [chunks EXCEPT ![i].used = (off + size) % SIZE]
         /\ live' = live \cup {NewBlock(i, off, size, align)}
  /\ blocks' = blocks + 1
  /\ UNCHANGED status

\* arena_alloc_aligned, when a new chunk is appended for the request.
AllocNewChunk(size, align) ==
  /\ status = "running"
  /\ is_power_of_two(align)
  /\ blocks < MaxBlocks
  /\ \A k \in 1 .. Len(chunks) : ~Fits(chunks[k], size, align)
  /\ size + align <= SIZE - 1
  /\ Len(chunks) < MaxChunks
  /\ chunks' = Append(chunks, [used |-> size, capacity |-> NewCapacity(size + align)])
  /\ live' = live \cup {NewBlock(Len(chunks) + 1, 0, size, align)}
  /\ blocks' = blocks + 1
  /\ UNCHANGED status

\* arena_alloc_aligned gives up: an invalid alignment, a request too large for
\* a chunk of its own, or no memory left for one.
AllocAborts(size, align) ==
  /\ status = "running"
  /\ \/ ~is_power_of_two(align)
     \/ /\ is_power_of_two(align)
        /\ \A k \in 1 .. Len(chunks) : ~Fits(chunks[k], size, align)
  /\ status' = "aborted"
  /\ UNCHANGED <<chunks, live, blocks>>

\* arena_reset: every chunk is empty again; no chunk is given back.
Reset ==
  /\ status = "running"
  /\ chunks' = [i \in 1 .. Len(chunks) |-> [chunks[i] EXCEPT !.used = 0]]
  /\ live' = {}
  /\ blocks' = 0
  /\ UNCHANGED status

\* arena_set: only the first chunk is empty again.
Set ==
  /\ status = "running"
  /\ chunks' = [chunks EXCEPT ![1].used = 0]
  /\ live' = {b \in live : b.chunk # 1}
  /\ UNCHANGED <<blocks, status>>

\* arena_free_all: the head stays behind with no memory at all.
FreeAll ==
  /\ status = "running"
  /\ chunks' = <<[used |-> 0, capacity |-> 0]>>
  /\ live' = {}
  /\ blocks' = 0
  /\ UNCHANGED status

Next ==
  \/ \E size \in Sizes, align \in Aligns :
       \/ \E i \in 1 .. Len(chunks) : AllocInChunk(size, align, i)
       \/ AllocNewChunk(size, align)
       \/ AllocAborts(size, align)
  \/ Reset
  \/ Set
  \/ FreeAll

Spec == Init /\ [][Next]_vars

-----------------------------------------------------------------------------
\* The bump pointer of a chunk never leaves the chunk.
TypeOK ==
  /\ chunks \in Seq(Chunk)
  /\ chunks # << >>
  /\ \A i \in 1 .. Len(chunks) : chunks[i].used <= chunks[i].capacity
  /\ live \subseteq Block
  /\ blocks \in Nat
  /\ status \in {"running", "aborted"}

\* Every block a caller holds lies in the used part of its chunk, so that no
\* write through it leaves the memory malloc returned.
LiveInside ==
  \A b \in live :
    /\ b.chunk \in 1 .. Len(chunks)
    /\ b.off + b.size <= chunks[b.chunk].used

\* No two blocks a caller holds share a byte: in a chunk, what is handed out
\* later lies behind what was handed out before, across resets of either kind.
LiveDisjoint ==
  \A a, b \in live :
    a.chunk = b.chunk /\ a.id < b.id => a.off + a.size <= b.off

\* Every block starts at a multiple of the alignment asked for.
LiveAligned == \A b \in live : b.off % b.align = 0
=============================================================================
