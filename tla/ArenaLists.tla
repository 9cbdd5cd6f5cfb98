----------------------------- MODULE ArenaLists -----------------------------
(***************************************************************************)
(* The growing lists of the syntax tree (src/ast.c) on top of the arena:   *)
(* node lists, type lists, string view lists, pattern lists, attribute     *)
(* lists. Several lists and the nodes themselves grow in the same arena in *)
(* any order; a list that is full moves to a block of twice the capacity   *)
(* and its old block stays behind, never to be used again.                 *)
(*                                                                         *)
(* The unit of size is one machine word: arena_alloc aligns to 8 bytes,    *)
(* which is one unit. Memory is one value per word. Blocks of any size and *)
(* alignment are taken from the same arena in between, and written by      *)
(* whoever took them (tokens, types, symbols). Whoever empties the arena   *)
(* has given up the lists.                                                 *)
(***************************************************************************)
EXTENDS Arena

CONSTANTS
  Lists,         \* the lists being built
  ElemSize,      \* [Lists -> words per element]
  FirstCapacity, \* capacity of a list's first block, 4 in the source
  NodeSize,      \* words of one node
  MaxPush,       \* bound: elements pushed onto one list
  MaxNodes       \* bound: nodes allocated

ASSUME ListsAssumption ==
  /\ ElemSize \in [Lists -> Nat \ {0}]
  /\ FirstCapacity \in Nat \ {0}
  /\ NodeSize \in Nat \ {0}
  /\ MaxPush \in Nat /\ MaxNodes \in Nat

VARIABLES
  mem,    \* memory: the value last written to a word, by chunk and offset
  lists,  \* [Lists -> [items, count, capacity]]
  nodes   \* how many nodes were allocated

listVars == <<chunks, live, blocks, status, mem, lists, nodes>>

\* A pointer into the arena; NULL for a list that has no block yet.
Ptr(b) == [chunk |-> b.chunk, off |-> b.off]
NULL == [chunk |-> 0, off |-> 0]

\* The i-th element pushed onto list l. It is written to every word of its slot.
Elem(l, i) == <<l, i>>

\* The words of n consecutive slots of the given size from p on.
Words(p, n) == {<<p.chunk, p.off + w>> : w \in 0 .. n - 1}

\* mem after the words of `block` are written by value(word).
Written(m, words, value(_)) ==
  [w \in DOMAIN m \cup words |-> IF w \in words THEN value(w) ELSE m[w]]

\* arena_alloc: alignment 8 bytes, one unit. The new block has id `blocks`.
arena_alloc(size) ==
  \/ \E i \in 1 .. Len(chunks) : AllocInChunk(size, 1, i)
  \/ AllocNewChunk(size, 1)

NewestBlock == CHOOSE b \in live' : b.id = blocks

NoLists == [l \in Lists |-> [items |-> NULL, count |-> 0, capacity |-> 0]]

ListsInit ==
  /\ Init
  /\ mem = << >>
  /\ lists = NoLists
  /\ nodes = 0

\* arena_alloc_aligned by anyone else, who then writes all of the block.
OtherAlloc(size, align) ==
  /\ \/ \E i \in 1 .. Len(chunks) : AllocInChunk(size, align, i)
     \/ AllocNewChunk(size, align)
  /\ mem' = Written(mem, Words(Ptr(NewestBlock), size), LAMBDA w : "other")
  /\ UNCHANGED <<lists, nodes>>

Aborts ==
  /\ \E size \in Sizes, align \in Aligns : AllocAborts(size, align)
  /\ UNCHANGED <<mem, lists, nodes>>

\* The arena is emptied in one of the three ways.
Emptied ==
  /\ mem' = << >>
  /\ lists' = NoLists
  /\ nodes' = 0

\* NEW_NODE: a block of its own, cleared.
NewNode ==
  /\ nodes < MaxNodes
  /\ arena_alloc(NodeSize)
  /\ mem' = Written(mem, Words(Ptr(NewestBlock), NodeSize), LAMBDA w : "zero")
  /\ nodes' = nodes + 1
  /\ UNCHANGED lists

\* Store an element behind the last one.
Store(m, l, p, count) ==
  Written(m, Words([p EXCEPT !.off = @ + count * ElemSize[l]], ElemSize[l]),
          LAMBDA w : Elem(l, count + 1))

\* list_push when there is room.
PushInPlace(l) ==
  /\ status = "running"
  /\ lists[l].count < MaxPush
  /\ lists[l].count < lists[l].capacity
  /\ mem' = Store(mem, l, lists[l].items, lists[l].count)
  /\ lists' = [lists EXCEPT ![l].count = @ + 1]
  /\ UNCHANGED <<chunks, live, blocks, status, nodes>>

\* Mutant: the size is counted in elements.
GrowSize_elements(l, new_cap) == new_cap

\* The words grow_array allocates for a list.
GrowSize(l, new_cap) == new_cap * ElemSize[l]

\* Mutant: as many words are copied as the list has slots.
CopiedWords_elements(l) == lists[l].capacity

\* The words grow_array copies: the whole old block.
CopiedWords(l) == lists[l].capacity * ElemSize[l]

\* list_push when the list is full: grow_array, then the store.
PushGrow(l) ==
  LET old == lists[l]
      new_cap == IF old.capacity = 0 THEN FirstCapacity ELSE 2 * old.capacity
  IN
  /\ old.count < MaxPush
  /\ old.count >= old.capacity
  /\ arena_alloc(GrowSize(l, new_cap))
  /\ LET p == Ptr(NewestBlock)
         m == Written(mem, Words(p, CopiedWords(l)),
                LAMBDA w : mem[<<old.items.chunk, old.items.off + (w[2] - p.off)>>])
     IN  /\ mem' = Store(m, l, p, old.count)
         /\ lists' = [lists EXCEPT ![l] =
                        [items |-> p, count |-> old.count + 1, capacity |-> new_cap]]
  /\ UNCHANGED nodes

ListsNext ==
  \/ NewNode
  \/ \E l \in Lists : PushInPlace(l)
  \/ \E l \in Lists : PushGrow(l)
  \/ \E size \in Sizes, align \in Aligns : OtherAlloc(size, align)
  \/ Aborts
  \/ Reset /\ Emptied
  \/ Set /\ Emptied
  \/ FreeAll /\ Emptied

ListsSpec == ListsInit /\ [][ListsNext]_listVars

-----------------------------------------------------------------------------
\* A list keeps its count within its capacity and its elements in one block of
\* the arena that is large enough for the capacity.
ListsTypeOK ==
  /\ TypeOK
  /\ nodes \in 0 .. MaxNodes
  /\ \A l \in Lists :
       /\ lists[l].count \in 0 .. lists[l].capacity
       /\ lists[l].capacity > 0 =>
            \E b \in live : /\ Ptr(b) = lists[l].items
                            /\ b.size >= lists[l].capacity * ElemSize[l]

\* Whatever was pushed onto a list is read back from it, every word of every
\* element, in the order of the pushes: neither its own moves nor the growth of
\* the other lists and nodes around it overwrite an element.
ListsReadBack ==
  \A l \in Lists : \A i \in 1 .. lists[l].count :
    \A w \in Words([lists[l].items EXCEPT !.off = @ + (i - 1) * ElemSize[l]],
                   ElemSize[l]) :
      w \in DOMAIN mem /\ mem[w] = Elem(l, i)
=============================================================================
