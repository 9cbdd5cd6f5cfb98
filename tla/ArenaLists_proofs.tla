-------------------------- MODULE ArenaLists_proofs --------------------------
(***************************************************************************)
(* The lists of the syntax tree keep what is pushed onto them, for any     *)
(* number of lists, element sizes and capacities, however their growth and *)
(* the other allocations interleave, as long as no size wraps around.      *)
(***************************************************************************)
EXTENDS ArenaLists, Arena_proofs

\* The requests the lists make are small enough too: a list is grown only when
\* it is full and another element is pushed, so its capacity stays below
\* twice the number of pushes.
Capacity(n) == n <= FirstCapacity \/ n <= 2 * MaxPush
ListsNoWrap ==
  /\ NoWrap
  /\ Half(NodeSize + 1)
  /\ \A l \in Lists : \A n \in Nat : Capacity(n) => Half(n * ElemSize[l] + 1)

Pointer == [chunk : Nat, off : Nat]

\* The word d words behind p.
Word(p, d) == <<p.chunk, p.off + d>>

ListShape ==
  /\ lists \in [Lists -> [items : Pointer, count : Nat, capacity : Nat]]
  /\ \A l \in Lists : lists[l].count <= lists[l].capacity /\ Capacity(lists[l].capacity)
  /\ nodes \in 0 .. MaxNodes

\* A list that has a block owns one that is large enough.
Housed ==
  \A l \in Lists : lists[l].capacity > 0 =>
    \E b \in live : /\ Ptr(b) = lists[l].items
                    /\ b.size >= lists[l].capacity * ElemSize[l]

\* No two lists share a word.
ListsApart ==
  \A l, m \in Lists :
    l # m /\ lists[l].capacity > 0 /\ lists[m].capacity > 0 =>
      \A d \in 0 .. lists[l].capacity * ElemSize[l] - 1 :
        \A e \in 0 .. lists[m].capacity * ElemSize[m] - 1 :
          Word(lists[l].items, d) # Word(lists[m].items, e)

\* ListsReadBack word by word.
ReadBack ==
  \A l \in Lists : \A c \in Nat : \A k \in 0 .. ElemSize[l] - 1 :
    c < lists[l].count =>
      /\ Word(lists[l].items, c * ElemSize[l] + k) \in DOMAIN mem
      /\ mem[Word(lists[l].items, c * ElemSize[l] + k)] = Elem(l, c + 1)

ListsInv == ArenaInv /\ ListShape /\ Housed /\ ListsApart /\ ReadBack

-----------------------------------------------------------------------------
\* Slots of the same size: the words of slot c lie below those of later slots.
LEMMA SlotBelow ==
  ASSUME NEW e \in Nat \ {0}, NEW c \in Nat, NEW n \in Nat, c < n, NEW k \in 0 .. e - 1
  PROVE  c * e + k \in Nat /\ c * e + k < n * e /\ n * e \in Nat /\ c * e \in Nat
<1>1. c * e \in Nat /\ n * e \in Nat /\ (c + 1) * e = c * e + e /\ (c + 1) * e \in Nat
  OBVIOUS
<1>2. (c + 1) * e <= n * e
  <2>1. c + 1 <= n /\ c + 1 \in Nat
    OBVIOUS
  <2> DEFINE d == c + 1
  <2>2. d <= n /\ d \in Nat
    BY <2>1
  <2> HIDE DEF d
  <2>3. d * e <= n * e
    BY <2>2
  <2> QED BY <2>3 DEF d
<1> DEFINE x == c * e
           y == n * e
<1>3. x \in Nat /\ y \in Nat /\ x + e <= y
  BY <1>1, <1>2
<1> HIDE DEF x, y
<1>4. x + k \in Nat /\ x + k < y
  BY <1>3
<1> QED BY <1>3, <1>4 DEF x, y

\* The words of a slot.
LEMMA SlotWords ==
  ASSUME NEW p \in Pointer, NEW e \in Nat \ {0}, NEW c \in Nat, NEW w
  PROVE  w \in Words([p EXCEPT !.off = @ + c * e], e)
           <=> \E k \in 0 .. e - 1 : w = Word(p, c * e + k)
<1> DEFINE q == [p EXCEPT !.off = @ + c * e]
           x == c * e
<1>1. q.chunk = p.chunk /\ q.off = p.off + x /\ p.off \in Nat /\ x \in Nat
  BY DEF Pointer
<1> HIDE DEF q, x
<1>2. \A k \in 0 .. e - 1 : q.off + k = p.off + (x + k)
  BY <1>1
<1>3. Words(q, e) = {Word(p, x + k) : k \in 0 .. e - 1}
  BY <1>1, <1>2 DEF Words, Word
<1> QED BY <1>3 DEF q, x

\* What is read back word by word is read back.
LEMMA ReadBackSuffices == ListShape /\ ReadBack => ListsReadBack
<1> SUFFICES ASSUME ListShape, ReadBack, NEW l \in Lists, NEW i \in 1 .. lists[l].count,
                    NEW w \in Words([lists[l].items EXCEPT !.off = @ + (i - 1) * ElemSize[l]],
                                    ElemSize[l])
             PROVE  w \in DOMAIN mem /\ mem[w] = Elem(l, i)
  BY DEF ListsReadBack
<1>1. /\ lists[l].items \in Pointer /\ lists[l].count \in Nat /\ ElemSize[l] \in Nat \ {0}
  BY ListsAssumption DEF ListShape
<1> DEFINE c == i - 1
<1>2. c \in Nat /\ c < lists[l].count /\ c + 1 = i
  BY <1>1
<1> HIDE DEF c
<1>3. w \in Words([lists[l].items EXCEPT !.off = @ + c * ElemSize[l]], ElemSize[l])
  BY DEF c
<1>4. PICK k \in 0 .. ElemSize[l] - 1 : w = Word(lists[l].items, c * ElemSize[l] + k)
  BY <1>1, <1>2, <1>3, SlotWords
<1> QED BY <1>2, <1>4 DEF ReadBack

-----------------------------------------------------------------------------
\* What an allocation leaves: a block of the size asked for, newer than every
\* block handed out before.
Allocated(size) ==
  /\ ArenaInv' /\ live \subseteq live'
  /\ NewestBlock \in live' /\ NewestBlock \in Block
  /\ NewestBlock.id = blocks /\ NewestBlock.size = size

LEMMA AllocGivesBlock ==
  ASSUME Half(DEFAULT_CAPACITY), ArenaInv, NEW size, NEW align, Small(size, align),
         \/ \E i \in 1 .. Len(chunks) : AllocInChunk(size, align, i)
         \/ AllocNewChunk(size, align)
  PROVE  Allocated(size)
<1>1. ArenaInv'
  BY AllocInChunkPreserves, AllocNewChunkPreserves
<1>2. \E nb : live' = live \cup {nb} /\ nb.id = blocks /\ nb.size = size
  <2>1. ASSUME NEW i \in 1 .. Len(chunks), AllocInChunk(size, align, i)
        PROVE  \E nb : live' = live \cup {nb} /\ nb.id = blocks /\ nb.size = size
    <3> DEFINE nb == NewBlock(i, AlignedOffset(chunks[i].used, align), size, align)
    <3>1. live' = live \cup {nb} /\ nb.id = blocks /\ nb.size = size
      BY <2>1 DEF AllocInChunk, NewBlock
    <3> QED BY <3>1
  <2>2. ASSUME AllocNewChunk(size, align)
        PROVE  \E nb : live' = live \cup {nb} /\ nb.id = blocks /\ nb.size = size
    <3> DEFINE nb == NewBlock(Len(chunks) + 1, 0, size, align)
    <3>1. live' = live \cup {nb} /\ nb.id = blocks /\ nb.size = size
      BY <2>2 DEF AllocNewChunk, NewBlock
    <3> QED BY <3>1
  <2> QED BY <2>1, <2>2
<1>3. PICK nb : live' = live \cup {nb} /\ nb.id = blocks /\ nb.size = size
  BY <1>2
<1>4. \A b \in live : b.id # blocks
  <2>1. \A b \in live : b \in Block /\ b.id < blocks
    BY DEF ArenaInv, TypeOK, IdsBelow
  <2> QED BY <2>1 DEF Block, ArenaInv, TypeOK
<1>5. NewestBlock = nb
  BY <1>3, <1>4 DEF NewestBlock
<1>6. nb \in Block
  BY <1>1, <1>3 DEF ArenaInv, TypeOK
<1> QED BY <1>1, <1>3, <1>5, <1>6 DEF Allocated

\* Everything in an older block lies before the newest block, or in another
\* chunk.
LEMMA OldBeforeNewest ==
  ASSUME ArenaInv, NEW size, Allocated(size), NEW b \in live,
         NEW d \in Nat, d < b.size, NEW e \in Nat
  PROVE  Word(Ptr(b), d) # Word(Ptr(NewestBlock), e)
<1> DEFINE nb == NewestBlock
<1>1. /\ nb \in live' /\ nb \in Block /\ nb.id = blocks /\ b \in live' /\ b \in Block
      /\ b.id < blocks /\ LiveDisjoint'
  BY DEF Allocated, ArenaInv, TypeOK, IdsBelow
<1> HIDE DEF nb
<1>2. b.chunk = nb.chunk => b.off + b.size <= nb.off
  BY <1>1 DEF LiveDisjoint
<1>3. b.off \in Nat /\ b.size \in Nat /\ nb.off \in Nat
  BY <1>1, ArenaAssumption DEF Block
<1>4. b.chunk = nb.chunk => b.off + d # nb.off + e
  BY <1>2, <1>3
<1> QED BY <1>4 DEF Word, Ptr, nb

\* The words of a list lie in its block.
LEMMA ListHoused ==
  ASSUME ArenaInv, ListShape, Housed, NEW l \in Lists, NEW d \in Nat,
         d < lists[l].capacity * ElemSize[l], lists[l].capacity > 0
  PROVE  \E b \in live : Ptr(b) = lists[l].items /\ d < b.size
<1>1. PICK b \in live : Ptr(b) = lists[l].items /\ b.size >= lists[l].capacity * ElemSize[l]
  BY DEF Housed
<1>2. b.size \in Nat
  BY ArenaAssumption DEF ArenaInv, TypeOK, Block
<1>3. lists[l].capacity * ElemSize[l] \in Nat
  BY ListsAssumption DEF ListShape
<1> QED BY <1>1, <1>2, <1>3

\* So an allocation whose block is written keeps every element of every list.
KeptOutsideNewest ==
  /\ DOMAIN mem \subseteq DOMAIN mem'
  /\ \A w \in DOMAIN mem :
       (\A e \in Nat : w # Word(Ptr(NewestBlock), e)) => mem'[w] = mem[w]

LEMMA ElementsKept ==
  ASSUME ListsInv, NEW size, Allocated(size), KeptOutsideNewest,
         NEW l \in Lists, NEW c \in Nat, c < lists[l].count, NEW k \in 0 .. ElemSize[l] - 1
  PROVE  /\ Word(lists[l].items, c * ElemSize[l] + k) \in DOMAIN mem'
         /\ mem'[Word(lists[l].items, c * ElemSize[l] + k)] = Elem(l, c + 1)
<1> DEFINE d == c * ElemSize[l] + k
           w == Word(lists[l].items, d)
<1>1. /\ lists[l].count \in Nat /\ lists[l].capacity \in Nat /\ ElemSize[l] \in Nat \ {0}
      /\ lists[l].count <= lists[l].capacity
  BY ListsAssumption DEF ListsInv, ListShape
<1>2. c < lists[l].capacity /\ lists[l].capacity > 0
  BY <1>1
<1>3. d \in Nat /\ d < lists[l].capacity * ElemSize[l]
  BY <1>1, <1>2, SlotBelow
<1>4. w \in DOMAIN mem /\ mem[w] = Elem(l, c + 1)
  BY DEF ListsInv, ReadBack
<1> HIDE DEF d
<1>5. PICK b \in live : Ptr(b) = lists[l].items /\ d < b.size
  BY <1>2, <1>3, ListHoused DEF ListsInv
<1>6. \A e \in Nat : w # Word(Ptr(NewestBlock), e)
  BY <1>3, <1>5, OldBeforeNewest DEF ListsInv
<1>7. w \in DOMAIN mem' /\ mem'[w] = Elem(l, c + 1)
  BY <1>4, <1>6 DEF KeptOutsideNewest
<1> QED BY <1>7 DEF d

\* NEW_NODE and every other user of the arena: the lists are where they were.
LEMMA OtherAllocKeeps ==
  ASSUME ListsInv, NEW size, Allocated(size), KeptOutsideNewest, UNCHANGED lists, nodes' \in 0 .. MaxNodes
  PROVE  ListsInv'
<1>1. ListShape' /\ ListsApart'
  BY DEF ListsInv, ListShape, ListsApart
<1>2. Housed'
  BY DEF ListsInv, Housed, Allocated
<1>3. ReadBack'
  BY ElementsKept DEF ReadBack
<1> QED BY <1>1, <1>2, <1>3 DEF ListsInv, Allocated

\* A list grows by a push in place: its own elements and those of the other
\* lists are in other words.
LEMMA PushInPlaceKeeps ==
  ASSUME ListsInv, NEW l \in Lists, PushInPlace(l)
  PROVE  ListsInv'
<1> DEFINE old == lists[l]
           e == ElemSize[l]
           slot == Words([old.items EXCEPT !.off = @ + old.count * e], e)
<1>1. /\ old.count \in Nat /\ old.capacity \in Nat /\ old.count < old.capacity
      /\ old.items \in Pointer /\ e \in Nat \ {0}
  BY ListsAssumption DEF PushInPlace, ListsInv, ListShape
<1>2. /\ DOMAIN mem' = DOMAIN mem \cup slot
      /\ \A w \in slot : mem'[w] = Elem(l, old.count + 1)
      /\ \A w \in DOMAIN mem \ slot : mem'[w] = mem[w]
  BY DEF PushInPlace, Store, Written
<1>3. \A w : w \in slot <=> \E j \in 0 .. e - 1 : w = Word(old.items, old.count * e + j)
  BY <1>1, SlotWords
<1>4. /\ UNCHANGED <<chunks, live, blocks, status, nodes>>
      /\ lists' = [lists EXCEPT ![l].count = @ + 1]
  BY DEF PushInPlace
<1>5. ArenaInv'
  BY <1>4 DEF ListsInv, ArenaInv, TypeOK, CapacitiesSmall, IdsBelow, LiveInside,
              LiveDisjoint, LiveAligned
<1>6. /\ lists' \in [Lists -> [items : Pointer, count : Nat, capacity : Nat]]
      /\ \A m \in Lists : /\ lists'[m].items = lists[m].items
                           /\ lists'[m].capacity = lists[m].capacity
      /\ \A m \in Lists : m # l => lists'[m].count = lists[m].count
      /\ lists'[l].count = old.count + 1
  BY <1>4 DEF ListsInv, ListShape
<1>7. ListShape'
  BY <1>1, <1>4, <1>6 DEF ListsInv, ListShape
<1>8. Housed' /\ ListsApart'
  BY <1>4, <1>6 DEF ListsInv, Housed, ListsApart
<1> HIDE DEF slot
<1>9. ReadBack'
  <2> SUFFICES ASSUME NEW m \in Lists, NEW c \in Nat, NEW k \in 0 .. ElemSize[m] - 1,
                      c < lists'[m].count
               PROVE  /\ Word(lists'[m].items, c * ElemSize[m] + k) \in DOMAIN mem'
                      /\ mem'[Word(lists'[m].items, c * ElemSize[m] + k)] = Elem(m, c + 1)
    BY DEF ReadBack
  <2> DEFINE w == Word(lists[m].items, c * ElemSize[m] + k)
  <2>0. Word(lists'[m].items, c * ElemSize[m] + k) = w
    <3>1. lists'[m].items = lists[m].items
      BY <1>6
    <3> QED BY <3>1
  <2> SUFFICES w \in DOMAIN mem' /\ mem'[w] = Elem(m, c + 1)
    BY <2>0
  <2>1. lists[m].count \in Nat /\ lists[m].capacity \in Nat /\ ElemSize[m] \in Nat \ {0}
          /\ lists[m].count <= lists[m].capacity
    BY ListsAssumption DEF ListsInv, ListShape
  <2>2. CASE c < lists[m].count
    <3>1. w \in DOMAIN mem /\ mem[w] = Elem(m, c + 1)
      BY <2>2 DEF ListsInv, ReadBack
    <3>2. w \notin slot
      <4> SUFFICES ASSUME NEW j \in 0 .. e - 1
                   PROVE  w # Word(old.items, old.count * e + j)
        BY <1>3
      <4>1. old.count * e + j \in Nat /\ old.count * e + j < old.capacity * e
              /\ old.count * e \in Nat /\ old.capacity * e \in Nat
        BY <1>1, SlotBelow
      <4>2. c * ElemSize[m] + k \in Nat /\ c * ElemSize[m] + k < lists[m].count * ElemSize[m]
        BY <2>1, <2>2, SlotBelow
      <4>3. CASE m = l
        <5> DEFINE x == c * e + k
                   y == old.count * e
        <5>1. x \in Nat /\ x < y /\ y \in Nat /\ old.items.off \in Nat
          BY <1>1, <4>1, <4>2, <4>3 DEF Pointer
        <5> HIDE DEF x, y
        <5>2. old.items.off + x # old.items.off + (y + j)
          BY <5>1
        <5> QED BY <4>3, <5>2 DEF Word, x, y
      <4>4. CASE m # l
        <5>1. c < lists[m].capacity /\ lists[m].capacity > 0 /\ old.capacity > 0
          BY <1>1, <2>1, <2>2
        <5>2. c * ElemSize[m] + k \in Nat
                 /\ c * ElemSize[m] + k < lists[m].capacity * ElemSize[m]
                 /\ lists[m].capacity * ElemSize[m] \in Nat
          BY <2>1, <5>1, SlotBelow
        <5> DEFINE x == c * ElemSize[m] + k
                   y == old.count * e + j
                   xs == lists[m].capacity * ElemSize[m]
                   ys == old.capacity * e
        <5>3. x \in Nat /\ x < xs /\ xs \in Nat /\ y \in Nat /\ y < ys /\ ys \in Nat
          BY <4>1, <5>2
        <5> HIDE DEF x, y, xs, ys
        <5>4. x \in 0 .. xs - 1 /\ y \in 0 .. ys - 1
          BY <5>3
        <5> QED BY <4>4, <5>1, <5>4 DEF ListsInv, ListsApart, x, y, xs, ys
      <4> QED BY <4>3, <4>4
    <3> HIDE DEF w
    <3> QED BY <1>2, <3>1, <3>2
  <2>3. CASE ~(c < lists[m].count)
    <3>1. m = l
      <4>1. m # l => lists'[m].count = lists[m].count
        BY <1>6
      <4> QED BY <2>3, <4>1
    <3>2. c < old.count + 1 /\ ~(c < old.count)
      BY <1>6, <2>3, <3>1
    <3>3. c = old.count
      BY <1>1, <3>2
    <3>4. w \in slot
      BY <1>3, <3>1, <3>3
    <3> HIDE DEF w
    <3> QED BY <1>2, <3>1, <3>3, <3>4
  <2> QED BY <2>2, <2>3
<1> QED BY <1>5, <1>7, <1>8, <1>9 DEF ListsInv

\* A full list moves: the copy holds every element, the store goes behind them,
\* and the new block is no other list's.
LEMMA PushGrowKeeps ==
  ASSUME ListsNoWrap, ListsInv, NEW l \in Lists, PushGrow(l)
  PROVE  ListsInv'
<1> DEFINE old == lists[l]
           e == ElemSize[l]
           new_cap == IF old.capacity = 0 THEN FirstCapacity ELSE 2 * old.capacity
           p == Ptr(NewestBlock)
           copied == Words(p, old.capacity * e)
           slot == Words([p EXCEPT !.off = @ + old.count * e], e)
           size == new_cap * e
<1>1. /\ old.count \in Nat /\ old.capacity = old.count /\ old.count < MaxPush
      /\ old.items \in Pointer /\ e \in Nat \ {0} /\ MaxPush \in Nat
  <2>1. old.count < MaxPush /\ old.count >= old.capacity
    BY DEF PushGrow
  <2>2. /\ old \in [items : Pointer, count : Nat, capacity : Nat]
        /\ old.count <= old.capacity
    BY DEF ListsInv, ListShape
  <2> QED BY <2>1, <2>2, ListsAssumption
<1>2. new_cap \in Nat /\ old.count + 1 <= new_cap /\ Capacity(new_cap)
  BY <1>1, ListsAssumption DEF Capacity
<1>3. /\ arena_alloc(size)
      /\ lists' = [lists EXCEPT ![l] =
                     [items |-> p, count |-> old.count + 1, capacity |-> new_cap]]
      /\ UNCHANGED nodes
  BY DEF PushGrow, GrowSize
<1>4. /\ DOMAIN mem' = DOMAIN mem \cup copied \cup slot
      /\ \A w \in slot : mem'[w] = Elem(l, old.count + 1)
      /\ \A w \in copied \ slot :
           mem'[w] = mem[<<old.items.chunk, old.items.off + (w[2] - p.off)>>]
      /\ \A w \in DOMAIN mem \ (copied \cup slot) : mem'[w] = mem[w]
  BY DEF PushGrow, Store, Written, CopiedWords
<1> HIDE DEF new_cap
<1>5. Allocated(size)
  <2>1. size \in Nat
    BY <1>1, <1>2
  <2>2. Half(size + 1)
    BY <1>2 DEF ListsNoWrap
  <2> HIDE DEF size
  <2>3. Small(size, 1)
    BY <2>1, <2>2, ArenaAssumption DEF Small, Half
  <2> QED BY <1>3, <2>3, AllocGivesBlock DEF arena_alloc, ListsInv, ListsNoWrap, NoWrap
<1>6. p \in Pointer /\ NewestBlock \in live' /\ NewestBlock.size = size
  BY <1>5, ArenaAssumption DEF Allocated, Block, Pointer, Ptr
<1> HIDE DEF p
<1>7. \A w : w \in slot <=> \E j \in 0 .. e - 1 : w = Word(p, old.count * e + j)
  BY <1>1, <1>6, SlotWords
<1>8. \A w : w \in copied <=> \E d \in 0 .. old.capacity * e - 1 : w = Word(p, d)
  BY DEF Words, Word
<1> HIDE DEF copied, slot
<1>9. KeptOutsideNewest
  <2>1. \A w \in slot : \E d \in Nat : w = Word(p, d)
    <3>1. \A j \in 0 .. e - 1 : old.count * e + j \in Nat
      BY <1>1
    <3> QED BY <1>7, <3>1
  <2>2. \A w \in copied : \E d \in Nat : w = Word(p, d)
    <3>1. old.capacity * e \in Nat
      BY <1>1
    <3> QED BY <1>8, <3>1
  <2> QED BY <1>4, <2>1, <2>2 DEF KeptOutsideNewest, p
<1>10. /\ lists' \in [Lists -> [items : Pointer, count : Nat, capacity : Nat]]
       /\ \A m \in Lists : m # l => lists'[m] = lists[m]
       /\ lists'[l].items = p /\ lists'[l].count = old.count + 1
       /\ lists'[l].capacity = new_cap
  <2>1. [items |-> p, count |-> old.count + 1, capacity |-> new_cap]
          \in [items : Pointer, count : Nat, capacity : Nat]
    BY <1>1, <1>2, <1>6
  <2> QED BY <1>3, <2>1 DEF ListsInv, ListShape
<1>11. ListShape'
  BY <1>1, <1>2, <1>3, <1>10 DEF ListsInv, ListShape
<1>12. Housed'
  <2> SUFFICES ASSUME NEW m \in Lists, lists'[m].capacity > 0
               PROVE  \E b \in live' : /\ Ptr(b) = lists'[m].items
                                      /\ b.size >= lists'[m].capacity * ElemSize[m]
    BY DEF Housed
  <2>1. CASE m = l
    <3>1. size \in Nat
      BY <1>1, <1>2
    <3> QED BY <1>6, <1>10, <2>1, <3>1 DEF p
  <2>2. CASE m # l
    BY <1>5, <1>10, <2>2 DEF ListsInv, Housed, Allocated
  <2> QED BY <2>1, <2>2
<1>13. ListsApart'
  <2>1. ASSUME NEW m \in Lists, m # l, lists[m].capacity > 0,
               NEW d \in 0 .. lists[m].capacity * ElemSize[m] - 1, NEW x \in Nat
        PROVE  Word(lists[m].items, d) # Word(p, x)
    <3>1. d \in Nat /\ d < lists[m].capacity * ElemSize[m]
      <4>1. lists[m].capacity * ElemSize[m] \in Nat
        BY ListsAssumption DEF ListsInv, ListShape
      <4> QED BY <4>1
    <3>2. PICK b \in live : Ptr(b) = lists[m].items /\ d < b.size
      BY <2>1, <3>1, ListHoused DEF ListsInv
    <3> QED BY <1>5, <3>1, <3>2, OldBeforeNewest DEF ListsInv, p
  <2>2. size \in Nat
    BY <1>1, <1>2
  <2> SUFFICES ASSUME NEW a \in Lists, NEW m \in Lists, a # m,
                      lists'[a].capacity > 0, lists'[m].capacity > 0,
                      NEW d \in 0 .. lists'[a].capacity * ElemSize[a] - 1,
                      NEW x \in 0 .. lists'[m].capacity * ElemSize[m] - 1
               PROVE  Word(lists'[a].items, d) # Word(lists'[m].items, x)
    BY DEF ListsApart
  <2>3. CASE a # l /\ m # l
    BY <1>10, <2>3 DEF ListsInv, ListsApart
  <2>4. CASE m = l
    <3>1. x \in Nat
      BY <1>10, <2>2, <2>4
    <3>2. lists'[a] = lists[a] /\ lists'[m].items = p
      BY <1>10, <2>4
    <3> QED BY <2>1, <2>4, <3>1, <3>2
  <2>5. CASE a = l
    <3>1. d \in Nat
      BY <1>10, <2>2, <2>5
    <3>2. lists'[m] = lists[m] /\ lists'[a].items = p
      BY <1>10, <2>5
    <3> QED BY <2>1, <2>5, <3>1, <3>2
  <2> QED BY <2>3, <2>4, <2>5
<1>14. ReadBack'
  <2> SUFFICES ASSUME NEW m \in Lists, NEW c \in Nat, NEW k \in 0 .. ElemSize[m] - 1,
                      c < lists'[m].count
               PROVE  /\ Word(lists'[m].items, c * ElemSize[m] + k) \in DOMAIN mem'
                      /\ mem'[Word(lists'[m].items, c * ElemSize[m] + k)] = Elem(m, c + 1)
    BY DEF ReadBack
  <2>1. CASE m # l
    <3>1. lists'[m] = lists[m]
      BY <1>10, <2>1
    <3>2. c < lists[m].count
      BY <3>1
    <3> QED BY <1>5, <1>9, <3>1, <3>2, ElementsKept
  <2>2. CASE m = l
    <3> DEFINE d == c * e + k
               w == Word(p, d)
    <3>1. k \in 0 .. e - 1 /\ c < old.count + 1
      BY <1>10, <2>2
    <3>2. Word(lists'[m].items, c * ElemSize[m] + k) = w
      BY <1>10, <2>2
    <3>3. CASE c < old.count
      <4>1. d \in Nat /\ d < old.count * e /\ old.count * e \in Nat
        BY <1>1, <3>1, <3>3, SlotBelow
      <4>2. /\ Word(old.items, d) \in DOMAIN mem
            /\ mem[Word(old.items, d)] = Elem(l, c + 1)
        BY <3>1, <3>3 DEF ListsInv, ReadBack
      <4> DEFINE y == old.count * e
      <4>3. y \in Nat /\ d < y
        BY <4>1
      <4>4. \A u : u \in slot <=> \E j \in 0 .. e - 1 : u = Word(p, y + j)
        BY <1>7
      <4>5. \A u : u \in copied <=> \E x \in 0 .. y - 1 : u = Word(p, x)
        BY <1>1, <1>8
      <4>6. p.off \in Nat /\ d \in Nat
        BY <1>6, <4>1 DEF Pointer
      <4> HIDE DEF y, d
      <4>7. w \notin slot
        BY <1>1, <4>3, <4>4, <4>6 DEF Word
      <4>8. w \in copied
        BY <4>3, <4>5, <4>6
      <4>9. w[2] - p.off = d
        BY <4>6 DEF Word
      <4>10. mem'[w] = mem[Word(old.items, d)]
        BY <1>4, <4>7, <4>8, <4>9 DEF Word
      <4> HIDE DEF w
      <4> QED BY <1>4, <2>2, <3>2, <4>2, <4>8, <4>10
    <3>4. CASE ~(c < old.count)
      <4>1. c = old.count
        BY <1>1, <3>1, <3>4
      <4>2. w \in slot
        BY <1>7, <3>1, <4>1
      <4> HIDE DEF w
      <4> QED BY <1>4, <2>2, <3>2, <4>1, <4>2
    <3> QED BY <3>3, <3>4
  <2> QED BY <2>1, <2>2
<1> QED BY <1>5, <1>11, <1>12, <1>13, <1>14 DEF ListsInv, Allocated

-----------------------------------------------------------------------------
\* Lists that have no block yet have nothing to lose.
LEMMA EmptyLists ==
  lists = NoLists /\ nodes = 0 => ListShape /\ Housed /\ ListsApart /\ ReadBack
<1> SUFFICES ASSUME lists = NoLists, nodes = 0
             PROVE  ListShape /\ Housed /\ ListsApart /\ ReadBack
  OBVIOUS
<1>1. \A l \in Lists : /\ lists[l].items = NULL /\ lists[l].count = 0 /\ lists[l].capacity = 0
  BY DEF NoLists
<1>2. lists \in [Lists -> [items : Pointer, count : Nat, capacity : Nat]]
  BY DEF NoLists, NULL, Pointer
<1>3. ListShape
  BY <1>1, <1>2, ListsAssumption DEF ListShape, Capacity
<1>4. Housed /\ ListsApart
  BY <1>1 DEF Housed, ListsApart
<1>5. ReadBack
  <2>1. \A l \in Lists : \A c \in Nat : ~(c < lists[l].count)
    BY <1>1
  <2> QED BY <2>1 DEF ReadBack
<1> QED BY <1>3, <1>4, <1>5

LEMMA EmptiedKeeps ==
  ASSUME ListsInv, Reset \/ Set \/ FreeAll, Emptied
  PROVE  ListsInv'
<1>1. ArenaInv'
  BY ResetsPreserve DEF ListsInv
<1>2. (lists = NoLists /\ nodes = 0)'
  BY DEF Emptied, NoLists
<1>3. (ListShape /\ Housed /\ ListsApart /\ ReadBack)'
  BY <1>2, EmptyLists, PTL
<1> QED BY <1>1, <1>3 DEF ListsInv

LEMMA ListsInitEstablishes == ListsNoWrap /\ ListsInit => ListsInv
BY InitEstablishes, EmptyLists DEF ListsNoWrap, ListsInit, ListsInv

LEMMA ListsStepPreserves == ListsNoWrap /\ ListsInv /\ [ListsNext]_listVars => ListsInv'
<1> SUFFICES ASSUME ListsNoWrap, ListsInv, [ListsNext]_listVars PROVE ListsInv'
  OBVIOUS
<1>1. /\ Half(DEFAULT_CAPACITY)
      /\ \A size \in Sizes, align \in Aligns : Small(size, align)
  BY ArenaAssumption DEF ListsNoWrap, NoWrap, Small
<1>2. \A n \in Int : \A w \in Words(Ptr(NewestBlock), n) :
        \E e \in Nat : w = Word(Ptr(NewestBlock), e)
  BY DEF Words, Word
<1>3. CASE NewNode
  <2>1. Small(NodeSize, 1)
    BY ListsAssumption, ArenaAssumption DEF ListsNoWrap, Small, Half
  <2>2. Allocated(NodeSize)
    BY <1>1, <1>3, <2>1, AllocGivesBlock DEF NewNode, arena_alloc, ListsInv
  <2> DEFINE words == Words(Ptr(NewestBlock), NodeSize)
  <2>3. mem' = [w \in DOMAIN mem \cup words |-> IF w \in words THEN "zero" ELSE mem[w]]
    BY <1>3 DEF NewNode, Written
  <2>4. \A w \in words : \E e \in Nat : w = Word(Ptr(NewestBlock), e)
    BY <1>2, ListsAssumption
  <2> HIDE DEF words
  <2>5. KeptOutsideNewest
    BY <2>3, <2>4 DEF KeptOutsideNewest
  <2>6. UNCHANGED lists /\ nodes' \in 0 .. MaxNodes
    <3>1. UNCHANGED lists /\ nodes < MaxNodes /\ nodes' = nodes + 1
      BY <1>3 DEF NewNode
    <3>2. nodes \in 0 .. MaxNodes
      BY DEF ListsInv, ListShape
    <3> QED BY <3>1, <3>2, ListsAssumption
  <2> QED BY <2>2, <2>5, <2>6, OtherAllocKeeps
<1>4. ASSUME NEW size \in Sizes, NEW align \in Aligns, OtherAlloc(size, align)
      PROVE  ListsInv'
  <2>1. Allocated(size)
    BY <1>1, <1>4, AllocGivesBlock DEF OtherAlloc, ListsInv
  <2> DEFINE words == Words(Ptr(NewestBlock), size)
  <2>2. mem' = [w \in DOMAIN mem \cup words |-> IF w \in words THEN "other" ELSE mem[w]]
    BY <1>4 DEF OtherAlloc, Written
  <2>3. \A w \in words : \E e \in Nat : w = Word(Ptr(NewestBlock), e)
    <3>1. size \in Int
      BY ArenaAssumption
    <3> QED BY <1>2, <3>1
  <2> HIDE DEF words
  <2>4. KeptOutsideNewest
    BY <2>2, <2>3 DEF KeptOutsideNewest
  <2>5. UNCHANGED lists /\ nodes' \in 0 .. MaxNodes
    BY <1>4 DEF OtherAlloc, ListsInv, ListShape
  <2> QED BY <2>1, <2>4, <2>5, OtherAllocKeeps
<1>5. CASE Aborts \/ UNCHANGED listVars
  <2>1. /\ UNCHANGED <<chunks, live, blocks, mem, lists, nodes>>
        /\ status' \in {status, "aborted"}
    BY <1>5 DEF Aborts, AllocAborts, listVars
  <2>2. ArenaInv'
    BY <2>1 DEF ListsInv, ArenaInv, TypeOK, CapacitiesSmall, IdsBelow, LiveInside,
                LiveDisjoint, LiveAligned
  <2> QED BY <2>1, <2>2 DEF ListsInv, ListShape, Housed, ListsApart, ReadBack
<1>6. CASE (Reset /\ Emptied) \/ (Set /\ Emptied) \/ (FreeAll /\ Emptied)
  BY <1>6, EmptiedKeeps
<1>7. CASE \E l \in Lists : PushInPlace(l) \/ PushGrow(l)
  BY <1>7, PushInPlaceKeeps, PushGrowKeeps
<1> QED BY <1>3, <1>4, <1>5, <1>6, <1>7 DEF ListsNext

-----------------------------------------------------------------------------
\* A list's count never exceeds its capacity and its elements are in a block of
\* the arena that has room for all of its capacity, through every growth.
THEOREM ListsTypeCorrect == ASSUME ListsNoWrap PROVE ListsSpec => []ListsTypeOK
<1>1. ListsInit => ListsInv
  BY ListsInitEstablishes
<1>2. ListsInv /\ [ListsNext]_listVars => ListsInv'
  BY ListsStepPreserves
<1>3. ListsInv => ListsTypeOK
  BY DEF ListsInv, ListShape, Housed, ListsTypeOK, ArenaInv
<1> QED BY <1>1, <1>2, <1>3, PTL DEF ListsSpec

\* What is pushed onto a list is read back from it: neither grow_array's copy
\* nor any other list, node or block of the arena overwrites an element.
THEOREM ListsKeepElements == ASSUME ListsNoWrap PROVE ListsSpec => []ListsReadBack
<1>1. ListsInit => ListsInv
  BY ListsInitEstablishes
<1>2. ListsInv /\ [ListsNext]_listVars => ListsInv'
  BY ListsStepPreserves
<1>3. ListsInv => ListsReadBack
  BY ReadBackSuffices DEF ListsInv
<1> QED BY <1>1, <1>2, <1>3, PTL DEF ListsSpec

\* The blocks of the lists and nodes stay inside their chunks, apart from each
\* other and from every other block, and aligned.
THEOREM ListsMemorySafe ==
  ASSUME ListsNoWrap PROVE ListsSpec => [](LiveInside /\ LiveDisjoint /\ LiveAligned)
<1>1. ListsInit => ListsInv
  BY ListsInitEstablishes
<1>2. ListsInv /\ [ListsNext]_listVars => ListsInv'
  BY ListsStepPreserves
<1>3. ListsInv => LiveInside /\ LiveDisjoint /\ LiveAligned
  BY DEF ListsInv, ArenaInv
<1> QED BY <1>1, <1>2, <1>3, PTL DEF ListsSpec
=============================================================================
