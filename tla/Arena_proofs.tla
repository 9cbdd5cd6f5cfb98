---------------------------- MODULE Arena_proofs ----------------------------
(***************************************************************************)
(* Memory safety of the arena for every instance in which no sum of the    *)
(* code can wrap around: whatever is asked for, capacities stay at half of *)
(* the address space or less. The compiler asks for far less. The lemmas   *)
(* about a request hold for every request that is small enough, and        *)
(* ArenaLists_proofs takes them from here.                                 *)
(***************************************************************************)
EXTENDS Arena, SequenceTheorems, TLAPS

Half(n) == 2 * n <= SIZE

NoWrap ==
  /\ Half(DEFAULT_CAPACITY)
  /\ \A c \in InitialCapacities : Half(c)
  /\ \A size \in Sizes, align \in Aligns : Half(size + align)

CapacitiesSmall == \A i \in 1 .. Len(chunks) : Half(chunks[i].capacity)

\* A block's id tells how many were handed out before it.
IdsBelow == \A b \in live : b.id < blocks

ArenaInv ==
  TypeOK /\ CapacitiesSmall /\ IdsBelow /\ LiveInside /\ LiveDisjoint /\ LiveAligned

\* A request the sums of arena_alloc_aligned cannot wrap around for.
Small(size, align) ==
  size \in 0 .. SIZE - 1 /\ align \in 0 .. SIZE - 1 /\ Half(size + align)

-----------------------------------------------------------------------------
\* Rounding down to a multiple.
LEMMA RoundedIsMultiple ==
  ASSUME NEW x \in Nat, NEW a \in Nat \ {0}
  PROVE  (x - (x % a)) % a = 0
<1> DEFINE q == x \div a
<1>1. x = a * q + (x % a) /\ q \in Nat /\ x % a \in Nat
  OBVIOUS
<1> HIDE DEF q
<1>2. a * q \in Nat
  BY <1>1
<1>3. x - (x % a) = a * q
  <2> DEFINE r == x % a
             y == a * q
  <2>1. x = y + r /\ r \in Nat /\ y \in Nat
    BY <1>1, <1>2
  <2> HIDE DEF r, y
  <2>2. x - r = y
    BY <2>1
  <2> QED BY <2>2 DEF r, y
<1>4. (a * q) % a = 0
  BY <1>1
<1> QED BY <1>3, <1>4

\* What AlignedOffset and Fits compute when nothing wraps around: a multiple of
\* the alignment at or behind the bump pointer, and a block that ends inside
\* the chunk.
LEMMA AlignedBehindUsed ==
  ASSUME NEW used \in Nat, Half(used),
         NEW size, NEW align, Small(size, align), is_power_of_two(align)
  PROVE  /\ AlignedOffset(used, align) \in 0 .. SIZE - 1
         /\ used <= AlignedOffset(used, align)
         /\ (AlignedOffset(used, align) + size) % SIZE
              = AlignedOffset(used, align) + size
         /\ AlignedOffset(used, align) + size \in 0 .. SIZE - 1
         /\ AlignedOffset(used, align) % align = 0
<1> DEFINE x == used + align - 1
           r == x % align
<1>1. size \in 0 .. SIZE - 1 /\ align \in 1 .. SIZE - 1 /\ SIZE \in Nat \ {0}
  BY ArenaAssumption DEF is_power_of_two, Small
<1>2. 2 * (size + align) <= SIZE /\ 2 * used <= SIZE
  BY DEF Small, Half
<1>3. x \in 0 .. SIZE - 1 /\ x + size \in 0 .. SIZE - 1
  BY <1>1, <1>2
<1>4. x % SIZE = x
  <2> HIDE DEF x
  <2> QED BY <1>1, <1>3
<1>5. r \in 0 .. align - 1
  <2> HIDE DEF x
  <2> QED BY <1>1, <1>3
<1>6. AlignedOffset(used, align) = x - r
  BY <1>4 DEF AlignedOffset
<1>7. x - r \in 0 .. SIZE - 1 /\ used <= x - r /\ x - r + size \in 0 .. SIZE - 1
  <2> HIDE DEF r
  <2> QED BY <1>1, <1>3, <1>5
<1>8. (x - r + size) % SIZE = x - r + size
  <2> DEFINE y == x - r + size
  <2>1. y \in 0 .. SIZE - 1
    BY <1>7
  <2> HIDE DEF y
  <2>2. y % SIZE = y
    BY <1>1, <2>1
  <2> QED BY <2>2 DEF y
<1>9. (x - r) % align = 0
  <2>1. x \in Nat /\ align \in Nat \ {0}
    BY <1>1, <1>3
  <2> HIDE DEF x
  <2> QED BY <2>1, RoundedIsMultiple
<1> HIDE DEF x, r
<1> QED BY <1>6, <1>7, <1>8, <1>9

-----------------------------------------------------------------------------
LEMMA InitEstablishes == NoWrap /\ Init => ArenaInv
<1> SUFFICES ASSUME NoWrap, Init PROVE ArenaInv
  OBVIOUS
<1>1. PICK c \in InitialCapacities :
        chunks = <<[used |-> 0,
                    capacity |-> IF c = 0 THEN DEFAULT_CAPACITY ELSE c]>>
  BY DEF Init
<1> DEFINE cap == IF c = 0 THEN DEFAULT_CAPACITY ELSE c
<1>2. cap \in 0 .. SIZE - 1 /\ 2 * cap <= SIZE
  BY ArenaAssumption DEF NoWrap, Half
<1>3. chunks = <<[used |-> 0, capacity |-> cap]>>
  BY <1>1
<1> HIDE DEF cap
<1>4. /\ [used |-> 0, capacity |-> cap] \in Chunk
      /\ Len(chunks) = 1 /\ chunks[1] = [used |-> 0, capacity |-> cap]
  BY <1>2, <1>3, ArenaAssumption DEF Chunk
<1>5. chunks \in Seq(Chunk) /\ chunks # << >>
  BY <1>3, <1>4
<1>6. TypeOK /\ CapacitiesSmall
  BY <1>2, <1>4, <1>5 DEF Init, TypeOK, CapacitiesSmall, Half
<1> QED BY <1>6 DEF Init, ArenaInv, IdsBelow, LiveInside, LiveDisjoint, LiveAligned

\* The part every step that hands out a block has in common: the block lies
\* in chunk i behind everything handed out from that chunk.
LEMMA HandOut ==
  ASSUME ArenaInv,
         NEW i \in Nat, NEW off \in 0 .. SIZE - 1, NEW size \in 0 .. SIZE - 1,
         NEW align \in 0 .. SIZE - 1,
         chunks' \in Seq(Chunk), chunks' # << >>,
         \A k \in 1 .. Len(chunks') : /\ chunks'[k].used <= chunks'[k].capacity
                                      /\ Half(chunks'[k].capacity),
         Len(chunks) <= Len(chunks'),
         \A k \in 1 .. Len(chunks) : chunks[k].used <= chunks'[k].used,
         i \in 1 .. Len(chunks'), off + size <= chunks'[i].used,
         i \in 1 .. Len(chunks) => chunks[i].used <= off, off % align = 0,
         live' = live \cup {NewBlock(i, off, size, align)},
         blocks' = blocks + 1, status' = status
  PROVE  ArenaInv'
<1> DEFINE new == NewBlock(i, off, size, align)
<1>1. /\ new \in Block /\ new.id = blocks /\ new.chunk = i /\ new.off = off
      /\ new.size = size /\ new.align = align
  BY DEF new, NewBlock, Block, ArenaInv, TypeOK
<1> HIDE DEF new
<1>2. TypeOK' /\ CapacitiesSmall'
  BY <1>1 DEF ArenaInv, TypeOK, CapacitiesSmall, new
<1>3. IdsBelow'
  BY <1>1 DEF ArenaInv, TypeOK, IdsBelow, new, Block
<1>4. LiveInside'
  <2> SUFFICES ASSUME NEW b \in live'
               PROVE  b.chunk \in 1 .. Len(chunks') /\ b.off + b.size <= chunks'[b.chunk].used
    BY DEF LiveInside
  <2>1. CASE b = new
    BY <2>1, <1>1
  <2>2. CASE b \in live
    <3>1. b \in Block /\ b.chunk \in 1 .. Len(chunks)
             /\ b.off + b.size <= chunks[b.chunk].used
      BY <2>2 DEF ArenaInv, TypeOK, LiveInside
    <3>2. /\ b.chunk \in 1 .. Len(chunks')
          /\ chunks[b.chunk].used <= chunks'[b.chunk].used
      BY <3>1, LenProperties DEF ArenaInv, TypeOK
    <3>3. chunks[b.chunk] \in Chunk /\ chunks'[b.chunk] \in Chunk
      BY <3>1, <3>2 DEF ArenaInv, TypeOK
    <3>4. /\ b.off + b.size \in Int /\ chunks[b.chunk].used \in Int
          /\ chunks'[b.chunk].used \in Int
      <4>1. SIZE \in Int
        BY ArenaAssumption
      <4>2. b.off \in Int /\ b.size \in Int
        BY <3>1, <4>1 DEF Block
      <4>3. \A c \in Chunk : c.used \in Int
        BY <4>1 DEF Chunk
      <4>4. b.off + b.size \in Int
        BY <4>2
      <4> QED BY ONLY <3>3, <4>3, <4>4
    <3> DEFINE x == b.off + b.size
               y == chunks[b.chunk].used
               z == chunks'[b.chunk].used
    <3>5. x \in Int /\ y \in Int /\ z \in Int /\ x <= y /\ y <= z
      BY <3>1, <3>2, <3>4
    <3> HIDE DEF x, y, z
    <3>6. x <= z
      BY <3>5
    <3> QED BY <3>2, <3>6 DEF x, z
  <2> QED BY <2>1, <2>2 DEF new
<1>5. LiveDisjoint'
  <2> SUFFICES ASSUME NEW a \in live', NEW b \in live', a.chunk = b.chunk, a.id < b.id
               PROVE  a.off + a.size <= b.off
    BY DEF LiveDisjoint
  <2>1. CASE a \in live /\ b \in live
    BY <2>1 DEF ArenaInv, LiveDisjoint
  <2>2. CASE a \in live /\ b = new
    <3>1. a \in Block /\ a.chunk = i /\ i \in 1 .. Len(chunks)
             /\ a.off + a.size <= chunks[i].used
      BY <2>2, <1>1 DEF ArenaInv, TypeOK, LiveInside
    <3>2. chunks[i] \in Chunk
      BY <3>1 DEF ArenaInv, TypeOK
    <3> DEFINE x == a.off + a.size
               y == chunks[i].used
    <3>3. x \in Int /\ y \in Int /\ off \in Int /\ x <= y /\ y <= off
      <4>1. SIZE \in Int
        BY ArenaAssumption
      <4>2. a.off \in Int /\ a.size \in Int
        BY <3>1, <4>1 DEF Block
      <4>3. chunks[i].used \in Int
        BY <3>2, <4>1 DEF Chunk
      <4>4. chunks[i].used <= off
        BY <3>1
      <4> QED BY <3>1, <4>1, <4>2, <4>3, <4>4
    <3> HIDE DEF x, y
    <3>4. x <= off
      BY <3>3
    <3> QED BY <2>2, <3>4, <1>1 DEF x
  <2>3. CASE a = new
    <3>1. b = new \/ b.id < blocks
      BY DEF new, ArenaInv, IdsBelow
    <3>2. b = new \/ b.id \in Nat
      BY DEF new, ArenaInv, TypeOK, Block
    <3> QED BY <2>3, <3>1, <3>2, <1>1 DEF ArenaInv, TypeOK
  <2> QED BY <2>1, <2>2, <2>3 DEF new
<1>6. LiveAligned'
  BY <1>1 DEF ArenaInv, LiveAligned, new
<1> QED BY <1>2, <1>3, <1>4, <1>5, <1>6 DEF ArenaInv

LEMMA AllocInChunkPreserves ==
  ASSUME ArenaInv, NEW size, NEW align, Small(size, align),
         NEW i \in 1 .. Len(chunks), AllocInChunk(size, align, i)
  PROVE  ArenaInv'
<1> DEFINE off == AlignedOffset(chunks[i].used, align)
<1>1. /\ chunks \in Seq(Chunk) /\ chunks[i] \in Chunk
      /\ chunks[i].used <= chunks[i].capacity /\ Half(chunks[i].capacity)
  BY DEF ArenaInv, TypeOK, CapacitiesSmall
<1>2. chunks[i].used \in Nat /\ Half(chunks[i].used) /\ chunks[i].capacity \in Nat
  BY <1>1, ArenaAssumption DEF Chunk, Half
<1>3. /\ off \in 0 .. SIZE - 1 /\ chunks[i].used <= off
      /\ (off + size) % SIZE = off + size /\ off + size \in 0 .. SIZE - 1
      /\ off % align = 0
  BY <1>2, AlignedBehindUsed DEF AllocInChunk
<1> HIDE DEF off
<1>4. off + size <= chunks[i].capacity
  BY <1>3 DEF AllocInChunk, Fits, off
<1>5. chunks' = [chunks EXCEPT ![i].used = off + size]
  BY <1>3 DEF AllocInChunk, off
<1>6. /\ chunks' \in Seq(Chunk) /\ Len(chunks') = Len(chunks)
      /\ chunks'[i].used = off + size
      /\ \A k \in 1 .. Len(chunks) : chunks'[k].capacity = chunks[k].capacity
      /\ \A k \in 1 .. Len(chunks) : k # i => chunks'[k] = chunks[k]
  <2>1. chunks' = [chunks EXCEPT ![i] = [used |-> off + size, capacity |-> chunks[i].capacity]]
    <3>1. [chunks[i] EXCEPT !.used = off + size]
            = [used |-> off + size, capacity |-> chunks[i].capacity]
      BY <1>1 DEF Chunk
    <3> QED BY ONLY <1>5, <3>1
  <2>2. [used |-> off + size, capacity |-> chunks[i].capacity] \in Chunk
    BY <1>1, <1>3 DEF Chunk
  <2> QED BY <2>1, <2>2, <1>1, ExceptSeq
<1>7. \A k \in 1 .. Len(chunks) : /\ chunks'[k].used <= chunks'[k].capacity
                                  /\ Half(chunks'[k].capacity)
                                  /\ chunks[k].used <= chunks'[k].used
  <2> TAKE k \in 1 .. Len(chunks)
  <2>1. chunks[k] \in Chunk /\ chunks[k].used <= chunks[k].capacity /\ Half(chunks[k].capacity)
    BY DEF ArenaInv, TypeOK, CapacitiesSmall
  <2>2. CASE k = i
    <3>1. chunks[i].used <= off + size
      <4>1. size \in Nat /\ SIZE \in Nat
        BY ArenaAssumption DEF Small
      <4>2. chunks[i].used \in Nat
        BY <1>2
      <4>3. off \in Nat /\ chunks[i].used <= off
        BY ONLY <1>3, <4>1
      <4> QED BY ONLY <4>1, <4>2, <4>3
    <3> QED BY <2>1, <2>2, <3>1, <1>4, <1>6
  <2>3. CASE k # i
    BY <2>1, <2>3, <1>6 DEF Chunk
  <2> QED BY <2>2, <2>3
<1>8. /\ live' = live \cup {NewBlock(i, off, size, align)}
      /\ blocks' = blocks + 1 /\ status' = status
  BY DEF AllocInChunk, off
<1>9. i \in Nat /\ chunks' # << >> /\ size \in 0 .. SIZE - 1 /\ align \in 0 .. SIZE - 1
  BY <1>1, <1>6 DEF Small
<1>10. off + size <= chunks'[i].used
  BY <1>3, <1>6
<1> QED BY <1>3, <1>6, <1>7, <1>8, <1>9, <1>10, HandOut

LEMMA AllocNewChunkPreserves ==
  ASSUME Half(DEFAULT_CAPACITY), ArenaInv, NEW size, NEW align, Small(size, align),
         AllocNewChunk(size, align)
  PROVE  ArenaInv'
<1> DEFINE cap == NewCapacity(size + align)
           c == [used |-> size, capacity |-> cap]
           i == Len(chunks) + 1
<1>1. /\ size \in 0 .. SIZE - 1 /\ align \in 0 .. SIZE - 1
      /\ DEFAULT_CAPACITY \in 0 .. SIZE - 1 /\ SIZE \in Nat
      /\ size + align <= SIZE - 1
  BY ArenaAssumption DEF AllocNewChunk, Small
<1>2. cap \in 0 .. SIZE - 1 /\ Half(cap) /\ size <= cap
  BY <1>1 DEF NewCapacity, Half, Small
<1> HIDE DEF cap
<1>3. c \in Chunk
  BY <1>1, <1>2 DEF Chunk
<1>4. chunks \in Seq(Chunk) /\ chunks' = Append(chunks, c)
  BY DEF ArenaInv, TypeOK, AllocNewChunk, cap
<1>5. c.used = size /\ c.capacity = cap
  OBVIOUS
<1> HIDE DEF c
<1>6. /\ chunks' \in Seq(Chunk) /\ Len(chunks') = i /\ chunks'[i] = c
      /\ \A k \in 1 .. Len(chunks) : chunks'[k] = chunks[k]
      /\ i \in Nat /\ i \in 1 .. Len(chunks') /\ i \notin 1 .. Len(chunks)
      /\ Len(chunks) <= Len(chunks')
  BY <1>3, <1>4, AppendProperties, LenProperties
<1>7. \A k \in 1 .. Len(chunks') : /\ chunks'[k].used <= chunks'[k].capacity
                                   /\ Half(chunks'[k].capacity)
  <2> TAKE k \in 1 .. Len(chunks')
  <2>1. CASE k = i
    BY <2>1, <1>2, <1>5, <1>6
  <2>2. CASE k # i
    <3>1. k \in 1 .. Len(chunks)
      BY <2>2, <1>4, <1>6, LenProperties
    <3> QED BY <3>1, <1>6 DEF ArenaInv, TypeOK, CapacitiesSmall
  <2> QED BY <2>1, <2>2
<1>8. \A k \in 1 .. Len(chunks) : chunks[k].used <= chunks'[k].used
  <2> TAKE k \in 1 .. Len(chunks)
  <2>1. chunks[k] \in Chunk
    BY <1>4
  <2> QED BY <2>1, <1>1, <1>6 DEF Chunk
<1>9. /\ live' = live \cup {NewBlock(i, 0, size, align)}
      /\ blocks' = blocks + 1 /\ status' = status
  BY DEF AllocNewChunk
<1>10. /\ chunks' # << >> /\ 0 \in 0 .. SIZE - 1 /\ 0 + size <= chunks'[i].used
  BY <1>1, <1>5, <1>6
<1>11. 0 % align = 0
  <2>1. align \in Nat \ {0}
    BY <1>1 DEF AllocNewChunk, is_power_of_two
  <2> QED BY <2>1
<1> HIDE DEF i
<1> QED BY <1>1, <1>6, <1>7, <1>8, <1>9, <1>10, <1>11, HandOut

LEMMA ResetsPreserve ==
  ASSUME ArenaInv, Reset \/ Set \/ FreeAll
  PROVE  ArenaInv'
<1> USE DEF IdsBelow, LiveInside, LiveDisjoint, LiveAligned
<1>1. /\ chunks \in Seq(Chunk) /\ SIZE \in Nat \ {0} /\ chunks # << >>
      /\ \A k \in 1 .. Len(chunks) : chunks[k] \in Chunk
      /\ \A k \in 1 .. Len(chunks) : Half(chunks[k].capacity)
      /\ 1 \in 1 .. Len(chunks)
  BY ArenaAssumption DEF ArenaInv, TypeOK, CapacitiesSmall
<1>2. CASE Reset
  <2>1. chunks' = [i \in 1 .. Len(chunks) |->
                     [used |-> 0, capacity |-> chunks[i].capacity]]
    BY <1>1, <1>2 DEF Reset, Chunk
  <2>2. \A k \in 1 .. Len(chunks) :
           [used |-> 0, capacity |-> chunks[k].capacity] \in Chunk
    BY <1>1 DEF Chunk
  <2>3. chunks' \in Seq(Chunk) /\ Len(chunks') = Len(chunks)
    BY <1>1, <2>1, <2>2, LenProperties
  <2>4. \A k \in 1 .. Len(chunks') :
          /\ chunks'[k].used <= chunks'[k].capacity /\ Half(chunks'[k].capacity)
    BY <1>1, <2>1, <2>3 DEF Chunk
  <2>5. TypeOK' /\ CapacitiesSmall'
    <3>1. chunks' # << >>
      BY <1>1, <2>3
    <3> QED BY <1>1, <1>2, <2>3, <2>4, <3>1 DEF Reset, TypeOK, CapacitiesSmall, ArenaInv
  <2> QED BY <1>2, <2>5 DEF Reset, ArenaInv
<1>3. CASE Set
  <2>1. chunks' = [chunks EXCEPT ![1] = [used |-> 0, capacity |-> chunks[1].capacity]]
    <3>1. [chunks[1] EXCEPT !.used = 0] = [used |-> 0, capacity |-> chunks[1].capacity]
      BY <1>1 DEF Chunk
    <3>2. chunks' = [chunks EXCEPT ![1].used = 0]
      BY <1>3 DEF Set
    <3> QED BY ONLY <3>1, <3>2
  <2>2. [used |-> 0, capacity |-> chunks[1].capacity] \in Chunk
    BY <1>1 DEF Chunk
  <2>3. /\ chunks' \in Seq(Chunk) /\ Len(chunks') = Len(chunks)
        /\ chunks'[1] = [used |-> 0, capacity |-> chunks[1].capacity]
        /\ \A k \in 1 .. Len(chunks) : k # 1 => chunks'[k] = chunks[k]
    BY <1>1, <2>1, <2>2, ExceptSeq
  <2>4. \A k \in 1 .. Len(chunks') :
          /\ chunks'[k].used <= chunks'[k].capacity /\ Half(chunks'[k].capacity)
    <3> TAKE k \in 1 .. Len(chunks')
    <3>1. CASE k = 1
      BY <3>1, <1>1, <2>3 DEF Chunk
    <3>2. CASE k # 1
      BY <3>2, <1>1, <2>3 DEF ArenaInv, TypeOK
    <3> QED BY <3>1, <3>2
  <2>5. TypeOK' /\ CapacitiesSmall'
    BY <1>1, <1>3, <2>3, <2>4 DEF Set, TypeOK, CapacitiesSmall, ArenaInv
  <2>6. live' \subseteq live /\ \A b \in live' : b.chunk # 1
    BY <1>3 DEF Set
  <2>7. LiveInside'
    BY <2>3, <2>6 DEF ArenaInv
  <2>8. IdsBelow' /\ LiveDisjoint' /\ LiveAligned'
    BY <1>3, <2>6 DEF Set, ArenaInv
  <2> QED BY <2>5, <2>7, <2>8 DEF ArenaInv
<1>4. CASE FreeAll
  <2>1. [used |-> 0, capacity |-> 0] \in Chunk
    BY <1>1 DEF Chunk
  <2>2. /\ chunks' \in Seq(Chunk) /\ chunks' # << >> /\ Len(chunks') = 1
        /\ chunks'[1] = [used |-> 0, capacity |-> 0]
    BY <1>4, <2>1 DEF FreeAll
  <2>3. TypeOK' /\ CapacitiesSmall'
    BY <1>1, <1>4, <2>2 DEF FreeAll, TypeOK, CapacitiesSmall, ArenaInv, Half
  <2> QED BY <1>4, <2>3 DEF FreeAll, ArenaInv
<1> QED BY <1>2, <1>3, <1>4

LEMMA StepPreserves == NoWrap /\ ArenaInv /\ [Next]_vars => ArenaInv'
<1> SUFFICES ASSUME NoWrap, ArenaInv, [Next]_vars PROVE ArenaInv'
  OBVIOUS
<1>0. Half(DEFAULT_CAPACITY) /\ \A size \in Sizes, align \in Aligns : Small(size, align)
  BY ArenaAssumption DEF NoWrap, Small
<1>1. ASSUME NEW size \in Sizes, NEW align \in Aligns, NEW i \in 1 .. Len(chunks),
             AllocInChunk(size, align, i)
      PROVE  ArenaInv'
  BY <1>0, <1>1, AllocInChunkPreserves
<1>2. ASSUME NEW size \in Sizes, NEW align \in Aligns, AllocNewChunk(size, align)
      PROVE  ArenaInv'
  BY <1>0, <1>2, AllocNewChunkPreserves
<1>3. ASSUME NEW size \in Sizes, NEW align \in Aligns, AllocAborts(size, align)
      PROVE  ArenaInv'
  BY <1>3 DEF AllocAborts, ArenaInv, TypeOK, CapacitiesSmall, IdsBelow, LiveInside,
              LiveDisjoint, LiveAligned
<1>4. CASE Reset \/ Set \/ FreeAll
  BY <1>4, ResetsPreserve
<1>5. CASE UNCHANGED vars
  BY <1>5 DEF vars, ArenaInv, TypeOK, CapacitiesSmall, IdsBelow, LiveInside, LiveDisjoint,
              LiveAligned
<1> QED BY <1>1, <1>2, <1>3, <1>4, <1>5 DEF Next

-----------------------------------------------------------------------------
\* As long as no size_t sum of arena.c wraps around, the bump pointer of every
\* chunk stays inside the chunk, through allocations, resets and frees.
THEOREM ArenaTypeCorrect == ASSUME NoWrap PROVE Spec => []TypeOK
<1>1. Init => ArenaInv
  BY InitEstablishes
<1>2. ArenaInv /\ [Next]_vars => ArenaInv'
  BY StepPreserves
<1>3. ArenaInv => TypeOK
  BY DEF ArenaInv
<1> QED BY <1>1, <1>2, <1>3, PTL DEF Spec

\* Under the same condition every block a caller holds lies inside its chunk
\* and no two of them overlap, whatever the sizes, alignments and resets.
THEOREM ArenaMemorySafe == ASSUME NoWrap PROVE Spec => [](LiveInside /\ LiveDisjoint)
<1>1. Init => ArenaInv
  BY InitEstablishes
<1>2. ArenaInv /\ [Next]_vars => ArenaInv'
  BY StepPreserves
<1>3. ArenaInv => LiveInside /\ LiveDisjoint
  BY DEF ArenaInv
<1> QED BY <1>1, <1>2, <1>3, PTL DEF Spec

\* Under the same condition every block starts at a multiple of the alignment it
\* was asked for with.
THEOREM ArenaAligns == ASSUME NoWrap PROVE Spec => []LiveAligned
<1>1. Init => ArenaInv
  BY InitEstablishes
<1>2. ArenaInv /\ [Next]_vars => ArenaInv'
  BY StepPreserves
<1>3. ArenaInv => LiveAligned
  BY DEF ArenaInv
<1> QED BY <1>1, <1>2, <1>3, PTL DEF Spec
=============================================================================
