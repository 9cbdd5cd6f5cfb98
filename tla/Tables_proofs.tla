---------------------------- MODULE Tables_proofs ----------------------------
(***************************************************************************)
(* Proofs about the checker's two tables: every bracketed use of the       *)
(* symbol table gives block-structured names, for any names, hash          *)
(* function, number of buckets, scopes and symbols; types stay interned    *)
(* and coercions transitive whatever types are built.                      *)
(***************************************************************************)
EXTENDS SymbolTable, TypeTable, Extrema_proofs, SequenceTheorems, FiniteSetTheorems, TLAPS

-----------------------------------------------------------------------------
(* Chains *)

\* Where the name stands in a chain, and the symbol it means there.
Hits(chain, n) == {i \in 1 .. Len(chain) : chain[i].name = n}
First(chain, n) == IF Hits(chain, n) = {} THEN NoSymbol ELSE chain[Min(Hits(chain, n))]

LEMMA LeastHit ==
  ASSUME NEW chain, Len(chain) \in Nat, NEW n, Hits(chain, n) # {}
  PROVE  /\ Min(Hits(chain, n)) \in Hits(chain, n)
         /\ \A i \in Hits(chain, n) : Min(Hits(chain, n)) <= i
<1>1. Hits(chain, n) \in SUBSET Nat
  BY DEF Hits
<1> QED BY <1>1, LeastNatural

\* A symbol at the head hides those of its name and no other.
LEMMA FirstInserted ==
  ASSUME NEW S, NEW chain \in Seq(S), NEW sym \in S, NEW n
  PROVE  /\ Hits(<<sym>> \o chain, n) # {} <=> (sym.name = n \/ Hits(chain, n) # {})
         /\ sym.name = n => First(<<sym>> \o chain, n) = sym
         /\ sym.name # n => First(<<sym>> \o chain, n) = First(chain, n)
<1> DEFINE longer == <<sym>> \o chain
<1>1. /\ longer \in Seq(S) /\ Len(chain) \in Nat /\ Len(longer) = Len(chain) + 1
      /\ longer[1] = sym
      /\ \A i \in 1 .. Len(chain) : longer[i + 1] = chain[i]
  OBVIOUS
<1> HIDE DEF longer
<1>2. 1 \in Hits(longer, n) <=> sym.name = n
  BY <1>1 DEF Hits
<1>3. \A i \in 1 .. Len(chain) : i + 1 \in Hits(longer, n) <=> i \in Hits(chain, n)
  BY <1>1 DEF Hits
<1>4. \A i \in Hits(longer, n) : i = 1 \/ (i - 1 \in Hits(chain, n) /\ i \in Nat /\ i > 1)
  <2> SUFFICES ASSUME NEW i \in Hits(longer, n), i # 1
               PROVE  i - 1 \in Hits(chain, n) /\ i \in Nat /\ i > 1
    OBVIOUS
  <2>1. i \in 1 .. Len(chain) + 1
    BY <1>1 DEF Hits
  <2>2. i - 1 \in 1 .. Len(chain) /\ (i - 1) + 1 = i
    BY <1>1, <2>1
  <2> QED BY <1>3, <2>1, <2>2
<1>5. \A i \in Hits(chain, n) : i \in 1 .. Len(chain) /\ i + 1 \in Hits(longer, n)
  BY <1>3 DEF Hits
<1>6. Hits(longer, n) # {} <=> (sym.name = n \/ Hits(chain, n) # {})
  BY <1>2, <1>4, <1>5
<1>7. ASSUME sym.name = n PROVE First(longer, n) = sym
  <2>1. /\ Min(Hits(longer, n)) \in Hits(longer, n)
        /\ Min(Hits(longer, n)) <= 1
    BY <1>1, <1>2, <1>7, LeastHit
  <2>2. Min(Hits(longer, n)) = 1
    BY <1>4, <2>1
  <2> QED BY <1>1, <1>2, <1>7, <2>2 DEF First
<1>8. ASSUME sym.name # n PROVE First(longer, n) = First(chain, n)
  <2>1. CASE Hits(chain, n) = {}
    BY <1>6, <1>8, <2>1 DEF First
  <2>2. CASE Hits(chain, n) # {}
    <3> DEFINE m == Min(Hits(longer, n))
               k == Min(Hits(chain, n))
    <3>1. m \in Hits(longer, n) /\ \A i \in Hits(longer, n) : m <= i
      BY <1>1, <1>6, <2>2, LeastHit
    <3>2. k \in Hits(chain, n) /\ \A i \in Hits(chain, n) : k <= i
      BY <1>1, <2>2, LeastHit
    <3> HIDE DEF m, k
    <3>3. m - 1 \in Hits(chain, n) /\ m \in Nat
      BY <1>2, <1>4, <1>8, <3>1
    <3>4. k \in 1 .. Len(chain) /\ k + 1 \in Hits(longer, n)
      BY <1>5, <3>2
    <3>5. k <= m - 1 /\ m <= k + 1
      BY <3>1, <3>2, <3>3, <3>4
    <3>6. m = k + 1
      BY <3>3, <3>4, <3>5
    <3>7. longer[m] = chain[k]
      BY <1>1, <3>4, <3>6
    <3> QED BY <1>6, <2>2, <3>7 DEF First, m, k
  <2> QED BY <2>1, <2>2
<1> QED BY <1>6, <1>7, <1>8 DEF longer

\* Symbols that keep name and identity are found as before.
LEMMA FirstUpdated ==
  ASSUME NEW old, NEW new, Len(old) \in Nat, Len(new) = Len(old),
         \A i \in 1 .. Len(old) : new[i].name = old[i].name /\ new[i].id = old[i].id,
         NEW n
  PROVE  Hits(new, n) = Hits(old, n) /\ First(new, n).id = First(old, n).id
<1>1. Hits(new, n) = Hits(old, n)
  BY DEF Hits
<1>2. CASE Hits(old, n) = {}
  BY <1>1, <1>2 DEF First
<1>3. CASE Hits(old, n) # {}
  <2>1. Min(Hits(old, n)) \in 1 .. Len(old)
    BY <1>3, LeastHit DEF Hits
  <2> QED BY <1>1, <1>3, <2>1 DEF First
<1> QED BY <1>1, <1>2, <1>3

-----------------------------------------------------------------------------
(* Levels: what the names mean in a scope of a sequence of scopes *)

Chain(sc, s, n) == sc[s].buckets[Bucket(n)]
Knows(sc, s, n) == Hits(Chain(sc, s, n), n) # {}
Knowing(sc, s, n) == {k \in 1 .. s : Knows(sc, k, n)}
Lookup(sc, s, n) ==
  IF Knowing(sc, s, n) = {} THEN NoSymbol ELSE First(Chain(sc, Max(Knowing(sc, s, n)), n), n)
EntriesOf(sc, s) ==
  UNION {{<<i, b, j>> : j \in 1 .. Len(sc[i].buckets[b])} : i \in 1 .. s, b \in 0 .. BUCKETS - 1}
Count(sc, s) == Cardinality(EntriesOf(sc, s))
Level(sc, s) == [means |-> [n \in Names |-> Lookup(sc, s, n).id], size |-> Count(sc, s)]
Levels(sc) == [s \in 1 .. Len(sc) |-> Level(sc, s)]

LEMMA BucketInside ==
  ASSUME NEW n \in Names
  PROVE  Bucket(n) \in 0 .. BUCKETS - 1
<1>1. hash_sv(n) \in Nat /\ BUCKETS \in Nat \ {0}
  BY SymbolTableAssumption
<1> DEFINE h == hash_sv(n)
<1> HIDE DEF h
<1>2. h % BUCKETS \in 0 .. BUCKETS - 1
  BY <1>1 DEF h
<1> QED BY <1>2 DEF Bucket, h

LEMMA EntryIs ==
  ASSUME NEW sc, NEW s
  PROVE  \A e : e \in EntriesOf(sc, s) <=>
           \E i \in 1 .. s, b \in 0 .. BUCKETS - 1 :
             \E j \in 1 .. Len(sc[i].buckets[b]) : e = <<i, b, j>>
<1> DEFINE Row(i, b) == {<<i, b, j>> : j \in 1 .. Len(sc[i].buckets[b])}
           Rows == {Row(i, b) : i \in 1 .. s, b \in 0 .. BUCKETS - 1}
<1>1. \A i, b, e : e \in Row(i, b) <=> \E j \in 1 .. Len(sc[i].buckets[b]) : e = <<i, b, j>>
  OBVIOUS
<1>2. EntriesOf(sc, s) = UNION Rows
  BY DEF EntriesOf
<1> HIDE DEF Row
<1>3. \A e : e \in UNION Rows <=> \E i \in 1 .. s, b \in 0 .. BUCKETS - 1 : e \in Row(i, b)
  OBVIOUS
<1> QED BY <1>1, <1>2, <1>3

LEMMA GreatestKnowing ==
  ASSUME NEW sc, NEW s \in Nat, NEW n, Knowing(sc, s, n) # {}
  PROVE  /\ Max(Knowing(sc, s, n)) \in Knowing(sc, s, n)
         /\ \A k \in Knowing(sc, s, n) : k <= Max(Knowing(sc, s, n))
<1>1. Knowing(sc, s, n) \in SUBSET (0 .. s)
  BY DEF Knowing
<1> QED BY <1>1, GreatestNatural

\* A scope decides on the names it knows and leaves the others to those around it.
LEMMA LookupOutward ==
  ASSUME NEW sc, NEW s \in Nat, NEW n
  PROVE  Lookup(sc, s + 1, n) =
           IF Knows(sc, s + 1, n) THEN First(Chain(sc, s + 1, n), n) ELSE Lookup(sc, s, n)
<1>1. CASE Knows(sc, s + 1, n)
  <2>1. s + 1 \in Knowing(sc, s + 1, n)
    BY <1>1 DEF Knowing
  <2>2. /\ Max(Knowing(sc, s + 1, n)) \in Knowing(sc, s + 1, n)
        /\ s + 1 <= Max(Knowing(sc, s + 1, n))
    BY <2>1, GreatestKnowing
  <2>3. Max(Knowing(sc, s + 1, n)) \in 1 .. s + 1
    BY <2>2 DEF Knowing
  <2>4. Max(Knowing(sc, s + 1, n)) = s + 1
    BY <2>2, <2>3
  <2> QED BY <1>1, <2>1, <2>4 DEF Lookup
<1>2. CASE ~Knows(sc, s + 1, n)
  <2>1. Knowing(sc, s + 1, n) = Knowing(sc, s, n)
    <3>1. \A k \in 1 .. s + 1 : k = s + 1 \/ k \in 1 .. s
      OBVIOUS
    <3> QED BY <1>2, <3>1 DEF Knowing
  <2> QED BY <1>2, <2>1 DEF Lookup
<1> QED BY <1>1, <1>2

\* What a scope's level is depends on it and on the scopes around it.
LEMMA LevelLocal ==
  ASSUME NEW sc, NEW tc, NEW s \in Nat, \A k \in 1 .. s : tc[k].buckets = sc[k].buckets
  PROVE  /\ Level(tc, s) = Level(sc, s) /\ EntriesOf(tc, s) = EntriesOf(sc, s)
         /\ \A n : Lookup(tc, s, n) = Lookup(sc, s, n)
<1>1. \A n : \A k \in 1 .. s : Chain(tc, k, n) = Chain(sc, k, n)
  BY DEF Chain
<1>2. \A n : Knowing(tc, s, n) = Knowing(sc, s, n)
  BY <1>1 DEF Knowing, Knows
<1>3. ASSUME NEW n PROVE Lookup(tc, s, n) = Lookup(sc, s, n)
  <2>1. CASE Knowing(sc, s, n) = {}
    BY <1>2, <2>1 DEF Lookup
  <2>2. CASE Knowing(sc, s, n) # {}
    <3>1. Max(Knowing(sc, s, n)) \in 1 .. s
      BY <2>2, GreatestKnowing DEF Knowing
    <3> QED BY <1>1, <1>2, <2>2, <3>1 DEF Lookup
  <2> QED BY <2>1, <2>2
<1>4. EntriesOf(tc, s) = EntriesOf(sc, s)
  <2>1. \A e : e \in EntriesOf(tc, s) <=> e \in EntriesOf(sc, s)
    BY EntryIs
  <2> QED BY <2>1
<1> QED BY <1>3, <1>4 DEF Level, Count

BucketsOf(S) == [0 .. BUCKETS - 1 -> Seq(S)]

\* A new symbol makes its level the level with that declaration.
LEMMA LevelInserted ==
  ASSUME NEW S, NEW sc, NEW tc, NEW s \in Nat \ {0}, NEW sym \in S,
         sc[s].buckets \in BucketsOf(S), sym.name \in Names, sym.id = Count(sc, s) + 1,
         IsFiniteSet(EntriesOf(sc, s)),
         \A k \in 1 .. s - 1 : tc[k].buckets = sc[k].buckets,
         tc[s].buckets = Inserted(sc[s].buckets, sym)
  PROVE  /\ IsFiniteSet(EntriesOf(tc, s)) /\ Count(tc, s) = Count(sc, s) + 1
         /\ Count(sc, s) \in Nat
         /\ Level(tc, s) = Env!Declared(Level(sc, s), sym.name)
<1> DEFINE B == Bucket(sym.name)
           old == sc[s].buckets
           new == tc[s].buckets
<1>1. B \in 0 .. BUCKETS - 1 /\ old[B] \in Seq(S) /\ Len(old[B]) \in Nat
  <2>1. B \in 0 .. BUCKETS - 1
    BY BucketInside
  <2> HIDE DEF B
  <2>2. old[B] \in Seq(S)
    BY <2>1 DEF BucketsOf
  <2> QED BY <2>1, <2>2
<1>2. /\ new[B] = <<sym>> \o old[B]
      /\ \A b \in 0 .. BUCKETS - 1 : b # B => new[b] = old[b]
  BY <1>1 DEF Inserted, BucketsOf
<1>3. Len(new[B]) = Len(old[B]) + 1
  BY <1>1, <1>2
<1> HIDE DEF B, old, new
<1>4. s - 1 \in Nat /\ (s - 1) + 1 = s
  OBVIOUS
<1>5. /\ IsFiniteSet(EntriesOf(tc, s)) /\ Count(tc, s) = Count(sc, s) + 1
      /\ Count(sc, s) \in Nat
  <2> DEFINE e0 == <<s, B, Len(old[B]) + 1>>
  <2>1. e0 \notin EntriesOf(sc, s)
    <3> SUFFICES ASSUME e0 \in EntriesOf(sc, s) PROVE FALSE
      OBVIOUS
    <3>1. PICK i \in 1 .. s, b \in 0 .. BUCKETS - 1 :
            \E j \in 1 .. Len(sc[i].buckets[b]) : e0 = <<i, b, j>>
      BY EntryIs
    <3>2. i = s /\ b = B /\ Len(old[B]) + 1 \in 1 .. Len(sc[i].buckets[b])
      BY <3>1
    <3>3. Len(old[B]) + 1 \in 1 .. Len(old[B])
      BY <3>2 DEF old
    <3> QED BY <1>1, <3>3
  <2>2. \A e : e \in EntriesOf(tc, s) <=> e \in EntriesOf(sc, s) \cup {e0}
    <3> TAKE e
    <3>1. ASSUME e \in EntriesOf(tc, s) PROVE e \in EntriesOf(sc, s) \cup {e0}
      <4>1. PICK i \in 1 .. s, b \in 0 .. BUCKETS - 1 :
              \E j \in 1 .. Len(tc[i].buckets[b]) : e = <<i, b, j>>
        BY <3>1, EntryIs
      <4>2. PICK j \in 1 .. Len(tc[i].buckets[b]) : e = <<i, b, j>>
        BY <4>1
      <4>3. CASE i = s /\ b = B
        <5>1. j \in 1 .. Len(old[B]) + 1
          BY <1>3, <4>2, <4>3 DEF new
        <5>2. j = Len(old[B]) + 1 \/ j \in 1 .. Len(old[B])
          BY <1>1, <5>1
        <5>3. j \in 1 .. Len(old[B]) => e \in EntriesOf(sc, s)
          BY <4>2, <4>3, EntryIs DEF old
        <5> QED BY <4>2, <4>3, <5>2, <5>3
      <4>4. CASE ~(i = s /\ b = B)
        <5>1. tc[i].buckets[b] = sc[i].buckets[b]
          <6>1. CASE i = s
            BY <1>2, <4>4, <6>1 DEF old, new
          <6>2. CASE i # s
            <7>1. i \in 1 .. s - 1
              BY <6>2
            <7> QED BY <7>1
          <6> QED BY <6>1, <6>2
        <5>2. j \in 1 .. Len(sc[i].buckets[b])
          BY <4>2, <5>1
        <5> QED BY <4>2, <5>2, EntryIs
      <4> QED BY <4>3, <4>4
    <3>2. ASSUME e = e0 PROVE e \in EntriesOf(tc, s)
      <4>1. Len(old[B]) + 1 \in 1 .. Len(tc[s].buckets[B])
        BY <1>1, <1>3 DEF new
      <4>2. s \in 1 .. s
        OBVIOUS
      <4> QED BY <1>1, <3>2, <4>1, <4>2, EntryIs
    <3>3. ASSUME e \in EntriesOf(sc, s) PROVE e \in EntriesOf(tc, s)
      <4>1. PICK i \in 1 .. s, b \in 0 .. BUCKETS - 1 :
              \E j \in 1 .. Len(sc[i].buckets[b]) : e = <<i, b, j>>
        BY <3>3, EntryIs
      <4>2. PICK j \in 1 .. Len(sc[i].buckets[b]) : e = <<i, b, j>>
        BY <4>1
      <4>3. j \in 1 .. Len(tc[i].buckets[b])
        <5>1. CASE i = s /\ b = B
          <6>1. j \in 1 .. Len(old[B])
            BY <4>2, <5>1 DEF old
          <6>2. j \in 1 .. Len(new[B])
            BY <1>1, <1>3, <6>1
          <6> QED BY <5>1, <6>2 DEF new
        <5>2. CASE i = s /\ b # B
          BY <1>2, <4>2, <5>2 DEF old, new
        <5>3. CASE i # s
          <6>1. i \in 1 .. s - 1
            BY <5>3
          <6> QED BY <4>2, <6>1
        <5> QED BY <5>1, <5>2, <5>3
      <4> QED BY <4>2, <4>3, EntryIs
    <3> QED BY <3>1, <3>2, <3>3
  <2>3. EntriesOf(tc, s) = EntriesOf(sc, s) \cup {e0}
    BY <2>2
  <2> HIDE DEF e0
  <2> QED BY <2>1, <2>3, FS_AddElement, FS_CardinalityType DEF Count
<1>6. \A n : Lookup(tc, s - 1, n) = Lookup(sc, s - 1, n)
  BY <1>4, LevelLocal
<1>7. ASSUME NEW n \in Names
      PROVE  Lookup(tc, s, n).id = IF n = sym.name THEN Count(sc, s) + 1 ELSE Lookup(sc, s, n).id
  <2>1. /\ Lookup(tc, s, n) = IF Knows(tc, s, n) THEN First(Chain(tc, s, n), n)
                              ELSE Lookup(tc, s - 1, n)
        /\ Lookup(sc, s, n) = IF Knows(sc, s, n) THEN First(Chain(sc, s, n), n)
                              ELSE Lookup(sc, s - 1, n)
    BY <1>4, LookupOutward
  <2>2. Bucket(n) \in 0 .. BUCKETS - 1
    BY BucketInside
  <2>3. CASE Bucket(n) = B
    <3>1. Chain(sc, s, n) = old[B] /\ Chain(tc, s, n) = <<sym>> \o old[B]
      BY <1>2, <2>3 DEF Chain, old, new
    <3>2. /\ Knows(tc, s, n) <=> (sym.name = n \/ Knows(sc, s, n))
          /\ sym.name = n => First(Chain(tc, s, n), n) = sym
          /\ sym.name # n => First(Chain(tc, s, n), n) = First(Chain(sc, s, n), n)
      BY <1>1, <3>1, FirstInserted DEF Knows
    <3> QED BY <1>6, <2>1, <3>2
  <2>4. CASE Bucket(n) # B
    <3>1. Chain(tc, s, n) = Chain(sc, s, n) /\ n # sym.name
      BY <1>2, <2>2, <2>4 DEF Chain, old, new, B
    <3> QED BY <1>6, <2>1, <3>1 DEF Knows
  <2> QED BY <2>3, <2>4
<1>8. [n \in Names |-> Lookup(tc, s, n).id] =
        [[n \in Names |-> Lookup(sc, s, n).id] EXCEPT ![sym.name] = Count(sc, s) + 1]
  BY <1>7
<1>9. Level(tc, s) = Env!Declared(Level(sc, s), sym.name)
  BY <1>5, <1>8 DEF Level, Env!Declared
<1> QED BY <1>5, <1>9

\* A scope without symbols is at the level of the one around it.
LEMMA LevelEmpty ==
  ASSUME NEW sc, NEW tc, NEW s \in Nat,
         \A k \in 1 .. s : tc[k].buckets = sc[k].buckets,
         tc[s + 1].buckets = EmptyBuckets
  PROVE  Level(tc, s + 1) = Level(sc, s) /\ EntriesOf(tc, s + 1) = EntriesOf(sc, s)
<1>1. EntriesOf(tc, s) = EntriesOf(sc, s) /\ \A n : Lookup(tc, s, n) = Lookup(sc, s, n)
  BY LevelLocal
<1>2. \A b \in 0 .. BUCKETS - 1 : tc[s + 1].buckets[b] = << >>
  BY DEF EmptyBuckets
<1>3. \A i \in 1 .. s + 1 : i = s + 1 \/ i \in 1 .. s
  OBVIOUS
<1>4. EntriesOf(tc, s + 1) = EntriesOf(tc, s)
  <2>1. ASSUME NEW e \in EntriesOf(tc, s + 1) PROVE e \in EntriesOf(tc, s)
    <3>1. PICK i \in 1 .. s + 1, b \in 0 .. BUCKETS - 1 :
            \E j \in 1 .. Len(tc[i].buckets[b]) : e = <<i, b, j>>
      BY EntryIs
    <3>2. PICK j \in 1 .. Len(tc[i].buckets[b]) : e = <<i, b, j>>
      BY <3>1
    <3>3. i # s + 1
      <4> SUFFICES ASSUME i = s + 1 PROVE FALSE
        OBVIOUS
      <4>1. tc[i].buckets[b] = << >>
        BY <1>2
      <4>2. Len(tc[i].buckets[b]) = 0
        BY <4>1
      <4>3. j \in 1 .. 0
        BY <3>2, <4>2
      <4> QED BY <4>3
    <3> QED BY <1>3, <3>2, <3>3, EntryIs
  <2>2. ASSUME NEW e \in EntriesOf(tc, s) PROVE e \in EntriesOf(tc, s + 1)
    <3>1. PICK i \in 1 .. s, b \in 0 .. BUCKETS - 1 :
            \E j \in 1 .. Len(tc[i].buckets[b]) : e = <<i, b, j>>
      BY EntryIs
    <3>2. i \in 1 .. s + 1
      OBVIOUS
    <3> QED BY <3>1, <3>2, EntryIs
  <2> QED BY <2>1, <2>2
<1>5. ASSUME NEW n \in Names PROVE Lookup(tc, s + 1, n) = Lookup(sc, s, n)
  <2>1. Chain(tc, s + 1, n) = << >>
    BY <1>2, BucketInside DEF Chain
  <2>2. Hits(<< >>, n) = {}
    BY DEF Hits
  <2>3. ~Knows(tc, s + 1, n)
    BY <2>1, <2>2 DEF Knows
  <2> QED BY <1>1, <2>3, LookupOutward
<1> QED BY <1>1, <1>4, <1>5 DEF Level, Count

\* The same names and ranks at the same places.
Alike(old, new) ==
  \A b \in 0 .. BUCKETS - 1 :
    /\ Len(new[b]) = Len(old[b])
    /\ \A i \in 1 .. Len(old[b]) : new[b][i].name = old[b][i].name /\ new[b][i].id = old[b][i].id

\* Symbols that keep name and identity leave their level as it is.
LEMMA LevelUpdated ==
  ASSUME NEW S, NEW sc, NEW tc, NEW s \in Nat \ {0}, sc[s].buckets \in BucketsOf(S),
         \A k \in 1 .. s - 1 : tc[k].buckets = sc[k].buckets,
         Alike(sc[s].buckets, tc[s].buckets)
  PROVE  Level(tc, s) = Level(sc, s) /\ EntriesOf(tc, s) = EntriesOf(sc, s)
<1>1. s - 1 \in Nat /\ (s - 1) + 1 = s /\ \A i \in 1 .. s : i = s \/ i \in 1 .. s - 1
  OBVIOUS
<1>2. \A n : Lookup(tc, s - 1, n) = Lookup(sc, s - 1, n)
  BY <1>1, LevelLocal
<1>3. EntriesOf(tc, s) = EntriesOf(sc, s)
  <2>1. \A i \in 1 .. s, b \in 0 .. BUCKETS - 1 :
          Len(tc[i].buckets[b]) = Len(sc[i].buckets[b])
    <3>1. \A b \in 0 .. BUCKETS - 1 : Len(tc[s].buckets[b]) = Len(sc[s].buckets[b])
      BY DEF Alike
    <3> SUFFICES ASSUME NEW i \in 1 .. s, NEW b \in 0 .. BUCKETS - 1
                 PROVE  Len(tc[i].buckets[b]) = Len(sc[i].buckets[b])
      OBVIOUS
    <3>2. CASE i = s
      BY <3>1, <3>2
    <3>3. CASE i \in 1 .. s - 1
      BY <3>3
    <3> QED BY <1>1, <3>2, <3>3
  <2>2. ASSUME NEW e
        PROVE  (\E i \in 1 .. s, b \in 0 .. BUCKETS - 1 :
                  \E j \in 1 .. Len(tc[i].buckets[b]) : e = <<i, b, j>>)
               <=> (\E i \in 1 .. s, b \in 0 .. BUCKETS - 1 :
                      \E j \in 1 .. Len(sc[i].buckets[b]) : e = <<i, b, j>>)
    BY <2>1, Zenon
  <2>3. ASSUME NEW e PROVE e \in EntriesOf(tc, s) <=> e \in EntriesOf(sc, s)
    <3>1. e \in EntriesOf(tc, s) <=> \E i \in 1 .. s, b \in 0 .. BUCKETS - 1 :
                                       \E j \in 1 .. Len(tc[i].buckets[b]) : e = <<i, b, j>>
      BY EntryIs
    <3>2. e \in EntriesOf(sc, s) <=> \E i \in 1 .. s, b \in 0 .. BUCKETS - 1 :
                                       \E j \in 1 .. Len(sc[i].buckets[b]) : e = <<i, b, j>>
      BY EntryIs
    <3> QED BY <2>2, <3>1, <3>2
  <2> QED BY <2>3
<1>4. ASSUME NEW n \in Names PROVE Lookup(tc, s, n).id = Lookup(sc, s, n).id
  <2>1. Bucket(n) \in 0 .. BUCKETS - 1
    BY BucketInside
  <2>2. Len(Chain(sc, s, n)) \in Nat
    BY <2>1 DEF Chain, BucketsOf
  <2>3. /\ Len(Chain(tc, s, n)) = Len(Chain(sc, s, n))
        /\ \A i \in 1 .. Len(Chain(sc, s, n)) :
             /\ Chain(tc, s, n)[i].name = Chain(sc, s, n)[i].name
             /\ Chain(tc, s, n)[i].id = Chain(sc, s, n)[i].id
    BY <2>1 DEF Chain, Alike
  <2>4. /\ Hits(Chain(tc, s, n), n) = Hits(Chain(sc, s, n), n)
        /\ First(Chain(tc, s, n), n).id = First(Chain(sc, s, n), n).id
    BY <2>2, <2>3, FirstUpdated
  <2>5. /\ Lookup(tc, s, n) = IF Knows(tc, s, n) THEN First(Chain(tc, s, n), n)
                              ELSE Lookup(tc, s - 1, n)
        /\ Lookup(sc, s, n) = IF Knows(sc, s, n) THEN First(Chain(sc, s, n), n)
                              ELSE Lookup(sc, s - 1, n)
    BY <1>1, LookupOutward
  <2> QED BY <1>2, <2>4, <2>5 DEF Knows
<1> QED BY <1>3, <1>4 DEF Level, Count

-----------------------------------------------------------------------------
(* The inductive invariant of every bracketed use *)

ScopesOf(S) == [path : Seq(Nat), buckets : BucketsOf(S)]

\* Every scope is inside the one in front of it.
Nested(sc, S) ==
  /\ sc \in Seq(ScopesOf(S)) /\ Len(sc) >= 1
  /\ \A s \in 1 .. Len(sc) : sc[s].path = [i \in 1 .. s |-> i]

\* The symbols of a chain can be told apart by their ranks, which are those of the
\* symbols that were there when they came.
Ranked(sc) ==
  \A s \in 1 .. Len(sc) :
    /\ IsFiniteSet(EntriesOf(sc, s))
    /\ \A b \in 0 .. BUCKETS - 1 : \A j \in 1 .. Len(sc[s].buckets[b]) :
         /\ sc[s].buckets[b][j].id \in 1 .. Count(sc, s)
         /\ \A k \in 1 .. Len(sc[s].buckets[b]) :
              sc[s].buckets[b][k].id = sc[s].buckets[b][j].id => k = j

TableInv ==
  /\ current_scope = Len(scopes)
  /\ \E S : Nested(scopes, S)
  /\ Ranked(scopes)

\* The levels the refinement shows are the ones computed without the paths.
LEMMA VisibleIs == TableInv => Visible = Levels(scopes)
<1> SUFFICES ASSUME TableInv PROVE Visible = Levels(scopes)
  OBVIOUS
<1> DEFINE L == Len(scopes)
<1>1. PICK S : Nested(scopes, S)
  BY DEF TableInv
<1>2. L \in Nat /\ L >= 1 /\ current_scope = L
  BY <1>1 DEF Nested, TableInv
<1>3. \A s \in 1 .. L : scopes[s].path = [i \in 1 .. s |-> i]
  BY <1>1 DEF Nested
<1>4. ASSUME NEW s \in 1 .. L, NEW n
      PROVE  scope_lookup(s, n) = Lookup(scopes, s, n)
  <2> DEFINE path == scopes[s].path
             hits == {i \in 1 .. Len(path) : Declares(path[i], n)}
  <2>1. path = [i \in 1 .. s |-> i] /\ Len(path) = s /\ \A i \in 1 .. s : path[i] = i
    <3>1. path = [i \in 1 .. s |-> i] /\ s \in Nat
      BY <1>2, <1>3
    <3> HIDE DEF path
    <3> QED BY <3>1
  <2>2. \A i \in 1 .. s : Declares(i, n) <=> Knows(scopes, i, n)
    BY DEF Declares, Knows, Hits, Chain
  <2> HIDE DEF path
  <2>3. hits = Knowing(scopes, s, n)
    BY <2>1, <2>2 DEF Knowing
  <2>4. scope_lookup(s, n) = IF hits = {} THEN NoSymbol
                             ELSE scope_lookup_current(path[Max(hits)], n)
    BY DEF scope_lookup, path
  <2>5. \A i : scope_lookup_current(i, n) = First(Chain(scopes, i, n), n)
    BY DEF scope_lookup_current, First, Hits, Chain
  <2> HIDE DEF hits
  <2>6. CASE hits = {}
    BY <2>3, <2>4, <2>6 DEF Lookup
  <2>7. CASE hits # {}
    <3>1. Max(Knowing(scopes, s, n)) \in 1 .. s
      <4>1. s \in Nat
        BY <1>2
      <4>2. Max(Knowing(scopes, s, n)) \in Knowing(scopes, s, n)
        BY <2>3, <2>7, <4>1, GreatestKnowing
      <4> QED BY <4>2 DEF Knowing
    <3> QED BY <2>1, <2>3, <2>4, <2>5, <2>7, <3>1 DEF Lookup
  <2> QED BY <2>6, <2>7
<1>5. \A s : SymbolCount(s) = Count(scopes, s)
  BY DEF SymbolCount, Count, Entries, EntriesOf
<1>6. L \in 1 .. L
  BY <1>2
<1>7. scopes[L].path = [i \in 1 .. L |-> i]
  BY <1>3, <1>6
<1> DEFINE path == scopes[L].path
<1>8. Len(path) = L /\ \A i \in 1 .. L : path[i] = i
  <2> HIDE DEF L
  <2> QED BY <1>2, <1>7
<1>9. Visible = [i \in 1 .. Len(path) |->
                  [means |-> [n \in Names |-> scope_lookup(path[i], n).id],
                   size |-> SymbolCount(path[i])]]
  BY <1>2 DEF Visible
<1> HIDE DEF L, path
<1>10. Visible = [i \in 1 .. L |-> [means |-> [n \in Names |-> scope_lookup(i, n).id],
                                   size |-> SymbolCount(i)]]
  BY <1>8, <1>9
<1>11. \A i \in 1 .. L : [n \in Names |-> scope_lookup(i, n).id] =
                           [n \in Names |-> Lookup(scopes, i, n).id]
  BY <1>4
<1> QED BY <1>5, <1>10, <1>11 DEF Levels, Level, L

LEMMA TableInitEstablishes == TableInit => TableInv /\ Env!EnvInit
<1> SUFFICES ASSUME TableInit PROVE TableInv /\ Env!EnvInit
  OBVIOUS
<1>1. /\ Len(scopes) = 1 /\ scopes[1] = [path |-> <<1>>, buckets |-> EmptyBuckets]
      /\ current_scope = 1
  BY DEF TableInit
<1>2. scopes[1].buckets = EmptyBuckets /\ scopes[1].path = <<1>>
  BY <1>1
<1>3. Nested(scopes, {})
  <2>1. EmptyBuckets \in BucketsOf({})
    BY DEF EmptyBuckets, BucketsOf
  <2>2. [path |-> <<1>>, buckets |-> EmptyBuckets] \in ScopesOf({})
    BY <2>1 DEF ScopesOf
  <2>3. scopes \in Seq(ScopesOf({}))
    BY <2>2 DEF TableInit
  <2>4. <<1>> = [i \in 1 .. 1 |-> i]
    OBVIOUS
  <2> QED BY <1>1, <1>2, <2>3, <2>4 DEF Nested
<1>4. EntriesOf(scopes, 0) = {}
  <2>1. \A e : e \notin EntriesOf(scopes, 0)
    BY EntryIs
  <2> QED BY <2>1
<1>5. Level(scopes, 0 + 1) = Level(scopes, 0) /\ EntriesOf(scopes, 0 + 1) = EntriesOf(scopes, 0)
  <2>1. scopes[0 + 1].buckets = EmptyBuckets
    BY <1>2
  <2>2. \A k \in 1 .. 0 : scopes[k].buckets = scopes[k].buckets
    OBVIOUS
  <2> QED BY <2>1, <2>2, LevelEmpty
<1>6. Ranked(scopes)
  <2>1. \A b \in 0 .. BUCKETS - 1 : scopes[1].buckets[b] = << >>
    BY <1>2 DEF EmptyBuckets
  <2>2. \A b \in 0 .. BUCKETS - 1 : Len(scopes[1].buckets[b]) = 0
    BY <2>1
  <2>3. IsFiniteSet(EntriesOf(scopes, 1))
    BY <1>4, <1>5, FS_EmptySet
  <2> QED BY <1>1, <2>2, <2>3 DEF Ranked
<1>7. TableInv
  BY <1>1, <1>3, <1>6 DEF TableInv
<1>8. Level(scopes, 1) = [means |-> [n \in Names |-> 0], size |-> 0]
  <2>1. \A n : Lookup(scopes, 0, n).id = 0
    BY DEF Lookup, Knowing, NoSymbol
  <2>2. Count(scopes, 0) = 0
    BY <1>4, FS_EmptySet DEF Count
  <2> QED BY <1>5, <2>1, <2>2 DEF Level
<1>9. Levels(scopes) = <<[means |-> [n \in Names |-> 0], size |-> 0]>>
  BY <1>1, <1>8 DEF Levels
<1> QED BY <1>7, <1>9, VisibleIs DEF Env!EnvInit

-----------------------------------------------------------------------------
(* The checker's steps *)

\* More symbols do no harm to the types of the scopes.
LEMMA NestedWidens ==
  ASSUME NEW S, NEW T, S \subseteq T, NEW sc, Nested(sc, S)
  PROVE  Nested(sc, T)
<1>1. \A chain : chain \in Seq(S) => chain \in Seq(T)
  OBVIOUS
<1>2. BucketsOf(S) \subseteq BucketsOf(T)
  BY <1>1 DEF BucketsOf
<1>3. ScopesOf(S) \subseteq ScopesOf(T)
  BY <1>2 DEF ScopesOf
<1>4. sc \in Seq(ScopesOf(T))
  BY <1>3 DEF Nested
<1> QED BY <1>4 DEF Nested

\* A scope that is new, and is empty or has one new symbol.
LEMMA OpenPreserves ==
  TableInv /\ Open => /\ TableInv'
                      /\ \/ Env!Enter(Levels(scopes), Levels(scopes'))
                         \/ Env!EnterWith(Levels(scopes), Levels(scopes'))
<1> SUFFICES ASSUME TableInv, Open
             PROVE  /\ TableInv'
                    /\ \/ Env!Enter(Levels(scopes), Levels(scopes'))
                       \/ Env!EnterWith(Levels(scopes), Levels(scopes'))
  OBVIOUS
<1> DEFINE L == Len(scopes)
           sc == scopes
           tc == scopes'
           path == Append(scopes[current_scope].path, L + 1)
<1>1. PICK S0 : Nested(sc, S0)
  BY DEF TableInv
<1>2. L \in Nat /\ L >= 1 /\ L \in 1 .. L /\ current_scope = L /\ Ranked(sc)
  BY <1>1 DEF Nested, TableInv
<1> DEFINE Opens(S, buckets) ==
             /\ Nested(sc, S)
             /\ buckets \in BucketsOf(S)
             /\ scope_new(current_scope, buckets)
             /\ \/ buckets = EmptyBuckets
                \/ \E sym \in S : /\ sym.name \in Names /\ sym.id = Count(sc, L) + 1
                                  /\ buckets = Inserted(EmptyBuckets, sym)
<1>3. PICK S, buckets : Opens(S, buckets)
  <2>1. CASE scope_new(current_scope, EmptyBuckets)
    <3>1. EmptyBuckets \in BucketsOf(S0)
      BY DEF EmptyBuckets, BucketsOf
    <3> QED BY <1>1, <2>1, <3>1
  <2>2. ASSUME NEW n \in Names, NEW sym \in ChainBehind(n), sym.name = n, sym.id = NextId,
               scope_new(current_scope, Inserted(EmptyBuckets, sym))
        PROVE  \E S, buckets : Opens(S, buckets)
    <3> DEFINE T == S0 \cup {sym}
               B == Bucket(sym.name)
    <3>1. Nested(sc, T) /\ sym \in T
      BY <1>1, NestedWidens
    <3> HIDE DEF T
    <3>2. Inserted(EmptyBuckets, sym) \in BucketsOf(T)
      <4>1. EmptyBuckets \in BucketsOf(T) /\ B \in 0 .. BUCKETS - 1
        BY <2>2, BucketInside DEF EmptyBuckets, BucketsOf
      <4> HIDE DEF B
      <4>2. <<sym>> \o EmptyBuckets[B] \in Seq(T)
        BY <3>1, <4>1 DEF BucketsOf
      <4>3. [EmptyBuckets EXCEPT ![B] = <<sym>> \o @] \in BucketsOf(T)
        BY <4>1, <4>2 DEF BucketsOf
      <4> QED BY <4>3 DEF Inserted, B
    <3>3. sym.id = Count(sc, L) + 1
      BY <2>2 DEF NextId, SymbolCount, Count, Entries, EntriesOf
    <3> QED BY <2>2, <3>1, <3>2, <3>3
  <2> QED BY <2>1, <2>2 DEF Open
<1> DEFINE scope == [path |-> path, buckets |-> buckets]
<1>4. tc = Append(sc, scope) /\ current_scope' = L + 1
  BY <1>2, <1>3 DEF scope_new
<1>5. sc \in Seq(ScopesOf(S)) /\ sc[L].path = [i \in 1 .. L |-> i]
  BY <1>2, <1>3 DEF Nested
<1>6. path = [i \in 1 .. L + 1 |-> i]
  <2> DEFINE p == sc[L].path
  <2>1. p = [i \in 1 .. L |-> i] /\ path = Append(p, L + 1)
    BY <1>2, <1>5
  <2> HIDE DEF p, path, L
  <2>2. p \in Seq(Nat) /\ Len(p) = L
    BY <1>2, <2>1
  <2> QED BY <1>2, <2>1, <2>2
<1> HIDE DEF path
<1>7. scope \in ScopesOf(S)
  <2>1. path \in Seq(Nat)
    BY <1>2, <1>6
  <2> QED BY <1>3, <2>1 DEF ScopesOf
<1>8. /\ tc \in Seq(ScopesOf(S)) /\ Len(tc) = L + 1
      /\ \A s \in 1 .. L : tc[s] = sc[s]
      /\ tc[L + 1] = scope
  BY <1>4, <1>5, <1>7
<1>9. /\ tc[L + 1].buckets = buckets /\ tc[L + 1].path = path
      /\ \A s \in 1 .. L : tc[s].buckets = sc[s].buckets /\ tc[s].path = sc[s].path
  BY <1>8
<1>10. \A s \in 1 .. L + 1 : s = L + 1 \/ s \in 1 .. L
  BY <1>2
<1>11. Nested(tc, S)
  <2>1. \A s \in 1 .. L : sc[s].path = [i \in 1 .. s |-> i]
    BY <1>3 DEF Nested
  <2>2. \A s \in 1 .. L + 1 : tc[s].path = [i \in 1 .. s |-> i]
    BY <1>6, <1>9, <1>10, <2>1
  <2> QED BY <1>2, <1>8, <2>2 DEF Nested
<1>12. ASSUME NEW s \in 1 .. L
       PROVE  Level(tc, s) = Level(sc, s) /\ EntriesOf(tc, s) = EntriesOf(sc, s)
  <2>1. s \in Nat /\ \A k \in 1 .. s : k \in 1 .. L
    BY <1>2
  <2>2. \A k \in 1 .. s : tc[k].buckets = sc[k].buckets
    BY <1>9, <2>1
  <2> QED BY <2>1, <2>2, LevelLocal
<1>13. ASSUME NEW s \in 1 .. L
       PROVE  /\ IsFiniteSet(EntriesOf(tc, s))
              /\ \A b \in 0 .. BUCKETS - 1 : \A j \in 1 .. Len(tc[s].buckets[b]) :
                   /\ tc[s].buckets[b][j].id \in 1 .. Count(tc, s)
                   /\ \A k \in 1 .. Len(tc[s].buckets[b]) :
                        tc[s].buckets[b][k].id = tc[s].buckets[b][j].id => k = j
  <2>1. Count(tc, s) = Count(sc, s) /\ EntriesOf(tc, s) = EntriesOf(sc, s)
    BY <1>12 DEF Count
  <2>2. tc[s] = sc[s]
    BY <1>8
  <2> QED BY <1>2, <2>1, <2>2 DEF Ranked
<1>14. CASE buckets = EmptyBuckets
  <2>1. Level(tc, L + 1) = Level(sc, L) /\ EntriesOf(tc, L + 1) = EntriesOf(sc, L)
    BY <1>2, <1>9, <1>14, LevelEmpty
  <2>2. \A b \in 0 .. BUCKETS - 1 : Len(tc[L + 1].buckets[b]) = 0
    BY <1>9, <1>14 DEF EmptyBuckets
  <2>3. IsFiniteSet(EntriesOf(tc, L + 1))
    BY <1>2, <2>1 DEF Ranked
  <2>4. Ranked(tc)
    BY <1>8, <1>10, <1>13, <2>2, <2>3 DEF Ranked
  <2>5. Levels(tc) = Append(Levels(sc), Level(sc, L))
    <3>1. Levels(sc) = [s \in 1 .. L |-> Level(sc, s)] /\ Levels(tc) = [s \in 1 .. L + 1 |-> Level(tc, s)]
      BY <1>8 DEF Levels
    <3> QED BY <1>2, <1>10, <1>12, <2>1, <3>1
  <2>6. Env!Innermost(Levels(sc)) = Level(sc, L)
    BY <1>2 DEF Env!Innermost, Levels
  <2> QED BY <1>4, <1>8, <1>11, <2>4, <2>5, <2>6 DEF TableInv, Env!Enter
<1>15. ASSUME NEW sym \in S, sym.name \in Names, sym.id = Count(sc, L) + 1,
              buckets = Inserted(EmptyBuckets, sym)
       PROVE  TableInv' /\ Env!EnterWith(Levels(sc), Levels(tc))
  <2> DEFINE mid == Append(sc, [path |-> path, buckets |-> EmptyBuckets])
             B == Bucket(sym.name)
  <2>1. EmptyBuckets \in BucketsOf(S)
    BY DEF EmptyBuckets, BucketsOf
  <2>2. /\ \A s \in 1 .. L : mid[s].buckets = sc[s].buckets
        /\ mid[L + 1].buckets = EmptyBuckets
    BY <1>5
  <2> HIDE DEF mid
  <2>3. Level(mid, L + 1) = Level(sc, L) /\ EntriesOf(mid, L + 1) = EntriesOf(sc, L)
    BY <1>2, <2>2, LevelEmpty
  <2>4. Count(mid, L + 1) = Count(sc, L) /\ IsFiniteSet(EntriesOf(mid, L + 1))
    BY <1>2, <2>3 DEF Count, Ranked
  <2>5. /\ IsFiniteSet(EntriesOf(tc, L + 1)) /\ Count(tc, L + 1) = Count(mid, L + 1) + 1
        /\ Count(mid, L + 1) \in Nat
        /\ Level(tc, L + 1) = Env!Declared(Level(mid, L + 1), sym.name)
    <3>1. L + 1 \in Nat \ {0} /\ (L + 1) - 1 = L
      BY <1>2
    <3>2. /\ \A k \in 1 .. (L + 1) - 1 : tc[k].buckets = mid[k].buckets
          /\ tc[L + 1].buckets = Inserted(mid[L + 1].buckets, sym)
          /\ mid[L + 1].buckets \in BucketsOf(S)
      BY <1>9, <1>15, <2>1, <2>2, <3>1
    <3> QED BY <1>15, <2>4, <3>1, <3>2, LevelInserted
  <2>6. B \in 0 .. BUCKETS - 1
    BY <1>15, BucketInside
  <2>7. /\ tc[L + 1].buckets[B] = <<sym>>
        /\ \A b \in 0 .. BUCKETS - 1 : b # B => tc[L + 1].buckets[b] = << >>
    <3> HIDE DEF B
    <3>1. [EmptyBuckets EXCEPT ![B] = <<sym>> \o @][B] = <<sym>>
      BY <2>6 DEF EmptyBuckets
    <3>2. \A b \in 0 .. BUCKETS - 1 : b # B => [EmptyBuckets EXCEPT ![B] = <<sym>> \o @][b] = << >>
      BY <2>6 DEF EmptyBuckets
    <3> QED BY <1>9, <1>15, <3>1, <3>2 DEF Inserted, B
  <2> HIDE DEF B
  <2>8. ASSUME NEW b \in 0 .. BUCKETS - 1, NEW j \in 1 .. Len(tc[L + 1].buckets[b])
        PROVE  b = B /\ j = 1 /\ tc[L + 1].buckets[b][j] = sym
    <3>1. CASE b = B
      <4>1. Len(tc[L + 1].buckets[b]) = 1
        BY <2>7, <3>1
      <4>2. j = 1
        BY <4>1
      <4> QED BY <2>7, <3>1, <4>2
    <3>2. CASE b # B
      <4>1. Len(tc[L + 1].buckets[b]) = 0
        BY <2>7, <3>2
      <4> QED BY <4>1
    <3> QED BY <3>1, <3>2
  <2>9. sym.id \in 1 .. Count(tc, L + 1)
    BY <1>15, <2>4, <2>5
  <2>10. Ranked(tc)
    BY <1>8, <1>10, <1>13, <2>5, <2>8, <2>9 DEF Ranked
  <2>11. Levels(tc) = Append(Levels(sc), Env!Declared(Level(sc, L), sym.name))
    <3>1. Levels(sc) = [s \in 1 .. L |-> Level(sc, s)] /\ Levels(tc) = [s \in 1 .. L + 1 |-> Level(tc, s)]
      BY <1>8 DEF Levels
    <3> QED BY <1>2, <1>10, <1>12, <2>3, <2>5, <3>1
  <2>12. Env!Innermost(Levels(sc)) = Level(sc, L)
    BY <1>2 DEF Env!Innermost, Levels
  <2> QED BY <1>4, <1>8, <1>11, <1>15, <2>10, <2>11, <2>12 DEF TableInv, Env!EnterWith
<1> QED BY <1>3, <1>14, <1>15

\* A new symbol in the innermost scope.
LEMMA InsertPreserves ==
  TableInv /\ Insert => TableInv' /\ Env!Declare(Levels(scopes), Levels(scopes'))
<1> SUFFICES ASSUME TableInv, Insert
             PROVE  TableInv' /\ Env!Declare(Levels(scopes), Levels(scopes'))
  OBVIOUS
<1> DEFINE L == Len(scopes)
           sc == scopes
           tc == scopes'
<1>1. PICK S0 : Nested(sc, S0)
  BY DEF TableInv
<1>2. L \in Nat \ {0} /\ L \in 1 .. L /\ current_scope = L /\ Ranked(sc)
  BY <1>1 DEF Nested, TableInv
<1>3. PICK n \in Names : \E sym \in ChainBehind(n) :
        /\ sym.name = n /\ sym.id = NextId
        /\ scope_insert(current_scope, sym)
        /\ UNCHANGED current_scope
  BY DEF Insert
<1>4. PICK sym \in ChainBehind(n) :
        /\ sym.name = n /\ sym.id = NextId
        /\ scope_insert(current_scope, sym)
        /\ UNCHANGED current_scope
  BY <1>3
<1> DEFINE S == S0 \cup {sym}
           B == Bucket(sym.name)
           old == sc[L].buckets
<1>5. Nested(sc, S) /\ sym \in S
  BY <1>1, NestedWidens
<1> HIDE DEF S
<1>6. sym.name \in Names /\ sym.id = Count(sc, L) + 1 /\ B \in 0 .. BUCKETS - 1
  BY <1>3, <1>4, BucketInside DEF NextId, SymbolCount, Count, Entries, EntriesOf
<1>7. sc \in Seq(ScopesOf(S)) /\ old \in BucketsOf(S) /\ sc[L] \in ScopesOf(S)
  <2>1. sc \in Seq(ScopesOf(S))
    BY <1>5 DEF Nested
  <2>2. sc[L] \in ScopesOf(S)
    BY <1>2, <2>1
  <2>3. old \in BucketsOf(S)
    BY <2>2 DEF ScopesOf
  <2> QED BY <2>1, <2>2, <2>3
<1> HIDE DEF B
<1>8. old[B] \in Seq(S) /\ Len(old[B]) \in Nat
  <2> HIDE DEF old
  <2>1. old[B] \in Seq(S)
    BY <1>6, <1>7 DEF BucketsOf
  <2> QED BY <2>1
<1>9. Inserted(old, sym) \in BucketsOf(S)
  <2>1. <<sym>> \o old[B] \in Seq(S)
    BY <1>5, <1>8
  <2>2. [old EXCEPT ![B] = <<sym>> \o @] \in BucketsOf(S)
    BY <1>6, <1>7, <2>1 DEF BucketsOf
  <2> QED BY <2>2 DEF Inserted, B
<1>10. tc = [sc EXCEPT ![L].buckets = Inserted(old, sym)] /\ current_scope' = L
  BY <1>2, <1>4 DEF scope_insert
<1> HIDE DEF old
<1>11. /\ tc \in Seq(ScopesOf(S)) /\ Len(tc) = L
       /\ \A s \in 1 .. L : s # L => tc[s] = sc[s]
       /\ tc[L].buckets = Inserted(old, sym) /\ tc[L].path = sc[L].path
  <2>1. sc[L] \in ScopesOf(S)
    BY <1>2, <1>7
  <2>2. [sc[L] EXCEPT !.buckets = Inserted(old, sym)] \in ScopesOf(S)
    BY <1>9, <2>1 DEF ScopesOf
  <2>3. tc = [sc EXCEPT ![L] = [sc[L] EXCEPT !.buckets = Inserted(old, sym)]]
    BY <1>10
  <2>4. tc[L] = [sc[L] EXCEPT !.buckets = Inserted(old, sym)]
    BY <1>2, <1>7, <2>3
  <2>5. tc[L].buckets = Inserted(old, sym) /\ tc[L].path = sc[L].path
    BY <2>1, <2>4 DEF ScopesOf
  <2> QED BY <1>2, <1>7, <2>2, <2>3, <2>5
<1>12. Nested(tc, S)
  <2>1. \A s \in 1 .. L : sc[s].path = [i \in 1 .. s |-> i]
    BY <1>5 DEF Nested
  <2>2. \A s \in 1 .. L : tc[s].path = sc[s].path
    BY <1>11
  <2> QED BY <1>2, <1>11, <2>1, <2>2 DEF Nested
<1>13. /\ IsFiniteSet(EntriesOf(tc, L)) /\ Count(tc, L) = Count(sc, L) + 1
       /\ Count(sc, L) \in Nat
       /\ Level(tc, L) = Env!Declared(Level(sc, L), sym.name)
  <2>1. \A k \in 1 .. L - 1 : tc[k].buckets = sc[k].buckets
    BY <1>2, <1>11
  <2>2. tc[L].buckets = Inserted(sc[L].buckets, sym) /\ sc[L].buckets \in BucketsOf(S)
    BY <1>7, <1>11 DEF old
  <2>3. IsFiniteSet(EntriesOf(sc, L))
    BY <1>2 DEF Ranked
  <2>4. L \in Nat \ {0} /\ sym.name \in Names /\ sym.id = Count(sc, L) + 1
    BY <1>2, <1>6
  <2> HIDE DEF L, sc, tc
  <2> QED BY <1>5, <2>1, <2>2, <2>3, <2>4, LevelInserted
<1>14. ASSUME NEW s \in 1 .. L, s # L
       PROVE  /\ Level(tc, s) = Level(sc, s) /\ EntriesOf(tc, s) = EntriesOf(sc, s)
              /\ tc[s] = sc[s]
  <2>1. s \in Nat /\ \A k \in 1 .. s : k \in 1 .. L /\ k # L
    BY <1>2, <1>14
  <2>2. \A k \in 1 .. s : tc[k].buckets = sc[k].buckets
    BY <1>11, <2>1
  <2> QED BY <1>11, <1>14, <2>1, <2>2, LevelLocal
<1>15. /\ tc[L].buckets[B] = <<sym>> \o old[B]
       /\ \A b \in 0 .. BUCKETS - 1 : b # B => tc[L].buckets[b] = old[b]
  BY <1>6, <1>7, <1>11 DEF Inserted, B, BucketsOf
<1>16. ASSUME NEW b \in 0 .. BUCKETS - 1, NEW j \in 1 .. Len(old[b])
       PROVE  /\ old[b][j].id \in 1 .. Count(sc, L)
              /\ \A k \in 1 .. Len(old[b]) : old[b][k].id = old[b][j].id => k = j
  BY <1>2 DEF Ranked, old
<1>17. ASSUME NEW b \in 0 .. BUCKETS - 1, NEW j \in 1 .. Len(tc[L].buckets[b])
       PROVE  /\ tc[L].buckets[b][j].id \in 1 .. Count(tc, L)
              /\ \A k \in 1 .. Len(tc[L].buckets[b]) :
                   tc[L].buckets[b][k].id = tc[L].buckets[b][j].id => k = j
  <2>1. CASE b # B
    <3>1. tc[L].buckets[b] = old[b]
      BY <1>15, <2>1
    <3> QED BY <1>13, <1>16, <3>1
  <2>2. CASE b = B
    <3> DEFINE new == <<sym>> \o old[B]
    <3>1. /\ Len(new) = Len(old[B]) + 1 /\ new[1] = sym
          /\ \A i \in 1 .. Len(old[B]) : new[i + 1] = old[B][i]
      BY <1>5, <1>8
    <3>2. tc[L].buckets[b] = new
      BY <1>15, <2>2
    <3> HIDE DEF new
    <3>3. \A i \in 1 .. Len(new) :
            i = 1 \/ (i - 1 \in 1 .. Len(old[B]) /\ new[i] = old[B][i - 1])
      <4> SUFFICES ASSUME NEW i \in 1 .. Len(new), i # 1
                   PROVE  i - 1 \in 1 .. Len(old[B]) /\ new[i] = old[B][i - 1]
        OBVIOUS
      <4>1. i - 1 \in 1 .. Len(old[B]) /\ (i - 1) + 1 = i
        BY <1>8, <3>1
      <4> QED BY <3>1, <4>1
    <3>4. \A i \in 1 .. Len(old[B]) : old[B][i].id \in 1 .. Count(sc, L)
      BY <1>6, <1>16
    <3>5. ASSUME NEW i \in 1 .. Len(new)
          PROVE  new[i].id \in 1 .. Count(tc, L) /\ (new[i].id = sym.id => i = 1)
      <4>1. CASE i = 1
        BY <1>6, <1>13, <3>1, <4>1
      <4>2. CASE i # 1
        <5>1. new[i].id \in 1 .. Count(sc, L)
          BY <3>3, <3>4, <4>2
        <5> QED BY <1>6, <1>13, <5>1
      <4> QED BY <4>1, <4>2
    <3>6. ASSUME NEW i \in 1 .. Len(new), NEW k \in 1 .. Len(new), new[k].id = new[i].id
          PROVE  k = i
      <4>1. CASE i = 1
        BY <3>1, <3>5, <3>6, <4>1
      <4>2. CASE k = 1
        BY <3>1, <3>5, <3>6, <4>2
      <4>3. CASE i # 1 /\ k # 1
        <5>1. /\ i - 1 \in 1 .. Len(old[B]) /\ k - 1 \in 1 .. Len(old[B])
              /\ old[B][k - 1].id = old[B][i - 1].id
          BY <3>3, <3>6, <4>3
        <5>2. k - 1 = i - 1
          BY <1>6, <1>16, <5>1
        <5> QED BY <5>2
      <4> QED BY <4>1, <4>2, <4>3
    <3> QED BY <3>2, <3>5, <3>6
  <2> QED BY <2>1, <2>2
<1>18. Ranked(tc)
  <2> SUFFICES ASSUME NEW s \in 1 .. L
               PROVE  /\ IsFiniteSet(EntriesOf(tc, s))
                      /\ \A b \in 0 .. BUCKETS - 1 : \A j \in 1 .. Len(tc[s].buckets[b]) :
                           /\ tc[s].buckets[b][j].id \in 1 .. Count(tc, s)
                           /\ \A k \in 1 .. Len(tc[s].buckets[b]) :
                                tc[s].buckets[b][k].id = tc[s].buckets[b][j].id => k = j
    BY <1>11 DEF Ranked
  <2>1. CASE s = L
    BY <1>13, <1>17, <2>1
  <2>2. CASE s # L
    <3>1. tc[s] = sc[s] /\ EntriesOf(tc, s) = EntriesOf(sc, s) /\ Count(tc, s) = Count(sc, s)
      BY <1>14, <2>2 DEF Count
    <3> QED BY <1>2, <3>1 DEF Ranked
  <2> QED BY <2>1, <2>2
<1>19. Levels(tc) = [Levels(sc) EXCEPT ![Len(Levels(sc))] = Env!Declared(@, sym.name)]
  <2>1. Levels(sc) = [s \in 1 .. L |-> Level(sc, s)] /\ Levels(tc) = [s \in 1 .. L |-> Level(tc, s)]
    BY <1>11 DEF Levels
  <2>2. Len(Levels(sc)) = L
    BY <1>2, <2>1
  <2> QED BY <1>2, <1>13, <1>14, <2>1, <2>2
<1> QED BY <1>6, <1>10, <1>11, <1>12, <1>18, <1>19 DEF TableInv, Env!Declare

\* A symbol of the innermost scope that is written to.
LEMMA UpdatePreserves ==
  TableInv /\ Update => TableInv' /\ Levels(scopes') = Levels(scopes)
<1> SUFFICES ASSUME TableInv, Update
             PROVE  TableInv' /\ Levels(scopes') = Levels(scopes)
  OBVIOUS
<1> DEFINE L == Len(scopes)
           sc == scopes
           tc == scopes'
<1>1. PICK S0 : Nested(sc, S0)
  BY DEF TableInv
<1>2. L \in Nat \ {0} /\ L \in 1 .. L /\ current_scope = L /\ Ranked(sc)
  BY <1>1 DEF Nested, TableInv
<1> DEFINE Writes(n, sym) ==
             /\ Declares(current_scope, n)
             /\ sym.name = n /\ sym.id = scope_lookup_current(current_scope, n).id
             /\ Overwrite(current_scope, n, sym)
             /\ UNCHANGED current_scope
<1>3. PICK n \in Names : \E sym \in ChainBehind(n) : Writes(n, sym)
  BY DEF Update
<1>4. PICK sym \in ChainBehind(n) : Writes(n, sym)
  BY <1>3
<1> DEFINE S == S0 \cup {sym}
           B == Bucket(n)
           old == sc[L].buckets
           chain == [i \in 1 .. Len(old[B]) |-> IF old[B][i].id = sym.id THEN sym ELSE old[B][i]]
<1>5. Nested(sc, S) /\ sym \in S
  BY <1>1, NestedWidens
<1> HIDE DEF S
<1>6. B \in 0 .. BUCKETS - 1
  BY BucketInside
<1>7. sc \in Seq(ScopesOf(S)) /\ old \in BucketsOf(S) /\ sc[L] \in ScopesOf(S)
  <2>1. sc \in Seq(ScopesOf(S))
    BY <1>5 DEF Nested
  <2>2. sc[L] \in ScopesOf(S)
    BY <1>2, <2>1
  <2>3. old \in BucketsOf(S)
    BY <2>2 DEF ScopesOf
  <2> QED BY <2>1, <2>2, <2>3
<1>8. /\ tc = [sc EXCEPT ![L].buckets[B] = chain] /\ current_scope' = L
      /\ Declares(L, n) /\ sym.name = n /\ sym.id = scope_lookup_current(L, n).id
  BY <1>2, <1>4 DEF Overwrite
<1> HIDE DEF B
<1>9. old[B] \in Seq(S) /\ Len(old[B]) \in Nat
  <2> HIDE DEF old
  <2>1. old[B] \in Seq(S)
    BY <1>6, <1>7 DEF BucketsOf
  <2> QED BY <2>1
\* The symbol that is found is the only one that is replaced.
<1>10. /\ chain \in Seq(S) /\ Len(chain) = Len(old[B])
       /\ \A i \in 1 .. Len(old[B]) : chain[i].name = old[B][i].name /\ chain[i].id = old[B][i].id
  <2> DEFINE m == Min(Hits(old[B], n))
  <2>1. Hits(old[B], n) # {} /\ scope_lookup_current(L, n) = First(old[B], n)
    BY <1>8 DEF Declares, scope_lookup_current, First, Hits, old, B
  <2>2. m \in Hits(old[B], n)
    BY <1>9, <2>1, LeastHit
  <2>3. m \in 1 .. Len(old[B]) /\ old[B][m].name = n /\ First(old[B], n) = old[B][m]
    BY <2>1, <2>2 DEF Hits, First
  <2> HIDE DEF m
  <2>4. sym.id = old[B][m].id
    BY <1>8, <2>1, <2>3
  <2>5. \A i \in 1 .. Len(old[B]) : old[B][i].id = old[B][m].id => i = m
    BY <1>2, <1>6, <2>3 DEF Ranked, old
  <2>6. \A i \in 1 .. Len(old[B]) :
          chain[i].name = old[B][i].name /\ chain[i].id = old[B][i].id
    BY <1>8, <2>3, <2>4, <2>5
  <2>7. chain \in Seq(S) /\ Len(chain) = Len(old[B])
    <3> HIDE DEF old
    <3>1. \A i \in 1 .. Len(old[B]) : old[B][i] \in S
      BY <1>9
    <3>2. chain \in [1 .. Len(old[B]) -> S]
      BY <1>5, <3>1
    <3> HIDE DEF chain
    <3> QED BY <1>9, <3>2
  <2> QED BY <2>6, <2>7
<1> HIDE DEF chain
<1> DEFINE new == [old EXCEPT ![B] = chain]
<1>11. /\ new \in BucketsOf(S) /\ new[B] = chain
       /\ \A b \in 0 .. BUCKETS - 1 : b # B => new[b] = old[b]
  BY <1>6, <1>7, <1>10 DEF BucketsOf
<1> HIDE DEF new
<1>12. tc = [sc EXCEPT ![L] = [sc[L] EXCEPT !.buckets = new]]
  BY <1>8 DEF new
<1>13. /\ tc \in Seq(ScopesOf(S)) /\ Len(tc) = L
       /\ \A s \in 1 .. L : s # L => tc[s] = sc[s]
       /\ tc[L].buckets = new /\ tc[L].path = sc[L].path
  <2> HIDE DEF old
  <2>1. [sc[L] EXCEPT !.buckets = new] \in ScopesOf(S)
    BY <1>7, <1>11 DEF ScopesOf
  <2>2. tc[L] = [sc[L] EXCEPT !.buckets = new]
    BY <1>2, <1>7, <1>12
  <2>3. tc[L].buckets = new /\ tc[L].path = sc[L].path
    BY <1>7, <2>2 DEF ScopesOf
  <2> QED BY <1>2, <1>7, <1>12, <2>1, <2>3
<1>14. Nested(tc, S)
  <2>1. \A s \in 1 .. L : sc[s].path = [i \in 1 .. s |-> i]
    BY <1>5 DEF Nested
  <2>2. \A s \in 1 .. L : tc[s].path = sc[s].path
    BY <1>13
  <2> QED BY <1>2, <1>13, <2>1, <2>2 DEF Nested
<1>15. Alike(sc[L].buckets, tc[L].buckets)
  <2>1. Alike(old, new)
    <3> HIDE DEF old
    <3> QED BY <1>10, <1>11 DEF Alike
  <2> QED BY <1>13, <2>1
<1>16. Level(tc, L) = Level(sc, L) /\ EntriesOf(tc, L) = EntriesOf(sc, L)
  <2>1. \A k \in 1 .. L - 1 : tc[k].buckets = sc[k].buckets
    BY <1>2, <1>13
  <2>2. L \in Nat \ {0} /\ sc[L].buckets \in BucketsOf(S)
    BY <1>2, <1>7
  <2> HIDE DEF L, sc, tc
  <2> QED BY <1>15, <2>1, <2>2, LevelUpdated
<1>17. ASSUME NEW s \in 1 .. L, s # L
       PROVE  /\ Level(tc, s) = Level(sc, s) /\ EntriesOf(tc, s) = EntriesOf(sc, s)
              /\ tc[s] = sc[s]
  <2>1. s \in Nat /\ \A k \in 1 .. s : k \in 1 .. L /\ k # L
    BY <1>2, <1>17
  <2>2. \A k \in 1 .. s : tc[k].buckets = sc[k].buckets
    BY <1>13, <2>1
  <2> QED BY <1>13, <1>17, <2>1, <2>2, LevelLocal
<1>18. Ranked(tc)
  <2> SUFFICES ASSUME NEW s \in 1 .. L
               PROVE  /\ IsFiniteSet(EntriesOf(tc, s))
                      /\ \A b \in 0 .. BUCKETS - 1 : \A j \in 1 .. Len(tc[s].buckets[b]) :
                           /\ tc[s].buckets[b][j].id \in 1 .. Count(tc, s)
                           /\ \A k \in 1 .. Len(tc[s].buckets[b]) :
                                tc[s].buckets[b][k].id = tc[s].buckets[b][j].id => k = j
    BY <1>13 DEF Ranked
  <2>1. CASE s = L
    <3>1. Count(tc, s) = Count(sc, s) /\ IsFiniteSet(EntriesOf(tc, s))
      BY <1>2, <1>16, <2>1 DEF Count, Ranked
    <3>2. ASSUME NEW b \in 0 .. BUCKETS - 1, NEW j \in 1 .. Len(sc[L].buckets[b])
          PROVE  /\ sc[L].buckets[b][j].id \in 1 .. Count(sc, L)
                 /\ \A k \in 1 .. Len(sc[L].buckets[b]) :
                      sc[L].buckets[b][k].id = sc[L].buckets[b][j].id => k = j
      BY <1>2 DEF Ranked
    <3>3. ASSUME NEW b \in 0 .. BUCKETS - 1
          PROVE  /\ Len(tc[L].buckets[b]) = Len(sc[L].buckets[b])
                 /\ \A i \in 1 .. Len(sc[L].buckets[b]) :
                      tc[L].buckets[b][i].id = sc[L].buckets[b][i].id
      BY <1>15 DEF Alike
    <3>4. ASSUME NEW b \in 0 .. BUCKETS - 1, NEW j \in 1 .. Len(tc[L].buckets[b])
          PROVE  /\ tc[L].buckets[b][j].id \in 1 .. Count(tc, L)
                 /\ \A k \in 1 .. Len(tc[L].buckets[b]) :
                      tc[L].buckets[b][k].id = tc[L].buckets[b][j].id => k = j
      BY <2>1, <3>1, <3>2, <3>3
    <3> QED BY <2>1, <3>1, <3>4
  <2>2. CASE s # L
    <3>1. tc[s] = sc[s] /\ EntriesOf(tc, s) = EntriesOf(sc, s) /\ Count(tc, s) = Count(sc, s)
      BY <1>17, <2>2 DEF Count
    <3> QED BY <1>2, <3>1 DEF Ranked
  <2> QED BY <2>1, <2>2
<1>19. Levels(tc) = Levels(sc)
  BY <1>13, <1>16, <1>17 DEF Levels
<1> QED BY <1>8, <1>13, <1>14, <1>18, <1>19 DEF TableInv

\* The innermost scope is left.
LEMMA ClosePreserves ==
  TableInv /\ Close => TableInv' /\ Env!Leave(Levels(scopes), Levels(scopes'))
<1> SUFFICES ASSUME TableInv, Close
             PROVE  TableInv' /\ Env!Leave(Levels(scopes), Levels(scopes'))
  OBVIOUS
<1> DEFINE L == Len(scopes)
           sc == scopes
           tc == scopes'
<1>1. PICK S : Nested(sc, S)
  BY DEF TableInv
<1>2. L \in Nat /\ L > 1 /\ current_scope = L /\ Ranked(sc)
  BY <1>1 DEF Nested, TableInv, Close
<1>3. tc = SubSeq(sc, 1, L - 1) /\ current_scope' = L - 1
  BY <1>2 DEF Close, ReturnTo
<1>4. sc \in Seq(ScopesOf(S)) /\ L - 1 \in 1 .. L /\ L - 1 \in Nat
  BY <1>1, <1>2 DEF Nested
<1>5. /\ tc \in Seq(ScopesOf(S)) /\ Len(tc) = L - 1
      /\ \A s \in 1 .. L - 1 : s \in 1 .. L /\ tc[s] = sc[s]
  <2> HIDE DEF sc, tc
  <2>1. Len(sc) = L
    BY DEF sc
  <2> HIDE DEF L
  <2> QED BY <1>3, <1>4, <2>1
<1>6. Nested(tc, S)
  <2>1. \A s \in 1 .. L : sc[s].path = [i \in 1 .. s |-> i]
    BY <1>1 DEF Nested
  <2> QED BY <1>2, <1>5, <2>1 DEF Nested
<1>7. ASSUME NEW s \in 1 .. L - 1
      PROVE  Level(tc, s) = Level(sc, s) /\ EntriesOf(tc, s) = EntriesOf(sc, s)
  <2>1. s \in Nat /\ \A k \in 1 .. s : k \in 1 .. L - 1
    BY <1>2
  <2>2. \A k \in 1 .. s : tc[k].buckets = sc[k].buckets
    BY <1>5, <2>1
  <2> QED BY <2>1, <2>2, LevelLocal
<1>8. Ranked(tc)
  <2> SUFFICES ASSUME NEW s \in 1 .. L - 1
               PROVE  /\ IsFiniteSet(EntriesOf(tc, s))
                      /\ \A b \in 0 .. BUCKETS - 1 : \A j \in 1 .. Len(tc[s].buckets[b]) :
                           /\ tc[s].buckets[b][j].id \in 1 .. Count(tc, s)
                           /\ \A k \in 1 .. Len(tc[s].buckets[b]) :
                                tc[s].buckets[b][k].id = tc[s].buckets[b][j].id => k = j
    BY <1>5 DEF Ranked
  <2>1. /\ tc[s] = sc[s] /\ s \in 1 .. L
        /\ EntriesOf(tc, s) = EntriesOf(sc, s) /\ Count(tc, s) = Count(sc, s)
    BY <1>5, <1>7 DEF Count
  <2> QED BY <1>2, <2>1 DEF Ranked
<1>9. Env!Leave(Levels(sc), Levels(tc))
  <2> DEFINE before == Levels(sc)
             after == Levels(tc)
  <2>1. before = [s \in 1 .. L |-> Level(sc, s)] /\ after = [s \in 1 .. L - 1 |-> Level(tc, s)]
    BY <1>5 DEF Levels
  <2>2. after = [s \in 1 .. L - 1 |-> Level(sc, s)]
    BY <1>7, <2>1
  <2> HIDE DEF before, after, sc, tc
  <2>3. Len(before) = L
    BY <1>2, <2>1
  <2> HIDE DEF L
  <2>4. SubSeq(before, 1, L - 1) = [s \in 1 .. L - 1 |-> before[s]]
    BY <1>2, <2>1, <2>3
  <2>5. \A s \in 1 .. L - 1 : before[s] = Level(sc, s)
    BY <1>2, <2>1
  <2>6. after = SubSeq(before, 1, L - 1)
    BY <2>2, <2>4, <2>5
  <2> QED BY <1>2, <2>3, <2>6 DEF Env!Leave, before, after
<1> QED BY <1>3, <1>5, <1>6, <1>8, <1>9 DEF TableInv

-----------------------------------------------------------------------------
LEMMA TableStep ==
  TableInv /\ [Open \/ Insert \/ Update \/ Close]_scopeVars =>
    /\ TableInv'
    /\ \/ Levels(scopes') = Levels(scopes)
       \/ Env!Enter(Levels(scopes), Levels(scopes'))
       \/ Env!EnterWith(Levels(scopes), Levels(scopes'))
       \/ Env!Declare(Levels(scopes), Levels(scopes'))
       \/ Env!Leave(Levels(scopes), Levels(scopes'))
<1> SUFFICES ASSUME TableInv, [Open \/ Insert \/ Update \/ Close]_scopeVars
             PROVE  /\ TableInv'
                    /\ \/ Levels(scopes') = Levels(scopes)
                       \/ Env!Enter(Levels(scopes), Levels(scopes'))
                       \/ Env!EnterWith(Levels(scopes), Levels(scopes'))
                       \/ Env!Declare(Levels(scopes), Levels(scopes'))
                       \/ Env!Leave(Levels(scopes), Levels(scopes'))
  OBVIOUS
<1>1. CASE Open
  BY <1>1, OpenPreserves
<1>2. CASE Insert
  BY <1>2, InsertPreserves
<1>3. CASE Update
  BY <1>3, UpdatePreserves
<1>4. CASE Close
  BY <1>4, ClosePreserves
<1>5. CASE UNCHANGED scopeVars
  BY <1>5 DEF TableInv, scopeVars
<1> QED BY <1>1, <1>2, <1>3, <1>4, <1>5

\* However often scopes are opened, written to and closed, with whatever hash
\* function and however many names share a bucket, and whatever is in the symbols:
\* a name means its newest declaration in the innermost open scope that has one, and
\* closing a scope gives back every meaning it hid (symbol.c, with the bracketed
\* current_scope of sema.c).
THEOREM TableIsBlockStructured == TableSpec => RefinesEnvironment
<1>1. TableInit => TableInv /\ Env!EnvInit
  BY TableInitEstablishes
<1>2. TableInv /\ [Open \/ Insert \/ Update \/ Close]_scopeVars => TableInv'
  BY TableStep
<1>3. TableInv /\ TableInv' /\ [Open \/ Insert \/ Update \/ Close]_scopeVars
        => [Env!EnvNext]_Visible
  <2> SUFFICES ASSUME TableInv, TableInv', [Open \/ Insert \/ Update \/ Close]_scopeVars
               PROVE  Env!EnvNext
    OBVIOUS
  <2>1. Visible = Levels(scopes)
    BY VisibleIs
  <2>2. (TableInv => Visible = Levels(scopes))'
    BY VisibleIs, PTL
  <2>3. Visible' = Levels(scopes')
    <3>1. Levels(scopes)' = Levels(scopes')
      BY DEF Levels, Level, Count, EntriesOf, Lookup, Knowing, Knows, Chain, First, Hits
    <3> QED BY <2>2, <3>1
  <2> QED BY <2>1, <2>3, TableStep DEF Env!EnvNext
<1> QED BY <1>1, <1>2, <1>3, PTL DEF TableSpec, RefinesEnvironment, Env!EnvSpec

-----------------------------------------------------------------------------
(* The type table *)

\* The types a program has pointers to: those of the table and the noreturn types.
InHand(store) == store.table \cup {LooseNoReturn(n) : n \in 1 .. store.loose}

\* One call of a constructor of type.c, on any types in hand; the steps of the checker
\* are made of them.
TypesNext ==
  \/ \E kind \in {"pointer", "reference", "slice"}, is_const \in BOOLEAN, base \in InHand(types) :
       types' = st_unary(types, kind, is_const, base).types
  \/ \E size \in Nat, base \in InHand(types) : types' = st_array(types, size, base).types
  \/ \E base \in InHand(types) : types' = st_optional(types, base).types
  \/ \E success, error \in InHand(types) : types' = st_error_union(types, success, error).types
  \/ \E params \in Seq(InHand(types)), ret \in InHand(types) :
       types' = st_function(types, params, ret).types
  \/ \E name \in STRING : types' = st_struct(types, name).types
  \/ types' = make_noreturn(types).types

TypesSpec == TypesInit /\ [][TypesNext]_types

\* What Interned says of a table.
NoTwins(store) == \A t, u \in store.table : t.shape = u.shape => t = u
Closed(store) ==
  \A t \in store.table : \A c \in Components(t) : c \in store.table \/ Kind(c) = "noreturn"
Store(store) == \E table, loose : store = [table |-> table, loose |-> loose]

TypesInv == Store(types) /\ NoTwins(types) /\ Closed(types)

LEMMA InternedIs == Interned <=> NoTwins(types) /\ Closed(types)
BY DEF Interned, NoTwins, Closed

LEMMA InHandIs ==
  ASSUME NEW store, NEW t \in InHand(store)
  PROVE  t \in store.table \/ Kind(t) = "noreturn"
BY DEF InHand, LooseNoReturn, Pointer, Kind

\* intern_type gives the record of the shape, finds it again when it is asked again,
\* keeps every record that is there, and lets no shape in twice.
LEMMA InternType ==
  ASSUME NEW store, Store(store), NoTwins(store), Closed(store), NEW shape,
         \A c \in Components(Pointer(shape, 0)) : c \in store.table \/ Kind(c) = "noreturn"
  PROVE  LET r == intern_type(store, shape)
         IN  /\ r.type \in r.types.table /\ r.type.shape = shape
             /\ store.table \subseteq r.types.table
             /\ Store(r.types) /\ NoTwins(r.types) /\ Closed(r.types)
             /\ intern_type(r.types, shape) = r
<1> DEFINE same == {t \in store.table : t.shape = shape}
           p == Pointer(shape, Cardinality(same))
           r == intern_type(store, shape)
<1>1. r = IF same # {} THEN [types |-> store, type |-> CHOOSE t \in same : TRUE]
          ELSE [types |-> [store EXCEPT !.table = @ \cup {p}], type |-> p]
  BY DEF intern_type
<1>2. p.shape = shape /\ Components(p) = Components(Pointer(shape, 0))
  BY DEF Pointer, Components, Kind
<1>3. CASE same # {}
  <2> DEFINE t == CHOOSE t \in same : TRUE
  <2>1. t \in same
    BY <1>3
  <2>2. r.types = store /\ r.type = t /\ r = [types |-> store, type |-> t]
    BY <1>1, <1>3
  <2> HIDE DEF t, r
  <2>3. intern_type(r.types, shape) = r
    BY <2>2 DEF r
  <2> QED BY <2>1, <2>2, <2>3 DEF r
<1>4. CASE same = {}
  <2> DEFINE new == [table |-> store.table \cup {p}, loose |-> store.loose]
             again == {t \in new.table : t.shape = shape}
  <2>1. [store EXCEPT !.table = @ \cup {p}] = new
    <3> HIDE DEF p, same
    <3>1. PICK table, loose : store = [table |-> table, loose |-> loose]
      BY DEF Store
    <3>2. store.table = table /\ store.loose = loose
      BY <3>1
    <3>3. [store EXCEPT !.table = @ \cup {p}] = [table |-> table \cup {p}, loose |-> loose]
      BY <3>1
    <3> QED BY <3>2, <3>3
  <2>2. r = [types |-> new, type |-> p] /\ r.types = new /\ r.type = p
    <3> HIDE DEF p, same, new, r
    <3>1. r = [types |-> new, type |-> p]
      BY <1>1, <1>4, <2>1
    <3> QED BY <3>1
  <2>3. new.table = store.table \cup {p} /\ Store(new)
    BY DEF Store
  <2> HIDE DEF new, p, r
  <2>4. NoTwins(new)
    BY <1>2, <1>4, <2>3 DEF NoTwins
  <2>5. Closed(new)
    BY <1>2, <2>3 DEF Closed
  <2>6. again = {p}
    BY <1>2, <1>4, <2>3
  <2>7. intern_type(new, shape) = [types |-> new, type |-> CHOOSE t \in again : TRUE]
    <3>1. again # {}
      BY <2>6
    <3>2. intern_type(new, shape) =
            IF again # {} THEN [types |-> new, type |-> CHOOSE t \in again : TRUE]
            ELSE [types |-> [new EXCEPT !.table = @ \cup {Pointer(shape, Cardinality(again))}],
                  type |-> Pointer(shape, Cardinality(again))]
      BY DEF intern_type
    <3> HIDE DEF again
    <3> QED BY <3>1, <3>2
  <2>8. (CHOOSE t \in again : TRUE) = p
    <3> HIDE DEF again
    <3>1. (CHOOSE t \in again : TRUE) \in again
      BY <2>6
    <3> QED BY <2>6, <3>1
  <2>9. intern_type(new, shape) = r
    BY <2>2, <2>7, <2>8
  <2> QED BY <1>2, <2>2, <2>3, <2>4, <2>5, <2>9 DEF r
<1> QED BY <1>3, <1>4

LEMMA TypesStep == TypesInv /\ TypesNext => TypesInv'
<1> SUFFICES ASSUME TypesInv, TypesNext PROVE TypesInv'
  OBVIOUS
<1> DEFINE Buildable(shape) ==
             \A c \in Components(Pointer(shape, 0)) : c \in types.table \/ Kind(c) = "noreturn"
<1>1. ASSUME NEW shape, Buildable(shape), types' = intern_type(types, shape).types
      PROVE  TypesInv'
  <2>1. /\ Store(intern_type(types, shape).types) /\ NoTwins(intern_type(types, shape).types)
        /\ Closed(intern_type(types, shape).types)
    BY <1>1, InternType DEF TypesInv
  <2>2. Store(types') /\ NoTwins(types') /\ Closed(types')
    BY <1>1, <2>1
  <2> QED BY <2>2 DEF TypesInv, Store, NoTwins, Closed
<1>2. \A t \in InHand(types) : t \in types.table \/ Kind(t) = "noreturn"
  BY InHandIs
<1>3. ASSUME NEW kind \in {"pointer", "reference", "slice"}, NEW is_const \in BOOLEAN,
             NEW base \in InHand(types), types' = st_unary(types, kind, is_const, base).types
      PROVE  TypesInv'
  <2> DEFINE shape == [kind |-> kind, is_const |-> is_const, base |-> base]
  <2>1. Components(Pointer(shape, 0)) = {base}
    BY DEF Components, Pointer, Kind
  <2>2. Buildable(shape) /\ types' = intern_type(types, shape).types
    BY <1>2, <1>3, <2>1 DEF st_unary
  <2> HIDE DEF shape, Buildable
  <2> QED BY <1>1, <2>2
<1>4. ASSUME NEW size \in Nat, NEW base \in InHand(types),
             types' = st_array(types, size, base).types
      PROVE  TypesInv'
  <2> DEFINE shape == [kind |-> "array", size |-> size, base |-> base]
  <2>1. Components(Pointer(shape, 0)) = {base}
    BY DEF Components, Pointer, Kind
  <2>2. Buildable(shape) /\ types' = intern_type(types, shape).types
    BY <1>2, <1>4, <2>1 DEF st_array
  <2> HIDE DEF shape, Buildable
  <2> QED BY <1>1, <2>2
<1>5. ASSUME NEW base \in InHand(types), types' = st_optional(types, base).types
      PROVE  TypesInv'
  <2> DEFINE shape == [kind |-> "optional", base |-> base]
  <2>1. Components(Pointer(shape, 0)) = {base}
    BY DEF Components, Pointer, Kind
  <2>2. Buildable(shape) /\ types' = intern_type(types, shape).types
    BY <1>2, <1>5, <2>1 DEF st_optional
  <2> HIDE DEF shape, Buildable
  <2> QED BY <1>1, <2>2
<1>6. ASSUME NEW success \in InHand(types), NEW error \in InHand(types),
             types' = st_error_union(types, success, error).types
      PROVE  TypesInv'
  <2> DEFINE shape == [kind |-> "error_union", success |-> success, error |-> error]
  <2>1. Components(Pointer(shape, 0)) = {success, error}
    BY DEF Components, Pointer, Kind
  <2>2. Buildable(shape) /\ types' = intern_type(types, shape).types
    BY <1>2, <1>6, <2>1 DEF st_error_union
  <2> HIDE DEF shape, Buildable
  <2> QED BY <1>1, <2>2
<1>7. ASSUME NEW params \in Seq(InHand(types)), NEW ret \in InHand(types),
             types' = st_function(types, params, ret).types
      PROVE  TypesInv'
  <2> DEFINE shape == [kind |-> "function", params |-> params, ret |-> ret]
  <2>1. Components(Pointer(shape, 0)) = {params[i] : i \in 1 .. Len(params)} \cup {ret}
    BY DEF Components, Pointer, Kind
  <2>2. \A i \in 1 .. Len(params) : params[i] \in InHand(types)
    OBVIOUS
  <2>3. Buildable(shape) /\ types' = intern_type(types, shape).types
    BY <1>2, <1>7, <2>1, <2>2 DEF st_function
  <2> HIDE DEF shape, Buildable
  <2> QED BY <1>1, <2>3
<1>8. ASSUME NEW name \in STRING, types' = st_struct(types, name).types
      PROVE  TypesInv'
  <2> DEFINE shape == [kind |-> "struct", name |-> name]
  <2>1. Components(Pointer(shape, 0)) = {}
    BY DEF Components, Pointer, Kind
  <2>2. Buildable(shape) /\ types' = intern_type(types, shape).types
    BY <1>8, <2>1 DEF st_struct
  <2> HIDE DEF shape, Buildable
  <2> QED BY <1>1, <2>2
<1>9. ASSUME types' = make_noreturn(types).types PROVE TypesInv'
  <2>1. types' = [types EXCEPT !.loose = @ + 1]
    BY <1>9 DEF make_noreturn
  <2>2. PICK table, loose : types = [table |-> table, loose |-> loose]
    BY DEF TypesInv, Store
  <2>3. types' = [table |-> table, loose |-> loose + 1]
    BY <2>1, <2>2
  <2>4. types'.table = types.table
    BY <2>2, <2>3
  <2> QED BY <2>3, <2>4 DEF TypesInv, Store, NoTwins, Closed
<1> QED BY <1>3, <1>4, <1>5, <1>6, <1>7, <1>8, <1>9 DEF TypesNext

\* TypesInv holds from type_table_new on, through every constructor of type.c.
LEMMA TypesStaySound == TypesSpec => []TypesInv
<1>1. TypesInit => TypesInv
  <2> SUFFICES ASSUME TypesInit PROVE TypesInv
    OBVIOUS
  <2>1. types = [table |-> BasicTypes, loose |-> 0] /\ types.table = BasicTypes /\ types.loose = 0
    BY DEF TypesInit
  <2>2. Store(types)
    BY <2>1 DEF Store
  <2>3. \A t \in BasicTypes : t = Pointer(t.shape, 0) /\ Components(t) = {}
    <3> SUFFICES ASSUME NEW t \in BasicTypes
                 PROVE  t = Pointer(t.shape, 0) /\ Components(t) = {}
      OBVIOUS
    <3>1. CASE t = Void \/ t = Bool
      BY <3>1 DEF Void, Bool, Pointer, Components, Kind
    <3>2. ASSUME NEW i \in IntTypes, t = IntType(i.signed, i.bits)
          PROVE  t = Pointer(t.shape, 0) /\ Components(t) = {}
      BY <3>2 DEF IntType, Pointer, Components, Kind
    <3>3. ASSUME NEW b \in FloatBits, t = FloatType(b)
          PROVE  t = Pointer(t.shape, 0) /\ Components(t) = {}
      BY <3>3 DEF FloatType, Pointer, Components, Kind
    <3> QED BY <3>1, <3>2, <3>3 DEF BasicTypes
  <2>4. NoTwins(types) /\ Closed(types)
    <3> HIDE DEF BasicTypes
    <3>1. ASSUME NEW t \in BasicTypes, NEW u \in BasicTypes, t.shape = u.shape PROVE t = u
      <4>1. t = Pointer(t.shape, 0) /\ u = Pointer(u.shape, 0)
        BY <2>3
      <4> QED BY <3>1, <4>1
    <3> QED BY <2>1, <2>3, <3>1 DEF NoTwins, Closed
  <2> QED BY <2>2, <2>4 DEF TypesInv
<1>2. TypesInv /\ [TypesNext]_types => TypesInv'
  <2>1. TypesInv /\ UNCHANGED types => TypesInv'
    BY DEF TypesInv, Store, NoTwins, Closed
  <2> QED BY <2>1, TypesStep
<1> QED BY <1>1, <1>2, PTL DEF TypesSpec

\* Whatever types a program builds, in whatever order and how deep: no shape is in
\* the table twice and the components of a type in the table are there or are
\* noreturn, so comparing addresses is comparing types (intern_type and the
\* constructors of type.c).
THEOREM TypesStayInterned == TypesSpec => []Interned
<1>1. TypesInv => Interned
  BY InternedIs DEF TypesInv
<1> QED BY <1>1, TypesStaySound, PTL

-----------------------------------------------------------------------------
(* Coercions *)

\* What Targets computes: f[k] is what st_can_coerce has called itself with after k
\* levels.
Widen(S) == S \cup UNION {Inner(t) : t \in S}
Reaches(f, to, n) ==
  f = [k \in 0 .. n |-> IF k = 0 THEN {to} ELSE f[k - 1] \cup UNION {Inner(t) : t \in f[k - 1]}]

LEMMA ReachesIs ==
  ASSUME NEW f, NEW to, NEW n \in Nat
  PROVE  Reaches(f, to, n) <=> /\ f = [k \in 0 .. n |-> f[k]]
                               /\ f[0] = {to}
                               /\ \A k \in 1 .. n : f[k] = Widen(f[k - 1])
<1>1. ASSUME Reaches(f, to, n)
      PROVE  /\ f = [k \in 0 .. n |-> f[k]]
             /\ f[0] = {to}
             /\ \A k \in 1 .. n : f[k] = Widen(f[k - 1])
  BY <1>1 DEF Reaches, Widen
<1>2. ASSUME f = [k \in 0 .. n |-> f[k]], f[0] = {to}, \A k \in 1 .. n : f[k] = Widen(f[k - 1])
      PROVE  Reaches(f, to, n)
  <2> DEFINE E(k) == IF k = 0 THEN {to} ELSE f[k - 1] \cup UNION {Inner(t) : t \in f[k - 1]}
  <2>1. ASSUME NEW k \in 0 .. n PROVE f[k] = E(k)
    <3>1. CASE k = 0
      BY <1>2, <3>1
    <3>2. CASE k # 0
      <4>1. k \in 1 .. n
        BY <3>2
      <4>2. f[k] = Widen(f[k - 1])
        BY <1>2, <4>1
      <4> QED BY <3>2, <4>2 DEF Widen
    <3> QED BY <3>1, <3>2
  <2> HIDE DEF E
  <2>2. f = [k \in 0 .. n |-> E(k)]
    BY <1>2, <2>1
  <2> QED BY <2>2 DEF Reaches, E
<1> QED BY <1>1, <1>2

LEMMA ReachesExists == \A to : \A n \in Nat : \E f : Reaches(f, to, n)
<1> SUFFICES ASSUME NEW to PROVE \A n \in Nat : \E f : Reaches(f, to, n)
  OBVIOUS
<1> DEFINE Bad == {n \in Nat : ~\E f : Reaches(f, to, n)}
<1>1. SUFFICES ASSUME Bad # {} PROVE FALSE
  OBVIOUS
<1>2. PICK n \in Bad : \A m \in Bad : n <= m
  BY <1>1, LeastNatural
<1>3. CASE n = 0
  <2>1. Reaches([k \in 0 .. 0 |-> {to}], to, 0)
    BY DEF Reaches
  <2> QED BY <1>2, <1>3, <2>1
<1>4. CASE n # 0
  <2>1. n \in Nat /\ n - 1 \in Nat /\ n - 1 \notin Bad
    BY <1>2, <1>4
  <2>2. PICK f : Reaches(f, to, n - 1)
    BY <2>1
  <2>3. f[0] = {to} /\ \A k \in 1 .. n - 1 : f[k] = Widen(f[k - 1])
    BY <2>1, <2>2, ReachesIs
  <2> DEFINE g == [k \in 0 .. n |-> IF k = n THEN Widen(f[n - 1]) ELSE f[k]]
  <2>4. g = [k \in 0 .. n |-> g[k]] /\ g[0] = {to} /\ g[n] = Widen(f[n - 1])
        /\ \A k \in 0 .. n - 1 : g[k] = f[k]
    BY <1>4, <2>1, <2>3
  <2> HIDE DEF g, Bad
  <2>5. ASSUME NEW k \in 1 .. n PROVE g[k] = Widen(g[k - 1])
    <3>1. CASE k = n
      <4>1. n - 1 \in 0 .. n - 1
        BY <2>1
      <4> QED BY <2>4, <3>1, <4>1
    <3>2. CASE k # n
      <4>1. k \in 1 .. n - 1 /\ k \in 0 .. n - 1 /\ k - 1 \in 0 .. n - 1
        BY <2>1, <3>2
      <4> QED BY <2>3, <2>4, <4>1
    <3> QED BY <3>1, <3>2
  <2>6. Reaches(g, to, n)
    BY <2>1, <2>4, <2>5, ReachesIs
  <2> QED BY <1>2, <2>6 DEF Bad
<1> QED BY <1>3, <1>4

LEMMA TargetsAre ==
  ASSUME NEW to
  PROVE  \E f : /\ f[0] = {to}
                /\ \A k \in 1 .. MaxTypeDepth : f[k] = Widen(f[k - 1])
                /\ Targets(to) = IF Inner(to) = {} THEN {to} ELSE f[MaxTypeDepth]
<1>1. MaxTypeDepth \in Nat
  BY TypeTableAssumption
<1> DEFINE f == CHOOSE f : Reaches(f, to, MaxTypeDepth)
<1>2. Reaches(f, to, MaxTypeDepth)
  BY <1>1, ReachesExists
<1>3. Targets(to) = IF Inner(to) = {} THEN {to} ELSE f[MaxTypeDepth]
  BY DEF Targets, Reaches
<1> HIDE DEF f
<1>4. f[0] = {to} /\ \A k \in 1 .. MaxTypeDepth : f[k] = Widen(f[k - 1])
  BY <1>1, <1>2, ReachesIs
<1> QED BY <1>3, <1>4

\* The types of S are nested no deeper than the bound.
NestedBy(S, rank) ==
  \A t \in S : /\ rank[t] \in 0 .. MaxTypeDepth
               /\ \A c \in Inner(t) : c \in S /\ rank[c] < rank[t]
Shallow == \E S, rank : types.table \subseteq S /\ NestedBy(S, rank)

\* The targets of a type are complete: the target of a target is one.
LEMMA TargetsClosed ==
  ASSUME NEW S, NEW rank, NestedBy(S, rank), NEW to \in S
  PROVE  to \in Targets(to) /\ \A t \in Targets(to) : Inner(t) \subseteq Targets(to)
<1> DEFINE D == MaxTypeDepth
<1>1. D \in Nat
  BY TypeTableAssumption
<1>2. PICK f : /\ f[0] = {to}
               /\ \A k \in 1 .. D : f[k] = Widen(f[k - 1])
               /\ Targets(to) = IF Inner(to) = {} THEN {to} ELSE f[D]
  BY TargetsAre
<1> HIDE DEF D
<1>3. CASE Inner(to) = {}
  BY <1>2, <1>3
<1>4. CASE Inner(to) # {}
  <2> DEFINE Old(u, k) == k > 0 /\ u \in f[k - 1]
             Good == {k \in Nat : /\ to \in f[k]
                                  /\ \A u \in f[k] : u \in S /\ (Old(u, k) \/ rank[u] <= rank[to] - k)}
  <2>1. 0 \in Good
    BY <1>2 DEF NestedBy
  <2>2. ASSUME NEW k \in 1 .. D, k - 1 \in Good PROVE k \in Good
    <3>1. f[k] = Widen(f[k - 1]) /\ k \in Nat /\ k > 0
      BY <1>1, <1>2
    <3>2. to \in f[k - 1] /\ \A u \in f[k - 1] : u \in S /\ (Old(u, k - 1) \/ rank[u] <= rank[to] - (k - 1))
      BY <2>2
    <3>3. ASSUME NEW u \in f[k], u \notin f[k - 1] PROVE u \in S /\ rank[u] <= rank[to] - k
      <4>1. PICK w \in f[k - 1] : u \in Inner(w)
        BY <3>1, <3>3 DEF Widen
      <4>2. w \in S /\ u \in S /\ rank[u] < rank[w] /\ rank[u] \in Nat /\ rank[w] \in Nat /\ rank[to] \in Nat
        BY <3>2, <4>1 DEF NestedBy
      <4>3. ~Old(w, k - 1)
        <5> SUFFICES ASSUME k - 1 > 0, w \in f[(k - 1) - 1] PROVE FALSE
          OBVIOUS
        <5>1. k - 1 \in 1 .. D
          BY <1>1
        <5>2. f[k - 1] = Widen(f[(k - 1) - 1])
          BY <1>2, <5>1
        <5> QED BY <3>3, <4>1, <5>2 DEF Widen
      <4>4. rank[w] <= rank[to] - (k - 1)
        BY <3>2, <4>3
      <4> QED BY <3>1, <4>2, <4>4
    <3>4. to \in f[k]
      BY <3>1, <3>2 DEF Widen
    <3> QED BY <3>1, <3>2, <3>3, <3>4
  <2>3. D \in Good
    <3>1. Good \in SUBSET Nat /\ D \in 0 .. D
      BY <1>1
    <3> HIDE DEF Good
    <3> QED BY <1>1, <2>1, <2>2, <3>1, LevelByLevel
  <2>4. ASSUME NEW t \in f[D], NEW c \in Inner(t) PROVE c \in f[D]
    <3>1. t \in S /\ (Old(t, D) \/ rank[t] <= rank[to] - D)
      BY <2>3
    <3>2. CASE Old(t, D)
      <4>1. D \in 1 .. D
        BY <1>1, <3>2
      <4>2. f[D] = Widen(f[D - 1])
        BY <1>2, <4>1
      <4> QED BY <3>2, <4>2 DEF Widen
    <3>3. CASE rank[t] <= rank[to] - D
      <4>1. rank[t] \in 0 .. D /\ rank[to] \in 0 .. D /\ rank[c] < rank[t] /\ rank[c] \in 0 .. D
        BY <3>1 DEF NestedBy, D
      <4> QED BY <1>1, <3>3, <4>1
    <3> QED BY <3>1, <3>2, <3>3
  <2>5. to \in f[D]
    BY <2>3
  <2> QED BY <1>2, <1>4, <2>4, <2>5
<1> QED BY <1>3, <1>4

LEMMA TargetsLeast ==
  ASSUME NEW to, NEW R, to \in R, \A t \in R : Inner(t) \subseteq R
  PROVE  Targets(to) \subseteq R
<1> DEFINE D == MaxTypeDepth
<1>1. D \in Nat
  BY TypeTableAssumption
<1>2. PICK f : /\ f[0] = {to}
               /\ \A k \in 1 .. D : f[k] = Widen(f[k - 1])
               /\ Targets(to) = IF Inner(to) = {} THEN {to} ELSE f[D]
  BY TargetsAre
<1> HIDE DEF D
<1> DEFINE Good == {k \in Nat : f[k] \subseteq R}
<1>3. 0 \in Good
  BY <1>2
<1>4. ASSUME NEW k \in 1 .. D, k - 1 \in Good PROVE k \in Good
  <2>1. f[k] = Widen(f[k - 1]) /\ k \in Nat
    BY <1>1, <1>2
  <2> QED BY <1>4, <2>1 DEF Widen
<1>5. D \in Good
  <2>1. Good \in SUBSET Nat /\ D \in 0 .. D
    BY <1>1
  <2> HIDE DEF Good
  <2> QED BY <1>1, <1>3, <1>4, <2>1, LevelByLevel
<1> QED BY <1>2, <1>5

\* The targets of a target are targets.
LEMMA TargetsNest ==
  ASSUME NEW S, NEW rank, NestedBy(S, rank), NEW v \in S, NEW u \in Targets(v)
  PROVE  Targets(u) \subseteq Targets(v)
BY TargetsClosed, TargetsLeast

\* Numbers are the only types a type without components is converted to.
Numeric(t) == Kind(t) \in {"int", "float"}
Measured(S) == \A t \in S : Numeric(t) => t.shape.bits \in Nat

LEMMA CoercesOn ==
  ASSUME NEW t, NEW u, NEW v, Kind(t) \notin {"pointer", "reference"}, Numeric(u), Kind(v) # "reference",
         Measured({t, u, v}), CoercesDirectly(t, u), CoercesDirectly(u, v)
  PROVE  CoercesDirectly(t, v)
BY DEF CoercesDirectly, Numeric, Measured

LEMMA InnerIs ==
  ASSUME NEW t
  PROVE  /\ Inner(t) \subseteq Components(t)
         /\ Numeric(t) \/ Kind(t) = "noreturn" => Inner(t) = {}
BY DEF Inner, Components, Numeric

\* Everything a type of the table is taken apart into is in the table, or noreturn.
LEMMA TargetsHeld ==
  ASSUME NEW S, NEW rank, NestedBy(S, rank), types.table \subseteq S, Closed(types),
         Measured(types.table), NEW t \in types.table
  PROVE  Measured(Targets(t))
<1> DEFINE R == types.table \cup {c \in S : Kind(c) = "noreturn"}
<1>1. ASSUME NEW u \in R, NEW c \in Inner(u) PROVE c \in R
  <2>1. u \in types.table
    BY <1>1, InnerIs
  <2>2. c \in types.table \/ Kind(c) = "noreturn"
    BY <2>1, <1>1, InnerIs DEF Closed
  <2>3. c \in S
    BY <2>1 DEF NestedBy
  <2> QED BY <2>2, <2>3
<1>2. Measured(R)
  BY DEF Measured, Numeric
<1>3. t \in R
  OBVIOUS
<1> HIDE DEF R
<1>4. Targets(t) \subseteq R
  BY <1>1, <1>3, TargetsLeast
<1> QED BY <1>2, <1>4 DEF Measured

LEMMA CoercionsCompose ==
  ASSUME Closed(types), Measured(types.table), Shallow
  PROVE  CoercionTransitive
<1>1. PICK S, rank : types.table \subseteq S /\ NestedBy(S, rank)
  BY DEF Shallow
<1> DEFINE plain == {t \in types.table : Plain(t)}
<1>2. ASSUME NEW t \in plain, NEW u \in plain, NEW v \in plain,
             st_can_coerce(t, u), st_can_coerce(u, v)
      PROVE  st_can_coerce(t, v)
  <2>1. PICK a \in Targets(u) : CoercesDirectly(t, a)
    BY <1>2 DEF st_can_coerce
  <2>2. PICK b \in Targets(v) : CoercesDirectly(u, b)
    BY <1>2 DEF st_can_coerce
  <2>3. t \in Targets(t) /\ u \in Targets(u)
    BY <1>1, TargetsClosed
  <2>4. /\ Kind(t) \notin {"pointer", "reference"}
        /\ Kind(u) \notin {"pointer", "reference"}
        /\ Kind(b) \notin {"pointer", "reference"}
    BY <2>2, <2>3 DEF Plain
  <2>5. CASE u = b
    <3>1. Targets(u) \subseteq Targets(v)
      BY <1>1, <2>2, <2>5, TargetsNest
    <3> QED BY <2>1, <3>1 DEF st_can_coerce
  <2>6. CASE u # b
    <3>1. Numeric(u)
      BY <2>2, <2>4, <2>6 DEF CoercesDirectly, Numeric
    <3>2. Targets(u) = {u}
      <4>1. Inner(u) = {}
        BY <3>1, InnerIs
      <4>2. Targets(u) \subseteq {u}
        BY <4>1, TargetsLeast
      <4> QED BY <2>3, <4>2
    <3>3. CoercesDirectly(t, u)
      BY <2>1, <3>2
    <3>4. Measured({t, u, b})
      <4>1. Measured(Targets(v))
        BY <1>1, TargetsHeld
      <4> QED BY <2>2, <4>1 DEF Measured
    <3>5. CoercesDirectly(t, b)
      BY <2>2, <2>4, <3>1, <3>3, <3>4, CoercesOn
    <3> QED BY <2>2, <3>5 DEF st_can_coerce
  <2> QED BY <2>5, <2>6
<1> QED BY <1>2, Zenon DEF CoercionTransitive

LEMMA MeasuredStep == TypesInv /\ Measured(types.table) /\ TypesNext => Measured(types.table)'
<1> SUFFICES ASSUME TypesInv, Measured(types.table), TypesNext PROVE Measured(types.table)'
  OBVIOUS
<1>1. PICK table, loose : types = [table |-> table, loose |-> loose]
  BY DEF TypesInv, Store
<1>2. types.table = table
  BY <1>1
<1>3. ASSUME NEW shape, types' = intern_type(types, shape).types
      PROVE  \E n : types'.table \subseteq types.table \cup {Pointer(shape, n)}
  <2> DEFINE same == {t \in types.table : t.shape = shape}
             p == Pointer(shape, Cardinality(same))
  <2>1. types' = types \/ types' = [types EXCEPT !.table = @ \cup {p}]
    BY <1>3 DEF intern_type
  <2> HIDE DEF same, p
  <2>2. types'.table \subseteq types.table \cup {p}
    BY <1>1, <2>1
  <2> QED BY <2>2 DEF p
<1>4. ASSUME NEW shape, types' = intern_type(types, shape).types, shape.kind \notin {"int", "float"}
      PROVE  Measured(types'.table)
  <2>1. PICK n : types'.table \subseteq types.table \cup {Pointer(shape, n)}
    BY <1>3, <1>4
  <2>2. ~Numeric(Pointer(shape, n))
    BY <1>4 DEF Numeric, Pointer, Kind
  <2> QED BY <2>1, <2>2 DEF Measured
<1>5. ASSUME types' = make_noreturn(types).types PROVE types'.table = types.table
  <2>1. types' = [types EXCEPT !.loose = @ + 1]
    BY <1>5 DEF make_noreturn
  <2> QED BY <1>1, <2>1
<1>6. ASSUME NEW kind \in {"pointer", "reference", "slice"}, NEW is_const, NEW base,
             types' = st_unary(types, kind, is_const, base).types
      PROVE  Measured(types'.table)
  <2> DEFINE shape == [kind |-> kind, is_const |-> is_const, base |-> base]
  <2>1. types' = intern_type(types, shape).types /\ shape.kind \notin {"int", "float"}
    BY <1>6 DEF st_unary
  <2> HIDE DEF shape
  <2> QED BY <1>4, <2>1
<1>7. ASSUME NEW size, NEW base, types' = st_array(types, size, base).types
      PROVE  Measured(types'.table)
  <2> DEFINE shape == [kind |-> "array", size |-> size, base |-> base]
  <2>1. types' = intern_type(types, shape).types /\ shape.kind \notin {"int", "float"}
    BY <1>7 DEF st_array
  <2> HIDE DEF shape
  <2> QED BY <1>4, <2>1
<1>8. ASSUME NEW base, types' = st_optional(types, base).types
      PROVE  Measured(types'.table)
  <2> DEFINE shape == [kind |-> "optional", base |-> base]
  <2>1. types' = intern_type(types, shape).types /\ shape.kind \notin {"int", "float"}
    BY <1>8 DEF st_optional
  <2> HIDE DEF shape
  <2> QED BY <1>4, <2>1
<1>9. ASSUME NEW success, NEW error, types' = st_error_union(types, success, error).types
      PROVE  Measured(types'.table)
  <2> DEFINE shape == [kind |-> "error_union", success |-> success, error |-> error]
  <2>1. types' = intern_type(types, shape).types /\ shape.kind \notin {"int", "float"}
    BY <1>9 DEF st_error_union
  <2> HIDE DEF shape
  <2> QED BY <1>4, <2>1
<1>10. ASSUME NEW params, NEW ret, types' = st_function(types, params, ret).types
      PROVE  Measured(types'.table)
  <2> DEFINE shape == [kind |-> "function", params |-> params, ret |-> ret]
  <2>1. types' = intern_type(types, shape).types /\ shape.kind \notin {"int", "float"}
    BY <1>10 DEF st_function
  <2> HIDE DEF shape
  <2> QED BY <1>4, <2>1
<1>11. ASSUME NEW name, types' = st_struct(types, name).types
      PROVE  Measured(types'.table)
  <2> DEFINE shape == [kind |-> "struct", name |-> name]
  <2>1. types' = intern_type(types, shape).types /\ shape.kind \notin {"int", "float"}
    BY <1>11 DEF st_struct
  <2> HIDE DEF shape
  <2> QED BY <1>4, <2>1
<1>12. Measured(types'.table)
  BY <1>5, <1>6, <1>7, <1>8, <1>9, <1>10, <1>11 DEF TypesNext
<1> QED BY <1>12 DEF Measured, Numeric, Kind

\* The bound leaves room from the first: the types of the empty table are nested in
\* nothing.
LEMMA ShallowAtFirst == TypesInit => Shallow
<1> SUFFICES ASSUME TypesInit PROVE Shallow
  OBVIOUS
<1>1. types.table = BasicTypes
  BY DEF TypesInit
<1>2. ASSUME NEW t \in BasicTypes PROVE Inner(t) = {}
  BY DEF BasicTypes, Inner, Void, Bool, IntType, FloatType, Pointer, Kind
<1> DEFINE rank == [t \in BasicTypes |-> 0]
<1>3. NestedBy(BasicTypes, rank)
  BY <1>2, TypeTableAssumption DEF NestedBy
<1> HIDE DEF rank
<1> QED BY <1>1, <1>3 DEF Shallow

\* Whatever types a program builds, nested up to the bound: a value that is converted
\* twice could have been converted at once, among types that are no pointers or
\* references (st_can_coerce).
THEOREM CoercionsStayTransitive == TypesSpec => [](Shallow => CoercionTransitive)
<1>1. TypesInit => Measured(types.table)
  <2>1. TypesInit => types.table = BasicTypes
    BY DEF TypesInit
  <2>2. Measured(BasicTypes)
    BY TypeTableAssumption DEF BasicTypes, Measured, Numeric, Kind, IntType, FloatType, Void, Bool, Pointer
  <2> QED BY <2>1, <2>2
<1>2. TypesInv /\ Measured(types.table) /\ [TypesNext]_types => Measured(types.table)'
  <2>1. Measured(types.table) /\ UNCHANGED types => Measured(types.table)'
    BY DEF Measured, Numeric, Kind
  <2> QED BY <2>1, MeasuredStep
<1>3. TypesInv /\ Measured(types.table) => (Shallow => CoercionTransitive)
  BY CoercionsCompose DEF TypesInv
<1> QED BY <1>1, <1>2, <1>3, TypesStaySound, PTL DEF TypesSpec
=============================================================================
