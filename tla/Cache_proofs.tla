---------------------------- MODULE Cache_proofs -----------------------------
(***************************************************************************)
(* Proofs about module Cache, for any size of a line, any memory map and   *)
(* any ranges.                                                             *)
(*                                                                         *)
(* The latest value of a byte that the processor owns is in memory unless  *)
(* its line is dirty, and in the cache if its line is there.  That an      *)
(* invalidation keeps it so for the neighbours of a buffer is arithmetic   *)
(* on ranges: a line that is dropped without being cleaned lies inside.    *)
(***************************************************************************)
EXTENDS Cache, Integers, TLAPS

Pairs == (0 .. Top) \X (0 .. Top)

\* Bytes whose latest value the processor may count on.
Own == Bytes \ (leased \cup spoiled)

InStep ==
    /\ cached \subseteq Lines /\ dirty \subseteq cached /\ (~de => cached = {})
    /\ \A b \in Own : /\ AlignDown(b) \in cached => b \in good
                      /\ AlignDown(b) \notin dirty => b \in fresh
    /\ \A b \in leased \ spoiled : b \in fresh /\ AlignDown(b) \notin dirty
    /\ leased \subseteq Bytes /\ source \subseteq Own \cap fresh

\* Nobody has a buffer before the code is loaded.
Unlent == pc \in {"reset", "load", "loaded"} => leased = {} /\ spoiled = {} /\ source = {}

Asleep == ~de /\ fresh = Bytes /\ cached \subseteq Lines /\ dirty \subseteq cached

Inv ==
    /\ Unlent
    /\ IF pc = "reset" THEN Asleep ELSE InStep
-----------------------------------------------------------------------------
(* Lines and ranges                                                        *)

LEMMA AlignDownIs ==
    ASSUME ConstantsOK, NEW a \in Nat
    PROVE  /\ AlignDown(a) \in Nat /\ AlignDown(a) <= a /\ a < AlignDown(a) + Line
           /\ \E k \in Nat : AlignDown(a) = k * Line
<1> DEFINE q == a \div Line
           r == a % Line
<1>1. Line \in Nat \ {0}
  BY DEF ConstantsOK
<1>2. q \in Nat /\ r \in 0 .. Line - 1 /\ a = Line * q + r
  BY <1>1
<1>3. AlignDown(a) = a - r
  BY DEF AlignDown
<1> HIDE DEF q, r
<1>4. q * Line = Line * q /\ q * Line \in Nat
  BY <1>1, <1>2
<1>5. AlignDown(a) = q * Line
  BY <1>2, <1>3, <1>4
<1> QED  BY <1>1, <1>2, <1>3, <1>4, <1>5

\* Multiples that differ do so by a line at least.
LEMMA MultiplesApart ==
    ASSUME ConstantsOK, NEW j \in Nat, NEW k \in Nat, j * Line < k * Line
    PROVE  j * Line + Line <= k * Line
<1>1. Line \in Nat \ {0}
  BY DEF ConstantsOK
<1>2. j < k
  <2> SUFFICES ASSUME k <= j PROVE FALSE
    OBVIOUS
  <2> QED  BY <1>1
<1>3. (j + 1) * Line <= k * Line
  BY <1>1, <1>2
<1> QED  BY <1>1, <1>3

LEMMA AlignedIsMultiple ==
    ASSUME ConstantsOK, NEW a \in Nat, a % Line = 0
    PROVE  \E k \in Nat : a = k * Line
<1>1. Line \in Nat \ {0}
  BY DEF ConstantsOK
<1>2. AlignDown(a) = a
  BY <1>1 DEF AlignDown
<1> QED  BY <1>2, AlignDownIs

LEMMA MapIs ==
    ASSUME ConstantsOK
    PROVE  /\ Line \in Nat \ {0} /\ Top \in Nat /\ IntMax \in Nat /\ IntMax >= Line
           /\ \A a \in {RamStart, RamEnd, XipStart, XipEnd} :
                a \in 0 .. Top /\ \E k \in Nat : a = k * Line
           /\ RamEnd + Line - 1 <= Top
           /\ Bytes \subseteq Nat /\ Lines \subseteq Nat
<1>1. Line \in Nat \ {0} /\ Top \in Nat /\ IntMax \in Nat /\ IntMax >= Line
        /\ RamEnd + Line - 1 <= Top
  BY DEF ConstantsOK
<1>2. ASSUME NEW a \in {RamStart, RamEnd, XipStart, XipEnd}
      PROVE  a \in 0 .. Top /\ \E k \in Nat : a = k * Line
  <2>1. a \in 0 .. Top /\ a % Line = 0
    BY DEF ConstantsOK
  <2>2. a \in Nat
    BY <1>1, <2>1
  <2> QED  BY <2>1, <2>2, AlignedIsMultiple
<1>3. Bytes \subseteq Nat
  BY <1>1, <1>2 DEF Bytes, Ram
<1>4. Lines \subseteq Nat
  BY <1>3, AlignDownIs DEF Lines, LineOf
<1> QED  BY <1>1, <1>2, <1>3, <1>4

\* A line is a multiple, and lies where its bytes do.
LEMMA LineIs ==
    ASSUME ConstantsOK, NEW b \in Bytes
    PROVE  /\ b \in Nat /\ AlignDown(b) \in Lines
           /\ AlignDown(b) \in Nat /\ AlignDown(b) <= b /\ b < AlignDown(b) + Line
           /\ \E k \in Nat : AlignDown(b) = k * Line
BY MapIs, AlignDownIs DEF Lines, LineOf

\* The range ends in the line below AlignUp, without wrapping.
LEMMA AlignUpIs ==
    ASSUME ConstantsOK, NEW e \in Nat, e + Line - 1 <= Top
    PROVE  /\ AlignUp(e) \in Nat /\ e <= AlignUp(e) /\ AlignUp(e) < e + Line
           /\ \E k \in Nat : AlignUp(e) = k * Line
<1>1. Line \in Nat \ {0} /\ Top \in Nat
  BY MapIs
<1> DEFINE a == e + Line - 1
<1>2. a \in Nat /\ a = e + Line - 1 /\ a % (Top + 1) = a
  BY <1>1
<1>3. AlignUp(e) = AlignDown(a)
  BY <1>2 DEF AlignUp
<1> HIDE DEF a
<1>4. /\ AlignDown(a) \in Nat /\ AlignDown(a) <= a /\ a < AlignDown(a) + Line
      /\ \E k \in Nat : AlignDown(a) = k * Line
  BY <1>2, AlignDownIs
<1> QED  BY <1>1, <1>2, <1>3, <1>4

\* The chunks of a range are the lines from its start to its end.
LEMMA ChunksAreRange ==
    ASSUME ConstantsOK, NEW s \in Nat, NEW e \in 0 .. Top, s <= Top
    PROVE  RangeLines(s, e) = {l \in Lines : s <= l /\ l < e}
<1>1. ChunkMax \in Nat \ {0} /\ ChunkMax <= IntMax
  <2>1. PICK k \in Nat : ChunkMax = k * Line
    BY MapIs, AlignDownIs DEF ChunkMax
  <2>2. ChunkMax \in Nat /\ ChunkMax <= IntMax /\ IntMax < ChunkMax + Line
    BY MapIs, AlignDownIs DEF ChunkMax
  <2>3. ChunkMax # 0
    BY <2>2, MapIs
  <2> QED  BY <2>2, <2>3
<1>2. ASSUME NEW c \in Nat, c < e
      PROVE  L1c(c, Chunk(e - c)) = {l \in Lines : c <= l /\ l < c + Chunk(e - c)}
  BY <1>1, <1>2, MapIs DEF L1c, Chunk
<1>3. ASSUME NEW k \in 0 .. Top \div ChunkMax
      PROVE  k * ChunkMax \in Nat
  BY <1>1, <1>3, MapIs
<1>4. ASSUME NEW l \in Lines, s <= l, l < e PROVE l \in RangeLines(s, e)
  <2> DEFINE k == (l - s) \div ChunkMax
             c == s + k * ChunkMax
  <2>1. l \in Nat /\ l - s \in Nat /\ l - s <= Top
    BY <1>4, MapIs
  <2>2. k \in Nat /\ k * ChunkMax \in Nat /\ k * ChunkMax <= l - s /\ l - s < k * ChunkMax + ChunkMax
    <3> DEFINE r == (l - s) % ChunkMax
    <3>1. r \in 0 .. ChunkMax - 1 /\ l - s = ChunkMax * k + r /\ k \in Nat
      BY <1>1, <2>1
    <3> HIDE DEF k, r
    <3>2. k * ChunkMax = ChunkMax * k /\ k * ChunkMax \in Nat
      BY <1>1, <3>1
    <3> QED  BY <1>1, <2>1, <3>1, <3>2
  <2>3. k \in 0 .. Top \div ChunkMax
    <3> DEFINE m == Top \div ChunkMax
    <3>1. m \in Nat /\ Top < ChunkMax * m + ChunkMax
      BY <1>1, MapIs
    <3> HIDE DEF k, m
    <3>2. ASSUME k >= m + 1 PROVE FALSE
      <4>1. k * ChunkMax >= (m + 1) * ChunkMax
        BY <1>1, <2>2, <3>1, <3>2
      <4>2. (m + 1) * ChunkMax = ChunkMax * m + ChunkMax
        BY <1>1, <3>1
      <4>3. (m + 1) * ChunkMax \in Nat
        BY <1>1, <3>1
      <4> QED  BY <2>1, <2>2, <3>1, <4>1, <4>2, <4>3, MapIs
    <3> QED  BY <2>2, <3>1, <3>2 DEF m
  <2> HIDE DEF k
  <2>4. c \in Nat /\ c <= l /\ c < e /\ l < c + ChunkMax
    BY <1>1, <1>4, <2>1, <2>2, MapIs
  <2>5. l < c + Chunk(e - c)
    BY <1>1, <1>4, <2>1, <2>4 DEF Chunk
  <2>6. c \in {x \in {s + i * ChunkMax : i \in 0 .. Top \div ChunkMax} : x < e}
    BY <2>3, <2>4
  <2>7. l \in L1c(c, Chunk(e - c))
    BY <1>2, <2>4, <2>5
  <2> QED  BY <2>6, <2>7 DEF RangeLines
<1>5. ASSUME NEW l \in RangeLines(s, e) PROVE l \in Lines /\ s <= l /\ l < e
  <2>1. PICK k \in 0 .. Top \div ChunkMax :
          s + k * ChunkMax < e /\ l \in L1c(s + k * ChunkMax, Chunk(e - (s + k * ChunkMax)))
    BY DEF RangeLines
  <2>2. k * ChunkMax \in Nat
    BY <1>3
  <2> DEFINE c == s + k * ChunkMax
  <2>3. c \in Nat /\ s <= c
    BY <2>2
  <2> HIDE DEF c
  <2>4. l \in Lines /\ c <= l /\ l < c + Chunk(e - c)
    BY <1>2, <2>1, <2>3 DEF c
  <2>5. Chunk(e - c) \in Int /\ Chunk(e - c) <= e - c
    BY <1>1, <2>3, MapIs DEF Chunk
  <2> QED  BY <2>1, <2>3, <2>4, <2>5, MapIs DEF c
<1> QED  BY <1>4, <1>5

\* The lines that an operation on an accepted range reaches.
LEMMA RangeIs ==
    ASSUME ConstantsOK, NEW r \in Pairs, NEW icache, Prepared(r, icache)
    PROVE  /\ r[1] \in Nat /\ r[2] \in Nat /\ r[1] < r[2] /\ r[2] + Line - 1 <= Top
           /\ RangeOf(r, icache) = {l \in Lines : AlignDown(r[1]) <= l /\ l < AlignUp(r[2])}
<1>1. Line \in Nat \ {0} /\ Top \in Nat
  BY MapIs
<1>2. r[1] \in 0 .. Top /\ r[2] \in 0 .. Top /\ r[1] < r[2] /\ r[2] <= Top - (Line - 1)
  BY <1>1 DEF Prepared, Pairs
<1>3. r[1] \in Nat /\ r[2] \in Nat /\ r[2] + Line - 1 <= Top
  BY <1>1, <1>2
<1>4. AlignDown(r[1]) \in Nat /\ AlignDown(r[1]) <= r[1]
  BY <1>3, AlignDownIs
<1>5. AlignUp(r[2]) \in 0 .. Top
  BY <1>1, <1>3, AlignUpIs
<1>6. RangeOf(r, icache) = RangeLines(AlignDown(r[1]), AlignUp(r[2]))
  BY DEF RangeOf
<1>7. AlignDown(r[1]) <= Top
  BY <1>1, <1>2, <1>4
<1> QED  BY <1>2, <1>3, <1>4, <1>5, <1>6, <1>7, ChunksAreRange

\* A line of the range that is not partly others' lies inside.
LEMMA InsideRange ==
    ASSUME ConstantsOK, NEW r \in Pairs, NEW b \in Bytes,
           AlignDown(b) \in RangeOf(r, FALSE) \ Partial(r)
    PROVE  b \in BytesIn(r)
<1> DEFINE l == AlignDown(b)
           s == AlignDown(r[1])
           e == AlignUp(r[2])
<1>1. Prepared(r, FALSE)
  BY DEF RangeOf
<1>2. /\ r[1] \in Nat /\ r[2] \in Nat /\ r[2] + Line - 1 <= Top
      /\ s <= l /\ l < e
  BY <1>1, RangeIs
<1>3. Line \in Nat \ {0}
  BY MapIs
<1>4. b \in Nat /\ l \in Nat /\ l <= b /\ b < l + Line /\ \E k \in Nat : l = k * Line
  BY LineIs
<1>5. s \in Nat /\ s <= r[1] /\ r[1] < s + Line /\ \E k \in Nat : s = k * Line
  BY <1>2, AlignDownIs
<1>6. e \in Nat /\ r[2] <= e /\ e < r[2] + Line /\ \E k \in Nat : e = k * Line
  BY <1>2, AlignUpIs
<1>7. (l = s => s = r[1]) /\ (l = e - Line => e = r[2])
  BY DEF Partial
<1> HIDE DEF l, s, e
<1>8. l = s \/ s + Line <= l
  <2>1. PICK j \in Nat : l = j * Line
    BY <1>4
  <2>2. PICK k \in Nat : s = k * Line
    BY <1>5
  <2>3. l = s \/ s < l
    BY <1>2, <1>4, <1>5
  <2>4. ASSUME s < l PROVE s + Line <= l
    BY <2>1, <2>2, <2>4, MultiplesApart
  <2> QED  BY <2>3, <2>4
<1>9. l + Line <= e
  <2>1. PICK j \in Nat : l = j * Line
    BY <1>4
  <2>2. PICK k \in Nat : e = k * Line
    BY <1>6
  <2> QED  BY <1>2, <2>1, <2>2, MultiplesApart
<1>10. r[1] <= b
  BY <1>2, <1>3, <1>4, <1>5, <1>7, <1>8
<1>11. l + Line = e \/ l + Line + Line <= e
  <2>1. PICK j \in Nat : l = j * Line
    BY <1>4
  <2>2. PICK k \in Nat : e = k * Line
    BY <1>6
  <2>3. l + Line = (j + 1) * Line
    BY <1>3, <2>1
  <2>4. ASSUME l + Line < e PROVE l + Line + Line <= e
    BY <2>2, <2>3, <2>4, MultiplesApart
  <2>5. l + Line \in Nat /\ e \in Nat
    BY <1>3, <1>4, <1>6
  <2>6. l + Line = e \/ l + Line < e
    BY <1>9, <2>5
  <2> QED  BY <2>4, <2>6
<1>12. b < r[2]
  BY <1>2, <1>3, <1>4, <1>6, <1>7, <1>11
<1> QED  BY <1>10, <1>12 DEF BytesIn

LEMMA BufferIsPrepared ==
    ASSUME ConstantsOK, NEW r \in Pairs, IsBuffer(r), NEW icache
    PROVE  Prepared(r, icache)
<1>1. Line \in Nat \ {0} /\ Top \in Nat /\ RamStart \in Nat /\ RamEnd \in Nat
        /\ RamEnd + Line - 1 <= Top
        /\ (\E k \in Nat : RamStart = k * Line) /\ (\E k \in Nat : RamEnd = k * Line)
  BY MapIs
<1>2. r[1] \in Nat /\ r[2] \in Nat /\ RamStart <= r[1] /\ r[1] < r[2] /\ r[2] <= RamEnd
  BY <1>1 DEF IsBuffer, Pairs
<1> DEFINE s == AlignDown(r[1])
           e == AlignUp(r[2])
<1>3. s \in Nat /\ s <= r[1] /\ r[1] < s + Line /\ \E k \in Nat : s = k * Line
  BY <1>2, AlignDownIs
<1>4. r[2] + Line - 1 <= Top
  BY <1>1, <1>2
<1>5. e \in Nat /\ r[2] <= e /\ e < r[2] + Line /\ \E k \in Nat : e = k * Line
  BY <1>2, <1>4, AlignUpIs
<1> HIDE DEF s, e
<1>6. RamStart <= s
  <2>1. PICK j \in Nat : s = j * Line
    BY <1>3
  <2>2. PICK k \in Nat : RamStart = k * Line
    BY <1>1
  <2>3. ASSUME s < RamStart PROVE FALSE
    <3>1. s + Line <= RamStart
      BY <2>1, <2>2, <2>3, MultiplesApart
    <3> QED  BY <1>1, <1>2, <1>3, <3>1
  <2> QED  BY <1>1, <1>3, <2>3
<1>7. e <= RamEnd
  <2>1. PICK j \in Nat : e = j * Line
    BY <1>5
  <2>2. PICK k \in Nat : RamEnd = k * Line
    BY <1>1
  <2>3. ASSUME RamEnd < e PROVE FALSE
    <3>1. RamEnd + Line <= e
      BY <2>1, <2>2, <2>3, MultiplesApart
    <3> QED  BY <1>1, <1>2, <1>5, <3>1
  <2> QED  BY <1>1, <1>5, <2>3
<1>8. s < e
  BY <1>1, <1>2, <1>3, <1>5
<1>9. s < RamEnd
  BY <1>1, <1>3, <1>5, <1>7, <1>8
<1>10. RamContains(s, e)
  BY <1>6, <1>7, <1>8, <1>9 DEF RamContains, Contains
<1>11. InDomain(s, e, icache)
  BY <1>10 DEF InDomain, IcacheContains
<1>12. r[2] <= Top - (Line - 1)
  BY <1>1, <1>2, <1>4
<1> QED  BY <1>2, <1>11, <1>12 DEF Prepared, s, e

\* An operation on a buffer reaches all its bytes, in either cache.
LEMMA BufferIsCovered ==
    ASSUME ConstantsOK, NEW r \in Pairs, IsBuffer(r), NEW icache, NEW b \in BytesIn(r)
    PROVE  AlignDown(b) \in RangeOf(r, icache)
<1> DEFINE l == AlignDown(b)
           s == AlignDown(r[1])
           e == AlignUp(r[2])
<1>1. Prepared(r, icache)
  BY BufferIsPrepared
<1>2. /\ r[1] \in Nat /\ r[2] \in Nat /\ r[2] + Line - 1 <= Top
      /\ RangeOf(r, icache) = {x \in Lines : s <= x /\ x < e}
  BY <1>1, RangeIs
<1>3. Line \in Nat \ {0}
  BY MapIs
<1>4. b \in Bytes /\ r[1] <= b /\ b < r[2]
  BY DEF BytesIn
<1>5. b \in Nat /\ l \in Lines /\ l \in Nat /\ l <= b /\ b < l + Line /\ \E k \in Nat : l = k * Line
  BY <1>4, LineIs
<1>6. s \in Nat /\ s <= r[1] /\ \E k \in Nat : s = k * Line
  BY <1>2, AlignDownIs
<1>7. e \in Nat /\ r[2] <= e
  BY <1>2, AlignUpIs
<1> HIDE DEF l, s, e
<1>8. s <= l
  <2>1. PICK j \in Nat : l = j * Line
    BY <1>5
  <2>2. PICK k \in Nat : s = k * Line
    BY <1>6
  <2>3. ASSUME l < s PROVE FALSE
    <3>1. l + Line <= s
      BY <2>1, <2>2, <2>3, MultiplesApart
    <3> QED  BY <1>2, <1>3, <1>4, <1>5, <1>6, <3>1
  <2> QED  BY <1>5, <1>6, <2>3
<1>9. l < e
  BY <1>2, <1>4, <1>5, <1>7
<1> QED  BY <1>2, <1>5, <1>8, <1>9 DEF l

\* What reaches out of the memory is refused.
LEMMA OthersAreRefused ==
    ASSUME ConstantsOK, NEW r \in Pairs, ~IsBuffer(r)
    PROVE  RangeOf(r, FALSE) = {}
<1> SUFFICES ASSUME Prepared(r, FALSE) PROVE FALSE
  BY DEF RangeOf
<1>1. r[1] \in Nat /\ r[2] \in Nat /\ r[1] < r[2] /\ r[2] + Line - 1 <= Top
  BY RangeIs
<1>2. RamStart \in Nat /\ RamEnd \in Nat
  BY MapIs
<1>3. RamContains(AlignDown(r[1]), AlignUp(r[2]))
  BY DEF Prepared, InDomain
<1>4. AlignDown(r[1]) \in Nat /\ AlignDown(r[1]) <= r[1]
  BY <1>1, AlignDownIs
<1>5. AlignUp(r[2]) \in Nat /\ r[2] <= AlignUp(r[2])
  BY <1>1, AlignUpIs
<1> QED  BY <1>1, <1>2, <1>3, <1>4, <1>5 DEF RamContains, Contains, IsBuffer
-----------------------------------------------------------------------------
(* What operations and stores do to the copies                             *)

memVars == <<de, fresh, cached, dirty, good, leased, spoiled, source>>

LEMMA NothingMoves == InStep /\ UNCHANGED memVars => InStep'
BY DEF InStep, memVars, Own

\* The bytes of S whose line is dropped without being cleaned are in memory.
Spared(S, cleaned, dropped) ==
    /\ S \subseteq Bytes
    /\ \A b \in S : b \in Own \/ (b \in leased \ spoiled /\ AlignDown(b) \in dropped)
    /\ \A b \in S : AlignDown(b) \in dropped \ cleaned => AlignDown(b) \notin dirty

\* Lines are cleaned and dropped; behind it the bytes that were spared are in step.
LEMMA OperateKeeps ==
    ASSUME InStep, NEW cleaned, NEW dropped, Operate(cleaned, dropped),
           NEW S, Spared(S, cleaned, dropped)
    PROVE  /\ cached' = cached \ dropped /\ dirty' = dirty \ (cleaned \cup dropped)
           /\ \A b \in S : /\ AlignDown(b) \in cached' => b \in good'
                           /\ AlignDown(b) \notin dirty' => b \in fresh'
           /\ \A b \in Own \cap fresh : b \in fresh'
           /\ \A b \in leased \ spoiled : b \in fresh' /\ AlignDown(b) \notin dirty'
<1> DEFINE out == BytesOf(cleaned \cap dirty)
<1>1. /\ cached' = cached \ dropped /\ dirty' = dirty \ (cleaned \cup dropped)
      /\ fresh' = (fresh \ out) \cup (good \cap out) /\ good' = good \ BytesOf(dropped)
  BY DEF Operate, DropSet
<1>2. \A b \in Bytes : /\ b \in out <=> AlignDown(b) \in cleaned \cap dirty
                       /\ b \in BytesOf(dropped) <=> AlignDown(b) \in dropped
  BY DEF BytesOf
<1> HIDE DEF out
<1>3. ASSUME NEW b \in Own PROVE b \in Bytes /\ (AlignDown(b) \in dirty => b \in good)
  BY DEF InStep, Own
<1>4. ASSUME NEW b \in Own, b \in fresh PROVE b \in fresh'
  BY <1>1, <1>2, <1>3, <1>4
<1>5. ASSUME NEW b \in leased \ spoiled PROVE b \in fresh' /\ AlignDown(b) \notin dirty'
  BY <1>1, <1>2 DEF InStep
<1>6. ASSUME NEW b \in S, AlignDown(b) \in cached' PROVE b \in good'
  BY <1>1, <1>2, <1>6 DEF InStep, Spared
<1>7. ASSUME NEW b \in S, AlignDown(b) \notin dirty' PROVE b \in fresh'
  <2>1. CASE b \in leased \ spoiled
    BY <1>5, <2>1
  <2>2. CASE b \in Own /\ AlignDown(b) \notin dirty
    BY <1>4, <2>2 DEF InStep
  <2>3. CASE b \in Own /\ AlignDown(b) \in dirty
    <3>1. AlignDown(b) \in cleaned
      BY <1>1, <1>7, <2>3 DEF Spared
    <3> QED  BY <1>1, <1>2, <1>3, <2>3, <3>1
  <2> QED  BY <2>1, <2>2, <2>3 DEF Spared
<1> QED  BY <1>1, <1>4, <1>5, <1>6, <1>7

\* An operation with the same owners before and behind it.
LEMMA OperationKeeps ==
    ASSUME InStep, NEW cleaned, NEW dropped, Operate(cleaned, dropped),
           UNCHANGED <<de, leased, spoiled, source>>,
           \A b \in Own : AlignDown(b) \in dropped \ cleaned => AlignDown(b) \notin dirty
    PROVE  InStep'
<1>1. Own \subseteq Bytes /\ Own' = Own
  BY DEF Own
<1>2. Spared(Own, cleaned, dropped)
  BY <1>1 DEF Spared
<1>3. /\ cached' = cached \ dropped /\ dirty' = dirty \ (cleaned \cup dropped)
      /\ \A b \in Own : /\ AlignDown(b) \in cached' => b \in good'
                        /\ AlignDown(b) \notin dirty' => b \in fresh'
      /\ \A b \in Own \cap fresh : b \in fresh'
      /\ \A b \in leased \ spoiled : b \in fresh' /\ AlignDown(b) \notin dirty'
  BY <1>2, OperateKeeps
<1>4. cached' \subseteq Lines /\ dirty' \subseteq cached' /\ (~de' => cached' = {})
  BY <1>3 DEF InStep
<1>5. source' \subseteq Own' \cap fresh' /\ leased' \subseteq Bytes
  BY <1>1, <1>3 DEF InStep
<1>6. leased' = leased /\ spoiled' = spoiled
  OBVIOUS
<1> QED  BY <1>1, <1>3, <1>4, <1>5, <1>6 DEF InStep

LEMMA StoreKeeps ==
    ASSUME ConstantsOK, InStep, NEW S \in SUBSET Bytes, Store(S)
    PROVE  /\ de' = de /\ cached' \subseteq Lines /\ dirty' \subseteq cached' /\ (~de => cached' = {})
           /\ \A b \in Own \cup S : /\ AlignDown(b) \in cached' => b \in good'
                                    /\ AlignDown(b) \notin dirty' => b \in fresh'
           /\ \A b \in (leased \ spoiled) \ BytesOf(LineOf(S)) :
                b \in fresh' /\ AlignDown(b) \notin dirty'
           /\ fresh \ S \subseteq fresh'
<1>1. \A b \in S : AlignDown(b) \in LineOf(S)
  BY DEF LineOf
<1>2. \A b \in Bytes : b \in BytesOf(LineOf(S)) <=> AlignDown(b) \in LineOf(S)
  BY DEF BytesOf
<1>3. LineOf(S) \subseteq Lines
  BY DEF Lines, LineOf
<1>4. \A b \in Bytes : b \in BytesOf(LineOf(S) \ cached)
                         <=> AlignDown(b) \in LineOf(S) /\ AlignDown(b) \notin cached
  BY DEF BytesOf
<1>5. CASE de
  <2>1. /\ de' = de /\ cached' = cached \cup LineOf(S) /\ dirty' = dirty \cup LineOf(S)
        /\ good' = good \cup S \cup (fresh \cap BytesOf(LineOf(S) \ cached))
        /\ fresh' = fresh \ S
    BY <1>5 DEF Store
  <2>2. ASSUME NEW b \in Own \cup S
        PROVE  /\ AlignDown(b) \in cached' => b \in good'
               /\ AlignDown(b) \notin dirty' => b \in fresh'
    BY <1>1, <1>4, <2>1 DEF InStep, Own
  <2>3. ASSUME NEW b \in (leased \ spoiled) \ BytesOf(LineOf(S))
        PROVE  b \in fresh' /\ AlignDown(b) \notin dirty'
    BY <1>1, <1>2, <2>1 DEF InStep
  <2> QED  BY <1>3, <1>5, <2>1, <2>2, <2>3 DEF InStep
<1>6. CASE ~de
  BY <1>6 DEF Store, InStep, Own
<1> QED  BY <1>5, <1>6
-----------------------------------------------------------------------------
(* The steps                                                               *)

LEMMA UsedIs == ConstantsOK => Used \subseteq Bytes /\ Ranges \subseteq Pairs
BY DEF ConstantsOK, Bytes, Pairs

LEMMA SleepersStart ==
    ASSUME ConstantsOK, Inv, pc = "reset", Transfers \/ Coding PROVE Inv'
<1>1. ASSUME EarlyInit PROVE Inv'
  <2>1. /\ cached' = cached \ Lines /\ dirty' = dirty \ Lines
        /\ de' /\ pc' = "load" /\ UNCHANGED <<leased, spoiled, source>>
    BY <1>1 DEF EarlyInit, Operate, DropSet, DropAtStart, userVars
  <2>2. fresh' = fresh
    BY <1>1 DEF EarlyInit, Operate, BytesOf
  <2>3. \A b \in Bytes : AlignDown(b) \in Lines
    BY DEF Lines, LineOf
  <2>4. Asleep /\ leased = {} /\ spoiled = {} /\ source = {}
    BY DEF Inv, Unlent
  <2>5. \A b \in Bytes : AlignDown(b) \notin cached'
    BY <2>1, <2>3
  <2>6. InStep'
    BY <2>1, <2>2, <2>4, <2>5 DEF InStep, Own, Asleep
  <2> QED  BY <2>1, <2>4, <2>6 DEF Inv, Unlent
<1>2. CASE Boot
  BY <1>1, <1>2 DEF Boot, AfterLoadClean, AfterLoadInvalidate, LoadByte
<1>3. CASE Hardware
  BY <1>3 DEF Hardware, Evict, Fill, Inv, Asleep
<1>4. CASE Call
  BY <1>4 DEF Call, Calm
<1>5. CASE \E b \in Used : Write(b) \/ DeviceWrites(b)
  BY <1>5 DEF Write, DeviceWrites, Inv, Unlent
<1>6. CASE \E r \in Ranges : Offer(r) \/ Lease(r) \/ Finish(r)
  BY <1>6 DEF Offer, Lease, Finish, Calm
<1>7. CASE \E l \in LineOf(Used) : FillCode(l)
  BY <1>7 DEF FillCode, userVars, Inv, Unlent, Asleep
<1>8. CASE (\E r \in Ranges : Refetch(r) \/ Coherent(r[1], r[2])) \/ CoherentEnds
  BY <1>8 DEF Refetch, Coherent, CoherentEnds, Calm
<1> QED  BY <1>2, <1>3, <1>4, <1>5, <1>6, <1>7, <1>8 DEF Transfers, Coding

LEMMA BootKeeps ==
    ASSUME ConstantsOK, Inv, pc # "reset", Boot PROVE Inv'
<1>1. InStep /\ pc' # "reset" /\ (pc' \in {"load", "loaded"} => pc \in {"load", "loaded"})
  BY DEF Inv, Boot, EarlyInit, AfterLoadClean, AfterLoadInvalidate, LoadByte
<1>2. UNCHANGED <<leased, spoiled, source>>
  BY DEF Boot, EarlyInit, AfterLoadClean, AfterLoadInvalidate, LoadByte, userVars
<1>3. CASE AfterLoadClean
  <2>1. Operate(Lines, {}) /\ UNCHANGED de
    BY <1>3 DEF AfterLoadClean
  <2>2. InStep'
    BY <1>1, <1>2, <2>1, OperationKeeps
  <2> QED  BY <1>1, <1>2, <2>2 DEF Inv, Unlent
<1>4. CASE AfterLoadInvalidate
  <2>1. InStep'
    BY <1>1, <1>2, <1>4, NothingMoves DEF AfterLoadInvalidate, memVars
  <2> QED  BY <1>1, <1>2, <2>1 DEF Inv, Unlent
<1>5. ASSUME NEW b \in Used, LoadByte(b) PROVE Inv'
  <2>1. Store({b}) /\ {b} \in SUBSET Bytes /\ leased = {} /\ spoiled = {} /\ source = {}
    BY <1>5, UsedIs DEF LoadByte, Inv, Unlent
  <2>2. /\ de' = de /\ cached' \subseteq Lines /\ dirty' \subseteq cached' /\ (~de => cached' = {})
        /\ \A x \in Own : /\ AlignDown(x) \in cached' => x \in good'
                          /\ AlignDown(x) \notin dirty' => x \in fresh'
    BY <1>1, <2>1, StoreKeeps
  <2>3. InStep'
    BY <1>2, <2>1, <2>2 DEF InStep, Own, AlignDown
  <2> QED  BY <1>1, <1>2, <2>3 DEF Inv, Unlent
<1>6. CASE EarlyInit
  BY <1>6 DEF EarlyInit
<1> QED  BY <1>3, <1>4, <1>5, <1>6 DEF Boot

\* What the caches do of themselves.
LEMMA HardwareKeeps ==
    ASSUME ConstantsOK, Inv, pc # "reset", Hardware PROVE Inv'
<1>1. InStep /\ UNCHANGED <<pc, userVars, de>>
  BY DEF Inv, Hardware, Evict, Fill
<1>2. UNCHANGED <<pc, leased, spoiled, source, de>>
  BY <1>1 DEF userVars
<1>3. ASSUME NEW l \in LineOf(Used), Evict(l) PROVE InStep'
  <2>1. Operate({l}, {l})
    BY <1>3 DEF Evict
  <2> QED  BY <1>1, <1>2, <2>1, OperationKeeps
<1>4. ASSUME NEW l \in LineOf(Used), Fill(l) PROVE InStep'
  <2>1. /\ l \notin cached /\ de /\ cached' = cached \cup {l} /\ UNCHANGED <<fresh, dirty>>
        /\ good' = good \cup (fresh \cap BytesOf({l}))
    BY <1>4 DEF Fill
  <2>2. l \in Lines
    BY UsedIs DEF LineOf, Lines
  <2>3. \A b \in Bytes : AlignDown(b) = l => b \in BytesOf({l})
    BY DEF BytesOf
  <2>4. ASSUME NEW b \in Own, AlignDown(b) \in cached' PROVE b \in good'
    BY <1>1, <2>1, <2>3, <2>4 DEF InStep, Own
  <2>5. Own' = Own
    BY <1>2 DEF Own
  <2> QED  BY <1>1, <1>2, <2>1, <2>2, <2>4, <2>5 DEF InStep
<1> QED  BY <1>2, <1>3, <1>4 DEF Inv, Unlent, Hardware

LEMMA CallKeeps ==
    ASSUME ConstantsOK, Inv, pc # "reset", Call PROVE Inv'
<1>1. InStep /\ UNCHANGED <<pc, leased, spoiled, source>>
  BY DEF Inv, Call, Calm, userVars
<1>2. ASSUME NEW cleaned, NEW dropped, Operate(cleaned, dropped), UNCHANGED de,
             dropped = {} \/ dropped = cleaned \/ dirty = {}
      PROVE  InStep'
  <2>1. \A b \in Own : AlignDown(b) \in dropped \ cleaned => AlignDown(b) \notin dirty
    BY <1>2
  <2> QED  BY <1>1, <1>2, <2>1, OperationKeeps
<1>3. ASSUME NEW r \in Ranges, CleanDcache(r) \/ FlushDcache(r) PROVE InStep'
  BY <1>2, <1>3 DEF CleanDcache, FlushDcache
<1>4. ASSUME NEW r \in Ranges, ~IsBuffer(r), InvalidateDcache(r) PROVE InStep'
  <2>1. RangeOf(r, FALSE) = {}
    BY <1>4, OthersAreRefused, UsedIs
  <2> QED  BY <1>2, <1>4, <2>1 DEF InvalidateDcache
<1>5. ASSUME CleanDcacheAll \/ FlushDcacheAll \/ (dirty = {} /\ InvalidateDcacheAll) PROVE InStep'
  BY <1>2, <1>5 DEF CleanDcacheAll, FlushDcacheAll, InvalidateDcacheAll
<1>6. ASSUME UNCHANGED <<de, fresh, cached, dirty, good>> PROVE InStep'
  BY <1>1, <1>6, NothingMoves DEF memVars
<1>7. ASSUME InvalidateIcacheAll \/ EnableIcache \/ DisableIcache PROVE InStep'
  BY <1>6, <1>7 DEF InvalidateIcacheAll, EnableIcache, DisableIcache
\* The cache is switched: it is empty before and behind.
<1>8. ASSUME Operate({}, Lines), de', ~de PROVE InStep'
  <2>1. cached' = {} /\ dirty' = {} /\ fresh' = fresh /\ Own' = Own
    BY <1>1, <1>8 DEF Operate, DropSet, InStep, BytesOf, Own
  <2> QED  BY <1>1, <1>8, <2>1 DEF InStep
<1>9. ASSUME Operate(Lines, Lines), ~de' PROVE InStep'
  <2>1. Own' = Own /\ Spared(Own, Lines, Lines)
    BY <1>1 DEF Own, Spared
  <2>2. /\ cached' = cached \ Lines /\ dirty' = dirty \ Lines
        /\ \A b \in Own : /\ AlignDown(b) \in cached' => b \in good'
                          /\ AlignDown(b) \notin dirty' => b \in fresh'
        /\ \A b \in Own \cap fresh : b \in fresh'
        /\ \A b \in leased \ spoiled : b \in fresh' /\ AlignDown(b) \notin dirty'
    BY <1>1, <1>9, <2>1, OperateKeeps
  <2>3. cached' = {} /\ dirty' = {}
    BY <1>1, <2>2 DEF InStep
  <2>4. leased' = leased /\ spoiled' = spoiled /\ leased \subseteq Bytes
          /\ source' \subseteq Own' \cap fresh'
    BY <1>1, <2>1, <2>2 DEF InStep
  <2> QED  BY <1>9, <2>1, <2>2, <2>3, <2>4 DEF InStep
<1>10. ASSUME EnableDcache \/ DisableDcache PROVE InStep'
  BY <1>6, <1>8, <1>9, <1>10 DEF EnableDcache, DisableDcache, OffFirst
<1>11. InStep'
  BY <1>3, <1>4, <1>5, <1>7, <1>10 DEF Call
<1> QED  BY <1>1, <1>11 DEF Inv, Unlent

LEMMA WriteKeeps ==
    ASSUME ConstantsOK, Inv, pc # "reset", NEW b \in Used, Write(b) PROVE Inv'
<1>1. InStep /\ b \in Bytes /\ {b} \in SUBSET Bytes
  BY UsedIs DEF Inv
<1>2. /\ pc \in {"idle", "coherent"} /\ b \notin leased \cup source /\ Store({b})
      /\ spoiled' = (spoiled \cup (leased \cap BytesOf(LineOf({b})))) \ {b}
      /\ UNCHANGED <<pc, leased, source>>
  BY DEF Write
<1>3. /\ de' = de /\ cached' \subseteq Lines /\ dirty' \subseteq cached' /\ (~de => cached' = {})
      /\ \A x \in Own \cup {b} : /\ AlignDown(x) \in cached' => x \in good'
                                 /\ AlignDown(x) \notin dirty' => x \in fresh'
      /\ \A x \in (leased \ spoiled) \ BytesOf(LineOf({b})) : x \in fresh' /\ AlignDown(x) \notin dirty'
      /\ fresh \ {b} \subseteq fresh'
  BY <1>1, <1>2, StoreKeeps
<1>4. Own' \subseteq Own \cup {b}
  BY <1>2 DEF Own
<1>5. leased' \ spoiled' \subseteq (leased \ spoiled) \ BytesOf(LineOf({b}))
  BY <1>2
<1>6. source' \subseteq Own' \cap fresh' /\ leased' \subseteq Bytes
  BY <1>1, <1>2, <1>3 DEF InStep, Own
<1>7. InStep'
  BY <1>3, <1>4, <1>5, <1>6 DEF InStep
<1> QED  BY <1>2, <1>7 DEF Inv, Unlent

LEMMA DeviceKeeps ==
    ASSUME ConstantsOK, Inv, pc # "reset", NEW b \in Used, DeviceWrites(b) PROVE Inv'
<1>1. InStep
  BY DEF Inv
<1>2. /\ b \in leased /\ fresh' = fresh \cup {b} /\ good' = good \ {b}
      /\ spoiled' = IF AlignDown(b) \in dirty THEN spoiled ELSE spoiled \ {b}
      /\ UNCHANGED <<pc, leased, source, de, cached, dirty>>
  BY DEF DeviceWrites, StoreMemory
<1>3. Own' = Own
  BY <1>2 DEF Own
<1>4. InStep'
  BY <1>1, <1>2, <1>3 DEF InStep, Own
<1> QED  BY <1>2, <1>4 DEF Inv, Unlent

\* An invalidation of a buffer spares what the processor has outside of it.
LEMMA NeighboursAreSpared ==
    ASSUME ConstantsOK, NEW r \in Pairs, NEW S, S \subseteq Bytes, S \cap BytesIn(r) = {},
           S \subseteq Own
    PROVE  Spared(S, RangeOf(r, FALSE) \cap Partial(r), RangeOf(r, FALSE))
<1>1. ASSUME NEW b \in S, AlignDown(b) \in RangeOf(r, FALSE) \ (RangeOf(r, FALSE) \cap Partial(r))
      PROVE  FALSE
  BY <1>1, InsideRange
<1> QED  BY <1>1 DEF Spared

LEMMA OfferKeeps ==
    ASSUME ConstantsOK, Inv, pc # "reset", NEW r \in Ranges, Offer(r) PROVE Inv'
<1>1. InStep /\ r \in Pairs
  BY UsedIs DEF Inv
<1>2. /\ IsBuffer(r) /\ BytesIn(r) \cap leased = {} /\ Operate(RangeOf(r, FALSE), {})
      /\ source' = BytesIn(r) \ spoiled /\ pc' = pc /\ pc = "idle"
      /\ UNCHANGED <<de, leased, spoiled>>
  BY DEF Offer, CleanDcache, Calm
<1>3. Own' = Own /\ Spared(Own, RangeOf(r, FALSE), {})
  BY <1>2 DEF Own, Spared
<1>4. /\ cached' = cached \ {} /\ dirty' = dirty \ (RangeOf(r, FALSE) \cup {})
      /\ \A b \in Own : /\ AlignDown(b) \in cached' => b \in good'
                        /\ AlignDown(b) \notin dirty' => b \in fresh'
      /\ \A b \in Own \cap fresh : b \in fresh'
      /\ \A b \in leased \ spoiled : b \in fresh' /\ AlignDown(b) \notin dirty'
  BY <1>1, <1>2, <1>3, OperateKeeps
<1>5. source' \subseteq Own' \cap fresh'
  <2>1. ASSUME NEW b \in source' PROVE b \in Own /\ b \in fresh'
    <3>1. b \in BytesIn(r) /\ b \in Own
      BY <1>2, <2>1 DEF Own, BytesIn
    <3>2. AlignDown(b) \in RangeOf(r, FALSE)
      BY <1>1, <1>2, <3>1, BufferIsCovered
    <3> QED  BY <1>4, <3>1, <3>2
  <2> QED  BY <1>3, <2>1
<1>6. cached' \subseteq Lines /\ dirty' \subseteq cached' /\ (~de' => cached' = {})
        /\ leased' \subseteq Bytes /\ leased' = leased /\ spoiled' = spoiled
  BY <1>1, <1>2, <1>4 DEF InStep
<1>7. InStep'
  BY <1>3, <1>4, <1>5, <1>6 DEF InStep
<1> QED  BY <1>2, <1>7 DEF Inv, Unlent

LEMMA LeaseKeeps ==
    ASSUME ConstantsOK, Inv, pc # "reset", NEW r \in Ranges, Lease(r) PROVE Inv'
<1> DEFINE cleaned == RangeOf(r, FALSE) \cap Partial(r)
           dropped == RangeOf(r, FALSE)
           S == Own \ BytesIn(r)
<1>1. InStep /\ r \in Pairs
  BY UsedIs DEF Inv
<1>2. /\ leased = {} /\ BytesIn(r) \cap source = {} /\ Operate(cleaned, dropped)
      /\ leased' = BytesIn(r) /\ spoiled' = spoiled \cup BytesIn(r)
      /\ UNCHANGED <<de, source, pc>> /\ pc = "idle"
  BY DEF Lease, InvalidateDcache, Calm
<1>3. BytesIn(r) \subseteq Bytes /\ Own' = S /\ leased' \ spoiled' = {}
  BY <1>2 DEF BytesIn, Own
<1>4. Spared(S, cleaned, dropped)
  BY <1>1, NeighboursAreSpared DEF Own
<1> HIDE DEF cleaned, dropped, S
<1>5. /\ cached' = cached \ dropped /\ dirty' = dirty \ (cleaned \cup dropped)
      /\ \A b \in S : /\ AlignDown(b) \in cached' => b \in good'
                      /\ AlignDown(b) \notin dirty' => b \in fresh'
      /\ \A b \in Own \cap fresh : b \in fresh'
  BY <1>1, <1>2, <1>4, OperateKeeps
<1>6. cached' \subseteq Lines /\ dirty' \subseteq cached' /\ (~de' => cached' = {})
        /\ leased' \subseteq Bytes
  BY <1>1, <1>2, <1>3, <1>5 DEF InStep
<1>7. source' \subseteq Own' \cap fresh'
  BY <1>1, <1>2, <1>3, <1>5 DEF InStep, S
<1>8. InStep'
  BY <1>3, <1>5, <1>6, <1>7 DEF InStep
<1> QED  BY <1>2, <1>8 DEF Inv, Unlent

LEMMA FinishKeeps ==
    ASSUME ConstantsOK, Inv, pc # "reset", NEW r \in Ranges, Finish(r) PROVE Inv'
<1> DEFINE cleaned == RangeOf(r, FALSE) \cap Partial(r)
           dropped == RangeOf(r, FALSE)
           S == Bytes \ spoiled
<1>1. InStep /\ r \in Pairs /\ leased \subseteq Bytes
  BY UsedIs DEF Inv, InStep
<1>2. /\ IsBuffer(r) /\ BytesIn(r) = leased /\ Operate(cleaned, dropped)
      /\ leased' = {} /\ source' = {} /\ UNCHANGED <<de, spoiled, pc>> /\ pc = "idle"
  BY DEF Finish, InvalidateDcache, Calm
<1>3. Own' = S
  BY <1>2 DEF Own
<1>4. Spared(S, cleaned, dropped)
  <2>1. ASSUME NEW b \in S, b \notin leased
        PROVE  b \in Own /\ AlignDown(b) \notin dropped \ cleaned
    BY <1>1, <1>2, <2>1, InsideRange DEF Own
  <2>2. ASSUME NEW b \in S, b \in leased
        PROVE  /\ b \in leased \ spoiled /\ AlignDown(b) \in dropped
               /\ AlignDown(b) \notin dirty
    BY <1>1, <1>2, <2>2, BufferIsCovered DEF InStep
  <2> HIDE DEF cleaned, dropped
  <2> QED  BY <2>1, <2>2 DEF Spared
<1> HIDE DEF cleaned, dropped, S
<1>5. /\ cached' = cached \ dropped /\ dirty' = dirty \ (cleaned \cup dropped)
      /\ \A b \in S : /\ AlignDown(b) \in cached' => b \in good'
                      /\ AlignDown(b) \notin dirty' => b \in fresh'
  BY <1>1, <1>2, <1>4, OperateKeeps
<1>6. cached' \subseteq Lines /\ dirty' \subseteq cached' /\ (~de' => cached' = {})
  BY <1>1, <1>2, <1>5 DEF InStep
<1>7. InStep'
  BY <1>2, <1>3, <1>5, <1>6 DEF InStep
<1> QED  BY <1>2, <1>7 DEF Inv, Unlent

LEMMA CodingKeeps ==
    ASSUME ConstantsOK, Inv, pc # "reset",
           \/ \E l \in LineOf(Used) : FillCode(l)
           \/ \E r \in Ranges : Refetch(r) \/ Coherent(r[1], r[2])
           \/ CoherentEnds
    PROVE  Inv'
<1>1. InStep /\ UNCHANGED <<leased, spoiled, source>> /\ pc' \in {pc, "coherent", "idle"}
  BY DEF Inv, FillCode, Refetch, Coherent, CoherentEnds, Calm, userVars
<1>2. CASE UNCHANGED memVars
  BY <1>1, <1>2, NothingMoves DEF Inv, Unlent
<1>3. ASSUME NEW r \in Ranges, Coherent(r[1], r[2]) PROVE Inv'
  <2>1. Operate(RangeOf(CoherentRange(r[1], r[2]), FALSE), {}) /\ UNCHANGED de
    BY <1>3 DEF Coherent, FirstClean, CleanDcache
  <2> DEFINE cleaned == RangeOf(CoherentRange(r[1], r[2]), FALSE)
  <2>2. UNCHANGED <<de, leased, spoiled, source>>
          /\ \A b \in Own : AlignDown(b) \in {} \ cleaned => AlignDown(b) \notin dirty
    BY <1>1, <2>1
  <2> HIDE DEF cleaned
  <2>3. InStep'
    BY <1>1, <2>1, <2>2, OperationKeeps DEF cleaned
  <2>4. pc' = "coherent"
    BY <1>3 DEF Coherent
  <2> QED  BY <2>3, <2>4 DEF Inv, Unlent
<1> QED  BY <1>1, <1>2, <1>3
      DEF FillCode, Refetch, InvalidateIcache, CoherentEnds, Calm, userVars, memVars

LEMMA InvNext == ConstantsOK /\ Inv /\ [Transfers \/ Coding]_allVars => Inv'
<1> SUFFICES ASSUME ConstantsOK, Inv, [Transfers \/ Coding]_allVars PROVE Inv'
  OBVIOUS
<1>1. CASE UNCHANGED allVars
  <2>1. UNCHANGED <<memVars, pc>>
    BY <1>1 DEF allVars, cacheVars, userVars, memVars
  <2> QED  BY <2>1, NothingMoves DEF Inv, Unlent, Asleep, memVars
<1>2. CASE pc = "reset" /\ (Transfers \/ Coding)
  BY <1>2, SleepersStart
<1>3. CASE pc # "reset" /\ Transfers
  BY <1>3, BootKeeps, HardwareKeeps, CallKeeps, WriteKeeps, DeviceKeeps, OfferKeeps, LeaseKeeps,
     FinishKeeps DEF Transfers
<1>4. CASE pc # "reset" /\ Coding
  BY <1>4, BootKeeps, HardwareKeeps, CallKeeps, WriteKeeps, CodingKeeps DEF Coding
<1> QED  BY <1>1, <1>2, <1>3, <1>4

LEMMA InvInit == ConstantsOK /\ Init => Inv
BY DEF Init, Inv, Unlent, Asleep

LEMMA InvHolds == ASSUME ConstantsOK PROVE CacheSpec => []Inv
<1>1. ConstantsOK
  OBVIOUS
<1>2. Init => Inv
  BY InvInit
<1>3. Inv /\ [Transfers \/ Coding]_allVars => Inv'
  BY InvNext
<1> QED  BY <1>2, <1>3, PTL DEF CacheSpec

\* The processor reads the latest value of every byte that is its own, for any
\* line, memory map and ranges: no clean, invalidation or flush of a range that
\* starts or ends inside of a line, is cut into chunks or is refused loses what
\* was written next to it, and behind a transfer the device's data are seen.
THEOREM ProcessorIsServed == ASSUME ConstantsOK PROVE CacheSpec => []ProcessorSees
<1>1. Inv => ProcessorSees
  <2> SUFFICES ASSUME Inv, pc # "reset", NEW b \in Bytes \ (leased \cup spoiled) PROVE Reads(b)
    BY DEF ProcessorSees
  <2> QED  BY DEF Inv, InStep, Own, Reads
<1> QED  BY <1>1, InvHolds, PTL

\* A device reads the latest value of every byte that it was given to read.
THEOREM DevicesAreServed == ASSUME ConstantsOK PROVE CacheSpec => []DevicesSee
<1>1. Inv => DevicesSee
  BY DEF Inv, Unlent, InStep, DevicesSee
<1> QED  BY <1>1, InvHolds, PTL
-----------------------------------------------------------------------------
(* Code                                                                    *)

\* Code that can be executed is in memory, and in the instruction cache if its
\* line is there; the first half of up_coherent_dcache has put it in memory.
Coded ==
    /\ leased = {} /\ spoiled = {} /\ source = {}
    /\ code \subseteq Bytes \cap fresh
    /\ \A b \in code : AlignDown(b) \in icached => b \in igood
    /\ pc \in {"reset", "load", "loaded"} => code = {}
    /\ pc = "loaded" => dirty = {}
    /\ pc = "coherent" => range \in Pairs /\ (IsBuffer(range) => BytesIn(range) \subseteq fresh)

LEMMA CodedInit == ConstantsOK /\ Init => Coded
BY DEF Init, Coded

\* What no store writes stays in memory.
LEMMA FreshStays ==
    ASSUME ConstantsOK, Inv, Coded, pc # "reset",
           \/ AfterLoadClean \/ AfterLoadInvalidate \/ Hardware \/ Call \/ CoherentEnds
           \/ \E l \in LineOf(Used) : FillCode(l)
           \/ \E r \in Ranges : Refetch(r) \/ Coherent(r[1], r[2])
    PROVE  fresh \cap Bytes \subseteq fresh' /\ dirty' \subseteq dirty
<1>1. InStep /\ Own = Bytes
  BY DEF Inv, Coded, Own
<1>2. ASSUME NEW cleaned, NEW dropped, Operate(cleaned, dropped)
      PROVE  fresh \cap Bytes \subseteq fresh' /\ dirty' \subseteq dirty
  <2> DEFINE out == BytesOf(cleaned \cap dirty)
  <2>1. fresh' = (fresh \ out) \cup (good \cap out) /\ dirty' = dirty \ (cleaned \cup dropped)
    BY <1>2 DEF Operate
  <2>2. \A b \in Bytes : b \in out => AlignDown(b) \in dirty
    BY DEF BytesOf
  <2> HIDE DEF out
  <2>3. \A b \in Bytes : AlignDown(b) \in dirty => b \in good
    BY <1>1 DEF InStep
  <2> QED  BY <2>1, <2>2, <2>3
<1>3. CASE UNCHANGED <<fresh, dirty>>
  BY <1>3
<1>4. CASE Call
  BY <1>2, <1>3, <1>4 DEF Call, CleanDcache, FlushDcache, InvalidateDcache, CleanDcacheAll,
     FlushDcacheAll, InvalidateDcacheAll, InvalidateIcacheAll, EnableDcache, DisableDcache,
     EnableIcache, DisableIcache
<1>5. CASE AfterLoadClean \/ AfterLoadInvalidate
  BY <1>2, <1>3, <1>5 DEF AfterLoadClean, AfterLoadInvalidate
<1>6. CASE Hardware
  BY <1>2, <1>3, <1>6 DEF Hardware, Evict, Fill
<1>7. CASE \E r \in Ranges : Coherent(r[1], r[2])
  BY <1>2, <1>7 DEF Coherent, FirstClean, CleanDcache
<1>8. CASE (\E l \in LineOf(Used) : FillCode(l)) \/ (\E r \in Ranges : Refetch(r)) \/ CoherentEnds
  BY <1>3, <1>8 DEF FillCode, Refetch, InvalidateIcache, CoherentEnds
<1> QED  BY <1>4, <1>5, <1>6, <1>7, <1>8

LEMMA CodedNext == ConstantsOK /\ Inv /\ Coded /\ [Coding]_allVars => Coded'
<1> SUFFICES ASSUME ConstantsOK, Inv, Coded, [Coding]_allVars PROVE Coded'
  OBVIOUS
<1> DEFINE Lent == UNCHANGED <<leased, spoiled, source>>
           InMemory(S) == S \subseteq Bytes /\ S \subseteq fresh
           Current(S) == \A b \in S : AlignDown(b) \in icached => b \in igood
\* The instruction cache drops the lines of L, or a line comes in.
<1>1. ASSUME NEW L, InvalidateSet(L)
      PROVE  \A b \in Bytes : (b \in code \/ AlignDown(b) \in L)
                                => (AlignDown(b) \in icached' => b \in igood')
  BY <1>1 DEF InvalidateSet, BytesOf, Coded
<1>2. ASSUME NEW l, FillCode(l)
      PROVE  \A b \in code : AlignDown(b) \in icached' => b \in igood'
  BY <1>2 DEF FillCode, BytesOf, Coded
<1>3. CASE UNCHANGED allVars
  BY <1>3 DEF allVars, cacheVars, userVars, Coded
<1>4. CASE pc = "reset" /\ Boot
  <2>1. code' = {} /\ Lent /\ pc' = "load"
    BY <1>4 DEF Boot, EarlyInit, AfterLoadClean, AfterLoadInvalidate, LoadByte, userVars, Coded
  <2> QED  BY <2>1 DEF Coded
<1>5. ASSUME pc # "reset", NEW b \in Used, LoadByte(b) PROVE Coded'
  BY <1>5 DEF LoadByte, userVars, Coded
<1>6. CASE pc # "reset" /\ AfterLoadClean
  <2>1. code' = {} /\ Lent /\ pc' = "loaded" /\ dirty' = dirty \ (Lines \cup {}) /\ dirty \subseteq Lines
    BY <1>6 DEF AfterLoadClean, Operate, userVars, Coded, Inv, InStep
  <2> QED  BY <2>1 DEF Coded
<1>7. CASE pc # "reset" /\ AfterLoadInvalidate
  <2>1. pc = "loaded" /\ dirty = {} /\ code' = Bytes /\ Lent /\ pc' = "idle" /\ fresh' = fresh
          /\ InvalidateSet(Lines)
    BY <1>7 DEF AfterLoadInvalidate, Coded
  <2>2. Bytes \subseteq fresh
    BY <1>7, <2>1 DEF Inv, InStep, Own, Coded
  <2>3. \A b \in Bytes : AlignDown(b) \in Lines
    BY DEF Lines, LineOf
  <2> QED  BY <1>1, <2>1, <2>2, <2>3 DEF Coded
<1>8. CASE Hardware
  <2>1. UNCHANGED <<pc, range, leased, spoiled, source, code, icached, igood>> /\ pc # "reset"
    BY <1>8 DEF Hardware, Evict, Fill, userVars, Inv, Asleep
  <2>2. fresh \cap Bytes \subseteq fresh' /\ dirty' \subseteq dirty
    BY <1>8, <2>1, FreshStays
  <2> QED  BY <2>1, <2>2 DEF Coded, BytesIn
<1>9. CASE Call
  <2>1. UNCHANGED <<pc, range, leased, spoiled, source, code>> /\ pc = "idle"
    BY <1>9 DEF Call, Calm, userVars
  <2>2. fresh \cap Bytes \subseteq fresh'
    BY <1>9, <2>1, FreshStays
  <2>3. (\E L : InvalidateSet(L)) \/ UNCHANGED <<icached, igood>>
    BY <1>9 DEF Call, CleanDcache, FlushDcache, InvalidateDcache, CleanDcacheAll, FlushDcacheAll,
       InvalidateDcacheAll, InvalidateIcacheAll, EnableDcache, DisableDcache, EnableIcache, DisableIcache
  <2>4. \A b \in code : AlignDown(b) \in icached' => b \in igood'
    BY <1>1, <2>3 DEF Coded
  <2> QED  BY <2>1, <2>2, <2>4 DEF Coded
<1>10. ASSUME NEW l \in LineOf(Used), FillCode(l) PROVE Coded'
  <2>1. UNCHANGED <<pc, range, fresh, dirty, leased, spoiled, source, code>>
    BY <1>10 DEF FillCode, userVars
  <2> QED  BY <1>2, <1>10, <2>1 DEF Coded, BytesIn
<1>11. ASSUME NEW b \in Used, Write(b) PROVE Coded'
  <2>1. /\ pc \in {"idle", "coherent"} /\ b \notin BytesIn(range) /\ Store({b})
        /\ code' = code \ {b} /\ UNCHANGED <<pc, range, leased, source>>
        /\ spoiled' = (spoiled \cup (leased \cap BytesOf(LineOf({b})))) \ {b}
    BY <1>11 DEF Write
  <2>2. fresh \ {b} \subseteq fresh' /\ igood' = igood \ {b} /\ icached' = icached
    BY <2>1 DEF Store
  <2> QED  BY <2>1, <2>2 DEF Coded, BytesIn
<1>12. ASSUME NEW r \in Ranges, Refetch(r) PROVE Coded'
  <2>1. /\ pc = "idle" /\ pc' = "idle" /\ InvalidateSet(RangeOf(r, TRUE)) /\ fresh' = fresh
        /\ code' = code \cup (IF IsBuffer(r) THEN (BytesIn(r) \cap fresh) \ leased ELSE {})
        /\ Lent
    BY <1>12 DEF Refetch, Calm, InvalidateIcache
  <2>2. \A b \in code' : b \in Bytes /\ (b \in code \/ AlignDown(b) \in RangeOf(r, TRUE))
    BY <2>1, BufferIsCovered, UsedIs DEF BytesIn, Coded
  <2> QED  BY <1>1, <2>1, <2>2 DEF Coded
<1>13. ASSUME NEW r \in Ranges, Coherent(r[1], r[2]) PROVE Coded'
  <2> DEFINE e == CoherentRange(r[1], r[2])
  <2>1. /\ pc = "idle" /\ pc' = "coherent" /\ range' = e /\ UNCHANGED <<icached, igood, code>> /\ Lent
        /\ Operate(RangeOf(e, FALSE), {})
    BY <1>13 DEF Coherent, FirstClean, CleanDcache, userVars
  <2>2. e \in Pairs
    <3>1. r[1] \in 0 .. Top /\ r[2] \in 0 .. Top /\ Top \in Nat
      BY UsedIs, MapIs DEF Pairs
    <3>2. e = <<0, 0>> \/ (r[1] + r[2] \in 0 .. Top /\ e = <<r[1], r[1] + r[2]>>)
      BY <3>1 DEF CoherentRange
    <3> QED  BY <3>1, <3>2 DEF Pairs
  <2>3. fresh \cap Bytes \subseteq fresh'
    BY <1>13, <2>1, FreshStays
  <2>4. InStep' /\ Own' = Bytes /\ dirty' = dirty \ (RangeOf(e, FALSE) \cup {})
    BY <1>13, <2>1, InvNext DEF Inv, Operate, Own, Coded, Coding
  <2> HIDE DEF e
  <2>5. ASSUME IsBuffer(e), NEW b \in BytesIn(e) PROVE b \in fresh'
    <3>1. b \in Bytes /\ AlignDown(b) \in RangeOf(e, FALSE)
      BY <2>2, <2>5, BufferIsCovered DEF BytesIn
    <3> QED  BY <2>4, <3>1 DEF InStep
  <2>6. IsBuffer(range') => BytesIn(range') \subseteq fresh'
    BY <2>1, <2>5
  <2> QED  BY <2>1, <2>2, <2>3, <2>6 DEF Coded, IsBuffer, BytesIn
<1>14. CASE CoherentEnds
  <2>1. /\ pc = "coherent" /\ pc' = "idle" /\ InvalidateSet(RangeOf(range, FALSE)) /\ fresh' = fresh
        /\ code' = code \cup (IF IsBuffer(range) THEN BytesIn(range) \ leased ELSE {}) /\ Lent
    BY <1>14 DEF CoherentEnds
  <2>2. range \in Pairs /\ (IsBuffer(range) => BytesIn(range) \subseteq fresh)
    BY <2>1 DEF Coded
  <2>3. \A b \in code' : b \in Bytes /\ (b \in code \/ AlignDown(b) \in RangeOf(range, FALSE))
    BY <2>1, <2>2, BufferIsCovered DEF BytesIn, Coded
  <2> QED  BY <1>1, <2>1, <2>2, <2>3 DEF Coded
<1>15. CASE Boot
  BY <1>4, <1>5, <1>6, <1>7, <1>15 DEF Boot, EarlyInit
<1> QED  BY <1>3, <1>8, <1>9, <1>10, <1>11, <1>12, <1>13, <1>14, <1>15 DEF Coding

\* Code is executed as it was written, when nobody lends buffers to devices
\* meanwhile: behind the copying at start, behind up_coherent_dcache on any range
\* of the memory, with writes and evictions between its two halves, and behind an
\* invalidation of the instruction cache of what is in memory.
THEOREM CodeIsExecuted == ASSUME ConstantsOK PROVE CodingSpec => []CodeIsCurrent
<1>1. Init => Inv /\ Coded
  BY InvInit, CodedInit
<1>2. Inv /\ Coded /\ [Coding]_allVars => (Inv /\ Coded)'
  BY InvNext, CodedNext
<1>3. Coded => CodeIsCurrent
  BY DEF Coded, CodeIsCurrent, Executes
<1> QED  BY <1>1, <1>2, <1>3, PTL DEF CodingSpec
-----------------------------------------------------------------------------
(* Types                                                                   *)

\* The variables that say what the caches hold.
Holds ==
    /\ fresh \subseteq Bytes /\ dirty \subseteq cached /\ cached \subseteq Lines
    /\ good \subseteq BytesOf(cached) /\ igood \subseteq BytesOf(icached)

copyVars == <<fresh, cached, dirty, good, icached, igood>>

LEMMA OperationHolds ==
    ASSUME Holds, NEW cleaned, NEW dropped, Operate(cleaned, dropped),
           UNCHANGED <<icached, igood>>
    PROVE  Holds'
<1>1. /\ fresh' \subseteq fresh \cup good
      /\ dirty' = dirty \ (cleaned \cup dropped) /\ cached' = cached \ dropped
      /\ good' = good \ BytesOf(dropped)
  BY DEF Operate, DropSet
<1> QED  BY <1>1 DEF Holds, BytesOf

LEMMA InvalidationHolds ==
    ASSUME Holds, NEW L, InvalidateSet(L), UNCHANGED <<fresh, cached, dirty, good>>
    PROVE  Holds'
BY DEF Holds, InvalidateSet, BytesOf

LEMMA StoreHolds ==
    ASSUME ConstantsOK, Holds, NEW b \in Used, Store({b})
    PROVE  Holds'
<1>1. b \in Bytes /\ LineOf({b}) = {AlignDown(b)} /\ AlignDown(b) \in Lines
  BY DEF ConstantsOK, Bytes, LineOf, Lines
<1>2. igood' \subseteq igood /\ icached' = icached
  BY DEF Store
<1>3. CASE de
  <2>1. /\ cached' = cached \cup {AlignDown(b)} /\ dirty' = dirty \cup {AlignDown(b)}
        /\ good' = good \cup {b} \cup (fresh \cap BytesOf({AlignDown(b)} \ cached))
        /\ fresh' = fresh \ {b}
    BY <1>1, <1>3 DEF Store
  <2> QED  BY <1>1, <1>2, <2>1 DEF Holds, BytesOf
<1>4. CASE ~de
  BY <1>1, <1>2, <1>4 DEF Store, Holds, BytesOf
<1> QED  BY <1>3, <1>4

LEMMA BootHolds == ConstantsOK /\ CacheTypeOK /\ Boot => CacheTypeOK'
<1> SUFFICES ASSUME ConstantsOK, CacheTypeOK, Boot PROVE CacheTypeOK'
  OBVIOUS
<1>0. Holds
  BY DEF CacheTypeOK, Holds
<1>1. CASE EarlyInit
  <2>1. Operate({}, Lines) /\ InvalidateSet(Lines) /\ pc' = "load" /\ de' = TRUE /\ en' = TRUE
    BY <1>1 DEF EarlyInit, DropAtStart
  <2>2. /\ fresh' \subseteq fresh \cup good /\ dirty' = dirty \ ({} \cup Lines)
        /\ cached' = cached \ Lines /\ good' = good \ BytesOf(Lines)
        /\ icached' = icached \ Lines /\ igood' = igood \ BytesOf(Lines)
    BY <2>1 DEF Operate, DropSet, InvalidateSet
  <2>3. Holds'
    BY <1>0, <2>2 DEF Holds, BytesOf
  <2> QED  BY <2>1, <2>3 DEF CacheTypeOK, Holds
<1>2. CASE AfterLoadClean
  <2>1. Operate(Lines, {}) /\ UNCHANGED <<de, en, icached, igood>> /\ pc' = "loaded"
    BY <1>2 DEF AfterLoadClean
  <2>2. Holds'
    BY <1>0, <2>1, OperationHolds
  <2> QED  BY <2>1, <2>2 DEF CacheTypeOK, Holds
<1>3. CASE AfterLoadInvalidate
  <2>1. InvalidateSet(Lines) /\ UNCHANGED <<de, en, fresh, cached, dirty, good>> /\ pc' = "idle"
    BY <1>3 DEF AfterLoadInvalidate
  <2>2. Holds'
    BY <1>0, <2>1, InvalidationHolds
  <2> QED  BY <2>1, <2>2 DEF CacheTypeOK, Holds
<1>4. ASSUME NEW b \in Used, LoadByte(b) PROVE CacheTypeOK'
  <2>1. Store({b}) /\ UNCHANGED <<de, en, pc>>
    BY <1>4 DEF LoadByte, Store
  <2>2. Holds'
    BY <1>0, <2>1, StoreHolds
  <2> QED  BY <2>1, <2>2 DEF CacheTypeOK, Holds
<1> QED  BY <1>1, <1>2, <1>3, <1>4 DEF Boot

LEMMA HardwareHolds == ConstantsOK /\ CacheTypeOK /\ Hardware => CacheTypeOK'
<1> SUFFICES ASSUME ConstantsOK, CacheTypeOK, NEW l \in LineOf(Used), Evict(l) \/ Fill(l)
             PROVE  CacheTypeOK'
  BY DEF Hardware
<1>0. Holds /\ l \in Lines
  BY DEF CacheTypeOK, Holds, ConstantsOK, Bytes, LineOf, Lines
<1>1. UNCHANGED <<de, en, pc>>
  BY DEF Evict, Fill
<1>2. ASSUME Evict(l) PROVE Holds'
  BY <1>0, <1>2, OperationHolds DEF Evict
<1>3. ASSUME Fill(l) PROVE Holds'
  BY <1>0, <1>3 DEF Fill, Holds, BytesOf
<1>4. Holds'
  BY <1>2, <1>3
<1> QED  BY <1>1, <1>4 DEF CacheTypeOK, Holds

\* Every call of the adapter is an operation on the one or the other cache.
LEMMA CallHolds == CacheTypeOK /\ Call => CacheTypeOK'
<1> SUFFICES ASSUME CacheTypeOK, Call PROVE CacheTypeOK'
  OBVIOUS
<1>0. Holds
  BY DEF CacheTypeOK, Holds
<1>1. de' \in BOOLEAN /\ en' \in BOOLEAN /\ pc' = pc
  BY DEF Call, Calm, CacheTypeOK, CleanDcache, FlushDcache, InvalidateDcache, CleanDcacheAll,
     FlushDcacheAll, InvalidateDcacheAll, InvalidateIcacheAll, EnableDcache, DisableDcache,
     EnableIcache, DisableIcache
<1>2. \/ \E cleaned, dropped : Operate(cleaned, dropped) /\ UNCHANGED <<icached, igood>>
      \/ \E L : InvalidateSet(L) /\ UNCHANGED <<fresh, cached, dirty, good>>
      \/ UNCHANGED copyVars
  BY DEF Call, CleanDcache, FlushDcache, InvalidateDcache, CleanDcacheAll,
     FlushDcacheAll, InvalidateDcacheAll, InvalidateIcacheAll, EnableDcache, DisableDcache,
     EnableIcache, DisableIcache, copyVars
<1>3. Holds'
  BY <1>0, <1>2, OperationHolds, InvalidationHolds DEF Holds, BytesOf, copyVars
<1> QED  BY <1>1, <1>3 DEF CacheTypeOK, Holds

LEMMA UsersHold ==
    ASSUME ConstantsOK, CacheTypeOK,
           \/ \E b \in Used : Write(b) \/ DeviceWrites(b)
           \/ \E r \in Ranges : Offer(r) \/ Lease(r) \/ Finish(r) \/ Refetch(r)
           \/ \E r \in Ranges : Coherent(r[1], r[2])
           \/ CoherentEnds
           \/ \E l \in LineOf(Used) : FillCode(l)
    PROVE  CacheTypeOK'
<1>0. Holds
  BY DEF CacheTypeOK, Holds
<1>1. UNCHANGED <<de, en>> /\ pc' \in {pc, "coherent", "idle"}
  BY DEF Write, Store, DeviceWrites, StoreMemory, Offer, Lease, Finish, Calm, CleanDcache,
     InvalidateDcache, Refetch, InvalidateIcache, Coherent, FirstClean, CoherentEnds, FillCode
<1>2. ASSUME NEW b \in Used, Write(b) PROVE Holds'
  BY <1>0, <1>2, StoreHolds DEF Write
<1>3. ASSUME NEW b \in Used, DeviceWrites(b) PROVE Holds'
  <2>1. b \in Bytes
    BY DEF ConstantsOK, Bytes
  <2> QED  BY <1>0, <1>3, <2>1 DEF DeviceWrites, StoreMemory, Holds, BytesOf
<1>4. ASSUME NEW r \in Ranges, Offer(r) \/ Lease(r) \/ Finish(r) PROVE Holds'
  BY <1>0, <1>4, OperationHolds DEF Offer, Lease, Finish, CleanDcache, InvalidateDcache
<1>5. ASSUME NEW r \in Ranges, Refetch(r) PROVE Holds'
  BY <1>0, <1>5, InvalidationHolds DEF Refetch, InvalidateIcache
<1>6. ASSUME NEW r \in Ranges, Coherent(r[1], r[2]) PROVE Holds'
  BY <1>0, <1>6, OperationHolds DEF Coherent, FirstClean, CleanDcache
<1>7. ASSUME CoherentEnds PROVE Holds'
  BY <1>0, <1>7, InvalidationHolds DEF CoherentEnds
<1>8. ASSUME NEW l \in LineOf(Used), FillCode(l) PROVE Holds'
  BY <1>0, <1>8 DEF FillCode, Holds, BytesOf
<1>9. Holds'
  BY <1>2, <1>3, <1>4, <1>5, <1>6, <1>7, <1>8
<1> QED  BY <1>1, <1>9 DEF CacheTypeOK, Holds

LEMMA CacheTypeStep == ConstantsOK /\ CacheTypeOK /\ [Transfers \/ Coding]_allVars => CacheTypeOK'
<1> SUFFICES ASSUME ConstantsOK, CacheTypeOK, [Transfers \/ Coding]_allVars PROVE CacheTypeOK'
  OBVIOUS
<1>1. CASE UNCHANGED allVars
  BY <1>1 DEF allVars, cacheVars, CacheTypeOK, BytesOf
<1>2. CASE Transfers
  BY <1>2, BootHolds, HardwareHolds, CallHolds, UsersHold DEF Transfers
<1>3. CASE Coding
  BY <1>3, BootHolds, HardwareHolds, CallHolds, UsersHold DEF Coding
<1> QED  BY <1>1, <1>2, <1>3

\* Every variable keeps its type: a good copy lies in a line that is there, and
\* what is dirty is cached, whatever is cleaned, dropped, filled and written.
\* Devices read the latest value of what they were given; and code is executed
\* as it was written as long as nobody lends buffers to devices meanwhile.
THEOREM OthersAreServed ==
    ASSUME ConstantsOK
    PROVE  /\ CacheSpec => [](CacheTypeOK /\ DevicesSee)
           /\ CodingSpec => []OthersSee
<1>1. Init => CacheTypeOK
  BY DEF Init, CacheTypeOK
<1>2. CacheTypeOK /\ [Transfers \/ Coding]_allVars => CacheTypeOK'
  BY CacheTypeStep
<1>3. CacheSpec => []CacheTypeOK
  BY <1>1, <1>2, PTL DEF CacheSpec
<1>4. [Coding]_allVars => [Transfers \/ Coding]_allVars
  OBVIOUS
<1>5. CodingSpec => CacheSpec
  BY <1>4, PTL DEF CodingSpec, CacheSpec
<1>6. CacheTypeOK /\ DevicesSee /\ CodeIsCurrent => OthersSee
  BY DEF OthersSee
<1> QED  BY <1>3, <1>5, <1>6, DevicesAreServed, CodeIsExecuted, PTL
=============================================================================
