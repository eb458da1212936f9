-------------------------- MODULE FifoAxis_proofs --------------------------
(***************************************************************************)
(* Proofs, for every capacity of the vendor FIFO, every set of words and   *)
(* one or two clocks, that fifo_axis_common.sv keeps its types, reads the  *)
(* vendor FIFO only when there is a word and room for it, and implements   *)
(* AxisStream.                                                             *)
(***************************************************************************)
EXTENDS FifoAxis, SequenceTheorems, TLAPS

(* What one edge does to a FIFO of four words such as the cache.           *)
Facts == INSTANCE MiniFwftFifo_proofs WITH
            Depth <- 4, fifo <- cache, write <- fifo_read_data_valid,
            read <- TRUE, data_in <- rd_data

-----------------------------------------------------------------------------
(* The cache is a FwftFifo of four words.                                  *)

LEMMA CacheIsFifo ==
    /\ Cache!FifoState = Facts!FifoState
    /\ \A m, d : Cache!FreshFifo(m, d) = Facts!FreshFifo(m, d)
    /\ \A f : /\ Cache!ResetFifo(f) = Facts!ResetFifo(f)
              /\ Cache!Contents(f) = Facts!Contents(f)
    /\ \A f, w, r, d : Cache!Clock(f, w, r, d) = Facts!Clock(f, w, r, d)
  BY DEF Cache!FifoState, Facts!FifoState, Cache!Flags, Facts!Flags,
         Cache!Slot, Facts!Slot,
         Cache!FreshFifo, Facts!FreshFifo, Cache!ResetFlags, Facts!ResetFlags,
         Cache!ResetFifo, Facts!ResetFifo, Cache!Contents, Facts!Contents,
         Cache!Held, Facts!Held, Cache!Forward, Facts!Forward,
         Cache!Clock, Facts!Clock, Cache!Clocked, Facts!Clocked,
         Cache!Reading, Facts!Reading, Cache!Writing, Facts!Writing,
         Cache!NextFlags, Facts!NextFlags, Cache!NextMem, Facts!NextMem,
         Cache!NextDataOut, Facts!NextDataOut, Cache!NextCount, Facts!NextCount,
         Cache!WriteInToOut, Facts!WriteInToOut, Cache!Back, Facts!Back

(* What the proofs use of the cache.                                       *)
Sound(f) == Facts!Sound(f)
Words(f) == Cache!Contents(f)

LEMMA CacheOutputs ==
    ASSUME NEW f, Sound(f)
    PROVE  /\ f \in Cache!FifoState
           /\ Words(f) \in Seq(Word) /\ Len(Words(f)) \in 0 .. 4
           /\ f.rd_data_count = Len(Words(f))
           /\ f.flags.full \in BOOLEAN /\ f.flags.almost_full \in BOOLEAN
           /\ f.flags.empty \in BOOLEAN
           /\ f.flags.full <=> Len(Words(f)) = 4
           /\ f.flags.almost_full <=> Len(Words(f)) >= 3
           /\ f.flags.empty <=> Words(f) = <<>>
           /\ Words(f) # <<>> => f.data_out = Head(Words(f))
<1> DEFINE c == Facts!Contents(f)
<1>1. f \in Facts!FifoState /\ Facts!Distance(f) /\ Facts!FlagsExact(f)
  BY DEF Sound, Facts!Sound
<1>2. c \in Seq(Word) /\ Len(c) = f.rd_data_count
  BY <1>1, Facts!ContentsSequence
<1>3. /\ f.rd_data_count = Len(c)
      /\ f.flags.full = (Len(c) = 4)
      /\ f.flags.almost_full = (Len(c) >= 4 - 1)
      /\ f.flags.empty = (c = <<>>)
      /\ c # <<>> => f.data_out = Head(c)
  BY <1>1, Facts!OutputsOfContents
<1>4. /\ f.rd_data_count \in 0 .. 4
      /\ f.flags.full \in BOOLEAN /\ f.flags.almost_full \in BOOLEAN
      /\ f.flags.empty \in BOOLEAN
  BY <1>1 DEF Facts!FifoState, Facts!Flags
<1>5. Words(f) = c /\ Cache!FifoState = Facts!FifoState
  BY CacheIsFifo DEF Words
<1> HIDE DEF c
<1>6. (Len(c) >= 4 - 1) = (Len(c) >= 3)
  BY <1>2, <1>4
<1> QED
  BY <1>1, <1>2, <1>3, <1>4, <1>5, <1>6

LEMMA CacheClock ==
    ASSUME NEW f, Sound(f), NEW write \in BOOLEAN, NEW read \in BOOLEAN,
           NEW d \in Word
    PROVE  /\ Sound(Cache!Clock(f, write, read, d))
           /\ Words(Cache!Clock(f, write, read, d)) =
                 (IF read /\ Words(f) # <<>> THEN Tail(Words(f)) ELSE Words(f))
                 \o (IF write /\ Len(Words(f)) < 4 THEN <<d>> ELSE <<>>)
<1>1. Cache!Clock(f, write, read, d) = Facts!Clock(f, write, read, d)
  BY CacheIsFifo
<1>2. \A g : Words(g) = Facts!Contents(g)
  BY CacheIsFifo DEF Words
<1> DEFINE g == Facts!Clock(f, write, read, d)
           c == Facts!Contents(f)
<1>3. /\ Facts!Sound(g)
      /\ Facts!Contents(g) =
            (IF read /\ c # <<>> THEN Tail(c) ELSE c)
            \o (IF write /\ Len(c) < 4 THEN <<d>> ELSE <<>>)
  <2>1. Facts!Sound(f)
    BY DEF Sound
  <2>2. 4 \in Nat /\ 4 >= 2
    OBVIOUS
  <2> QED
    BY <2>1, <2>2, Facts!ClockSound, Zenon
<1> HIDE DEF g, c
<1>4. Words(g) = Facts!Contents(g) /\ Words(f) = c
  BY <1>2 DEF c
<1> QED
  BY <1>1, <1>3, <1>4 DEF Sound, g

-----------------------------------------------------------------------------

(* The inductive invariant.                                                *)
IInv == TypeOK /\ StrobeSafe /\ Sound(cache)

LEMMA InitInvariant == Init => IInv
<1> SUFFICES ASSUME Init
             PROVE  IInv
  OBVIOUS
<1>1. PICK d \in Word : cache = Cache!FreshFifo([s \in Cache!Slot |-> d], d)
  BY DEF Init
<1>2. Cache!Slot = Facts!Slot
  BY DEF Cache!Slot, Facts!Slot
<1>3. Sound(cache)
  <2>1. [s \in Facts!Slot |-> d] \in [Facts!Slot -> Word]
    OBVIOUS
  <2> QED
    BY <1>1, <1>2, <2>1, CacheIsFifo, Facts!FreshSound DEF Sound
<1>4. cache \in Cache!FifoState
  BY <1>3, CacheOutputs
<1>5. store \in Seq(Word) /\ Len(store) = 0
  BY EmptySeq DEF Init
<1>6. TypeOK
  <2>1. Capacity - Len(store) \in Nat /\ 0 \in 0 .. Capacity - Len(store)
    BY <1>5, FifoAxisAssumption
  <2>2. 0 \in 0 .. Capacity + 4 /\ 0 \in 0 .. Len(store)
    BY <1>5, FifoAxisAssumption
  <2> QED
    BY <1>4, <1>5, <2>1, <2>2 DEF Init, TypeOK
<1>7. StrobeSafe
  BY DEF Init, StrobeSafe
<1> QED
  BY <1>3, <1>6, <1>7 DEF IInv

(* The facts of the invariant as they are used.                            *)
LEMMA InvariantFacts ==
    ASSUME IInv
    PROVE  /\ store \in Seq(Word) /\ Len(store) \in Nat
           /\ unseen \in Nat /\ unseen <= Len(store)
           /\ unreturned \in Nat /\ Len(store) + unreturned <= Capacity
           /\ rd_data \in Word
           /\ fifo_read \in BOOLEAN /\ fifo_read_data_valid \in BOOLEAN
           /\ Words(cache) \in Seq(Word) /\ Len(Words(cache)) \in 0 .. 4
           /\ cache.rd_data_count = Len(Words(cache))
           /\ cache.flags.full <=> Len(Words(cache)) = 4
           /\ cache.flags.almost_full <=> Len(Words(cache)) >= 3
           /\ fifo_read => Len(store) - unseen >= 1 /\ Len(Words(cache)) < 4
<1>1. TypeOK /\ StrobeSafe /\ Sound(cache)
  BY DEF IInv
<1>2. /\ Words(cache) \in Seq(Word) /\ Len(Words(cache)) \in 0 .. 4
      /\ cache.rd_data_count = Len(Words(cache))
      /\ cache.flags.full <=> Len(Words(cache)) = 4
      /\ cache.flags.almost_full <=> Len(Words(cache)) >= 3
  BY <1>1, CacheOutputs
<1>3. store \in Seq(Word) /\ Len(store) \in Nat
  BY <1>1, LenProperties DEF TypeOK
<1>4. /\ unseen \in Nat /\ unseen <= Len(store)
      /\ unreturned \in Nat /\ Len(store) + unreturned <= Capacity
  BY <1>1, <1>3, FifoAxisAssumption DEF TypeOK
<1>5. fifo_read => Len(store) - unseen # 0 /\ ~cache.flags.full
  BY <1>1 DEF StrobeSafe, empty, Visible
<1>6. ASSUME fifo_read
      PROVE  Len(store) - unseen >= 1 /\ Len(Words(cache)) < 4
  <2>1. Len(Words(cache)) < 4
    <3> DEFINE n == Len(Words(cache))
    <3>1. n # 4
      BY <1>2, <1>5, <1>6, Zenon
    <3>2. n \in 0 .. 4
      BY <1>2
    <3> HIDE DEF n
    <3>3. n < 4
      BY <3>1, <3>2
    <3> QED
      BY <3>3 DEF n
  <2>2. Len(store) - unseen >= 1
    <3>1. Len(store) - unseen # 0
      BY <1>5, <1>6, Zenon
    <3>2. Len(store) \in Nat /\ unseen \in Nat /\ unseen <= Len(store)
      BY <1>3, <1>4
    <3> QED
      BY <3>1, <3>2
  <2> QED
    BY <2>1, <2>2
<1>7. /\ rd_data \in Word
      /\ fifo_read \in BOOLEAN /\ fifo_read_data_valid \in BOOLEAN
  BY <1>1 DEF TypeOK
<1> QED
  BY <1>2, <1>3, <1>4, <1>6, <1>7, Zenon

(* A word enters a cache of three only if one leaves.                      *)
LEMMA CacheRoom ==
    ASSUME NEW n \in 0 .. 4, NEW k, NEW w \in {0, 1},
           k = n \/ k = n - 1, n >= 3 => k = n - 1, w = 1 => n < 4
    PROVE  k + w # 4
  OBVIOUS

(* An edge of the read side.                                               *)
LEMMA ReadSideStep ==
    ASSUME IInv, NEW tready \in BOOLEAN, ReadSide(tready)
    PROVE  /\ Sound(cache') /\ cache' \in Cache!FifoState
           /\ rd_data' \in Word /\ fifo_read_data_valid' \in BOOLEAN
           /\ fifo_read' \in BOOLEAN /\ axis_rd_data_count' \in 0 .. Capacity + 4
           /\ Fetching <=> fifo_read
           /\ Remaining \in Seq(Word)
           /\ Len(Remaining) = IF fifo_read THEN Len(store) - 1 ELSE Len(store)
           /\ fifo_read' => Len(Remaining) - unseen >= 1 /\ ~cache'.flags.full
<1> DEFINE n == Len(Words(cache))
           s == Len(store)
           m == Len(Words(cache'))
<1>1. /\ store \in Seq(Word) /\ s \in Nat
      /\ unseen \in Nat /\ unseen <= s
      /\ unreturned \in Nat /\ s + unreturned <= Capacity
      /\ rd_data \in Word
      /\ fifo_read \in BOOLEAN /\ fifo_read_data_valid \in BOOLEAN
      /\ Words(cache) \in Seq(Word) /\ n \in 0 .. 4
      /\ cache.rd_data_count = n
      /\ cache.flags.full <=> n = 4
      /\ cache.flags.almost_full <=> n >= 3
      /\ fifo_read => s - unseen >= 1 /\ n < 4
  BY InvariantFacts
<1>2. Sound(cache)
  BY DEF IInv
<1>3. /\ cache' = Cache!Clock(cache, fifo_read_data_valid, tready, rd_data)
      /\ rd_data' = IF Fetching THEN Head(store) ELSE rd_data
      /\ fifo_read_data_valid' =
            IF cache.flags.full THEN fifo_read_data_valid ELSE fifo_read
      /\ fifo_read' = ReadNext(tready)
      /\ axis_rd_data_count' = s - unseen + n
  BY <1>1 DEF ReadSide, Counted, Visible
<1> DEFINE kept == IF tready /\ Words(cache) # <<>>
                   THEN Tail(Words(cache)) ELSE Words(cache)
           new  == IF fifo_read_data_valid /\ n < 4 THEN <<rd_data>> ELSE <<>>
<1>4. Sound(cache') /\ Words(cache') = kept \o new
  BY <1>1, <1>2, <1>3, CacheClock
<1>5. /\ kept \in Seq(Word)
      /\ Len(kept) = IF tready /\ n > 0 THEN n - 1 ELSE n
  <2>1. CASE tready /\ Words(cache) # <<>>
    BY <1>1, <2>1, HeadTailProperties, EmptySeq
  <2>2. CASE ~(tready /\ Words(cache) # <<>>)
    BY <1>1, <2>2, EmptySeq
  <2> QED
    BY <2>1, <2>2
<1>6. new \in Seq(Word) /\ Len(new) \in {0, 1} /\ (Len(new) = 1 => n < 4)
  BY <1>1
<1>7. m = Len(kept) + Len(new)
  BY <1>4, <1>5, <1>6, ConcatProperties
<1>8. cache' \in Cache!FifoState /\ (cache'.flags.full <=> m = 4)
  BY <1>4, CacheOutputs
<1>9. Fetching <=> fifo_read
  BY <1>1 DEF Fetching, empty, Visible
<1> HIDE DEF kept, new
<1>10. ASSUME fifo_read
       PROVE  store # <<>>
  BY <1>1, <1>10, EmptySeq
<1>11. rd_data' \in Word /\ fifo_read_data_valid' \in BOOLEAN
  BY <1>1, <1>3, <1>9, <1>10, HeadTailProperties
<1>12. /\ Remaining \in Seq(Word)
       /\ Len(Remaining) = IF fifo_read THEN s - 1 ELSE s
  <2>1. CASE fifo_read
    BY <1>1, <1>9, <1>10, <2>1, HeadTailProperties DEF Remaining
  <2>2. CASE ~fifo_read
    BY <1>1, <1>9, <2>2 DEF Remaining
  <2> QED
    BY <2>1, <2>2
<1>13. fifo_read' \in BOOLEAN
  BY <1>3 DEF ReadNext
<1>14. fifo_read' => /\ s - unseen # 0
                     /\ ~(fifo_read /\ s - unseen <= 1)
                     /\ ~(n >= 3 /\ ~tready)
  BY <1>1, <1>3 DEF ReadNext, empty, almost_empty, Visible
<1> HIDE DEF n, s, m
<1>15. fifo_read' => Len(Remaining) - unseen >= 1
  BY <1>1, <1>12, <1>14
<1>16. ASSUME fifo_read'
       PROVE  m # 4
  <2>1. n \in 0 .. 4 /\ Len(new) \in {0, 1} /\ m = Len(kept) + Len(new)
    BY <1>1, <1>6, <1>7, Zenon
  <2>2. Len(new) = 1 => n < 4
    BY <1>6, Zenon
  <2>3. Len(kept) = n \/ Len(kept) = n - 1
    BY <1>5, Zenon
  <2>4. n >= 3 => Len(kept) = n - 1
    <3>1. n >= 3 => tready
      BY <1>14, <1>16, Zenon
    <3>2. n >= 3 => n > 0
      BY <2>1
    <3> QED
      BY <1>5, <3>1, <3>2, Zenon
  <2> QED
    BY <2>1, <2>2, <2>3, <2>4, CacheRoom, Zenon
<1>17. axis_rd_data_count' \in 0 .. Capacity + 4
  BY <1>1, <1>3, FifoAxisAssumption
<1> QED
  BY <1>4, <1>8, <1>9, <1>11, <1>12, <1>13, <1>15, <1>16, <1>17 DEF s

(* What an edge of the write side adds fits into the vendor FIFO.          *)
LEMMA WrittenFits ==
    ASSUME IInv, NEW tvalid \in BOOLEAN, NEW d \in Word
    PROVE  /\ Written(tvalid, d) = <<>> \/ Written(tvalid, d) = <<d>>
           /\ Written(tvalid, d) \in Seq(Word)
           /\ Len(Written(tvalid, d)) \in Nat
           /\ Len(store) + unreturned + Len(Written(tvalid, d)) <= Capacity
<1>1. /\ Len(store) \in Nat /\ unreturned \in Nat
      /\ Len(store) + unreturned <= Capacity
  BY InvariantFacts
<1>2. <<d>> \in Seq(Word) /\ Len(<<d>>) = 1 /\ <<>> \in Seq(Word) /\ Len(<<>>) = 0
  OBVIOUS
<1>3. CASE tvalid /\ s_axis_tready
  <2>1. Written(tvalid, d) = <<d>>
    BY <1>3 DEF Written
  <2>2. Len(store) + unreturned # Capacity
    BY <1>3 DEF s_axis_tready, full
  <2>3. Len(store) + unreturned + 1 <= Capacity
    BY <1>1, <2>2, FifoAxisAssumption
  <2> QED
    BY <1>2, <2>1, <2>3
<1>4. CASE ~(tvalid /\ s_axis_tready)
  BY <1>1, <1>2, <1>4 DEF Written
<1> QED
  BY <1>3, <1>4

(* The invariant of the next state, from what each edge makes of it.       *)
LEMMA InvariantAgain ==
    ASSUME Sound(cache'), cache' \in Cache!FifoState,
           store' \in Seq(Word),
           unseen' \in 0 .. Len(store'),
           unreturned' \in 0 .. Capacity - Len(store'),
           rd_data' \in Word, fifo_read' \in BOOLEAN,
           fifo_read_data_valid' \in BOOLEAN,
           axis_rd_data_count' \in 0 .. Capacity + 4,
           fifo_read' => Len(store') - unseen' >= 1 /\ ~cache'.flags.full
    PROVE  IInv'
<1>1. ASSUME fifo_read'
      PROVE  Len(store') - unseen' # 0
  <2>1. Len(store') - unseen' >= 1
    BY <1>1
  <2> QED
    BY <2>1
<1>2. StrobeSafe'
  BY <1>1 DEF StrobeSafe, empty, Visible
<1>3. TypeOK'
  BY DEF TypeOK
<1> QED
  BY <1>2, <1>3 DEF IInv

(* The levels of the vendor FIFO when r of its s words remain and w enter, *)
(* u of them are not seen by the reader and v not returned to the writer.  *)
LEMMA Levels ==
    ASSUME NEW s \in Nat, NEW r \in Nat, NEW w \in Nat,
           NEW u \in Nat, NEW v \in Nat,
           u <= r, r <= s, s + v + w <= Capacity
    PROVE  /\ u \in 0 .. r + w /\ u + w \in 0 .. r + w
           /\ v \in 0 .. Capacity - (r + w)
           /\ \A x \in 0 .. u : x \in 0 .. r
           /\ \A x \in 0 .. v : x \in 0 .. Capacity - (s + w)
           /\ w = 0 => v + s - r \in 0 .. Capacity - r
           /\ r - u >= 1 => (r + w) - u >= 1 /\ \A x \in 0 .. u : r - x >= 1
           /\ s - u >= 1 => (s + w) - (u + w) >= 1
  BY FifoAxisAssumption

LEMMA RemainingRange ==
    ASSUME IInv, NEW tready \in BOOLEAN, ReadSide(tready)
    PROVE  /\ Len(Remaining) \in Nat
           /\ unseen <= Len(Remaining)
           /\ Len(Remaining) <= Len(store)
<1>1. /\ Len(store) \in Nat /\ unseen \in Nat /\ unseen <= Len(store)
      /\ fifo_read => Len(store) - unseen >= 1
  BY InvariantFacts
<1>2. Len(Remaining) = IF fifo_read THEN Len(store) - 1 ELSE Len(store)
  BY ReadSideStep
<1>3. CASE fifo_read
  <2>1. Len(store) - unseen >= 1 /\ Len(Remaining) = Len(store) - 1
    BY <1>1, <1>2, <1>3
  <2>2. Len(store) \in Nat /\ unseen \in Nat
    BY <1>1
  <2> QED
    BY <2>1, <2>2
<1>4. CASE ~fifo_read
  BY <1>1, <1>2, <1>4
<1> QED
  BY <1>3, <1>4

LEMMA EdgeInvariant ==
    ASSUME IInv, NEW tvalid \in BOOLEAN, NEW tready \in BOOLEAN, NEW d \in Word,
           Edge(tvalid, d, tready)
    PROVE  IInv'
<1> DEFINE s == Len(store)
           r == Len(Remaining)
           w == Len(Written(tvalid, d))
<1>1. ReadSide(tready) /\ store' = Remaining \o Written(tvalid, d)
      /\ unseen' = unseen /\ unreturned' = unreturned
  BY DEF Edge
<1>2. /\ s \in Nat /\ r \in Nat /\ w \in Nat
      /\ unseen \in Nat /\ unreturned \in Nat
      /\ unseen <= r /\ r <= s /\ s + unreturned + w <= Capacity
  BY <1>1, InvariantFacts, RemainingRange, WrittenFits
<1>3. /\ Sound(cache') /\ cache' \in Cache!FifoState
      /\ rd_data' \in Word /\ fifo_read_data_valid' \in BOOLEAN
      /\ fifo_read' \in BOOLEAN /\ axis_rd_data_count' \in 0 .. Capacity + 4
      /\ Remaining \in Seq(Word)
      /\ fifo_read' => r - unseen >= 1 /\ ~cache'.flags.full
  BY <1>1, ReadSideStep
<1>4. store' \in Seq(Word) /\ Len(store') = r + w
  BY <1>1, <1>3, WrittenFits, ConcatProperties
<1> HIDE DEF s, r, w
<1>5. /\ unseen \in 0 .. r + w /\ unreturned \in 0 .. Capacity - (r + w)
      /\ r - unseen >= 1 => (r + w) - unseen >= 1
  BY <1>2, Levels
<1>6. fifo_read' => Len(store') - unseen' >= 1 /\ ~cache'.flags.full
  BY <1>1, <1>3, <1>4, <1>5, Zenon
<1> QED
  BY <1>1, <1>3, <1>4, <1>5, <1>6, InvariantAgain, Zenon

LEMMA ReadEdgeInvariant ==
    ASSUME IInv, NEW tready \in BOOLEAN, ReadEdge(tready)
    PROVE  IInv'
<1> DEFINE s == Len(store)
           r == Len(Remaining)
<1>1. /\ ReadSide(tready) /\ store' = Remaining
      /\ unseen' \in 0 .. unseen /\ unreturned' = unreturned + s - r
  BY DEF ReadEdge
<1>2. /\ s \in Nat /\ r \in Nat /\ 0 \in Nat
      /\ unseen \in Nat /\ unreturned \in Nat
      /\ unseen <= r /\ r <= s /\ s + unreturned + 0 <= Capacity
  BY <1>1, InvariantFacts, RemainingRange
<1>3. /\ Sound(cache') /\ cache' \in Cache!FifoState
      /\ rd_data' \in Word /\ fifo_read_data_valid' \in BOOLEAN
      /\ fifo_read' \in BOOLEAN /\ axis_rd_data_count' \in 0 .. Capacity + 4
      /\ Remaining \in Seq(Word)
      /\ fifo_read' => r - unseen >= 1 /\ ~cache'.flags.full
  BY <1>1, ReadSideStep
<1>4. store' \in Seq(Word) /\ Len(store') = r
  BY <1>1, <1>3
<1> HIDE DEF s, r
<1>5. /\ \A x \in 0 .. unseen : x \in 0 .. r
      /\ unreturned + s - r \in 0 .. Capacity - r
      /\ r - unseen >= 1 => \A x \in 0 .. unseen : r - x >= 1
  BY <1>2, Levels
<1>6. fifo_read' => Len(store') - unseen' >= 1 /\ ~cache'.flags.full
  BY <1>1, <1>3, <1>4, <1>5, Zenon
<1>7. unseen' \in 0 .. Len(store') /\ unreturned' \in 0 .. Capacity - Len(store')
  BY <1>1, <1>4, <1>5, Zenon
<1> QED
  BY <1>3, <1>4, <1>6, <1>7, InvariantAgain, Zenon

LEMMA WriteEdgeInvariant ==
    ASSUME IInv, NEW tvalid \in BOOLEAN, NEW d \in Word, WriteEdge(tvalid, d)
    PROVE  IInv'
<1> DEFINE s == Len(store)
           w == Len(Written(tvalid, d))
<1>1. /\ store' = store \o Written(tvalid, d)
      /\ unseen' = unseen + w /\ unreturned' \in 0 .. unreturned
      /\ UNCHANGED <<rd_data, fifo_read, fifo_read_data_valid, cache,
                     axis_rd_data_count>>
  BY DEF WriteEdge
<1>2. /\ s \in Nat /\ w \in Nat /\ unseen \in Nat /\ unreturned \in Nat
      /\ unseen <= s /\ s <= s /\ s + unreturned + w <= Capacity
  BY InvariantFacts, WrittenFits
<1>3. /\ Sound(cache) /\ cache \in Cache!FifoState
      /\ axis_rd_data_count \in 0 .. Capacity + 4 /\ rd_data \in Word
      /\ fifo_read \in BOOLEAN /\ fifo_read_data_valid \in BOOLEAN
      /\ fifo_read => ~cache.flags.full
  BY DEF IInv, TypeOK, StrobeSafe
<1>4. store' \in Seq(Word) /\ Len(store') = s + w
  BY <1>1, InvariantFacts, WrittenFits, ConcatProperties
<1>5. fifo_read => s - unseen >= 1
  BY InvariantFacts
<1> HIDE DEF s, w
<1>6. /\ unseen + w \in 0 .. s + w
      /\ \A x \in 0 .. unreturned : x \in 0 .. Capacity - (s + w)
      /\ s - unseen >= 1 => (s + w) - (unseen + w) >= 1
  BY <1>2, Levels
<1>7. fifo_read' => Len(store') - unseen' >= 1 /\ ~cache'.flags.full
  BY <1>1, <1>3, <1>4, <1>5, <1>6, Zenon
<1>8. unseen' \in 0 .. Len(store') /\ unreturned' \in 0 .. Capacity - Len(store')
  BY <1>1, <1>4, <1>6, Zenon
<1>9. Sound(cache')
  BY <1>1, <1>3, Zenon DEF Sound
<1> QED
  BY <1>1, <1>3, <1>4, <1>7, <1>8, <1>9, InvariantAgain, Zenon

LEMMA ResetInvariant ==
    ASSUME IInv, Reset
    PROVE  IInv' /\ Words(cache') = <<>>
<1>1. /\ store' = <<>> /\ unseen' = 0 /\ unreturned' = 0
      /\ fifo_read' = FALSE /\ fifo_read_data_valid' = FALSE
      /\ cache' = Cache!ResetFifo(cache) /\ rd_data' = rd_data
      /\ axis_rd_data_count' = Len(store) - unseen + cache.rd_data_count
  BY DEF Reset, Counted, Visible
<1>2. Sound(cache') /\ Words(cache') = <<>>
  BY <1>1, CacheIsFifo, Facts!ResetSound DEF IInv, Sound, Facts!Sound, Words
<1>3. cache' \in Cache!FifoState
  BY <1>2, CacheOutputs
<1>4. axis_rd_data_count' \in 0 .. Capacity + 4
  <2> DEFINE n == Len(Words(cache))
             s == Len(store)
  <2>1. /\ s \in Nat /\ unseen \in Nat /\ unseen <= s /\ unreturned \in Nat
        /\ s + unreturned <= Capacity /\ n \in 0 .. 4
        /\ cache.rd_data_count = n
    BY InvariantFacts
  <2> HIDE DEF n, s
  <2>2. s - unseen + n \in 0 .. Capacity + 4
    BY <2>1, FifoAxisAssumption
  <2> QED
    BY <1>1, <2>1, <2>2 DEF s
<1>5. /\ store' \in Seq(Word) /\ Len(store') = 0
      /\ unseen' \in 0 .. Len(store')
      /\ unreturned' \in 0 .. Capacity - Len(store')
  BY <1>1, EmptySeq, FifoAxisAssumption
<1>6. rd_data' \in Word
  BY <1>1, InvariantFacts
<1>7. IInv'
  BY <1>1, <1>2, <1>3, <1>4, <1>5, <1>6, InvariantAgain
<1> QED
  BY <1>2, <1>7

LEMMA StepInvariant == IInv /\ [Next]_vars => IInv'
<1> SUFFICES ASSUME IInv, [Next]_vars
             PROVE  IInv'
  OBVIOUS
<1>1. CASE CommonEdge
  BY <1>1, EdgeInvariant DEF CommonEdge
<1>2. CASE \E tvalid \in BOOLEAN, d \in Word : WriteEdge(tvalid, d)
  BY <1>2, WriteEdgeInvariant
<1>3. CASE \E tready \in BOOLEAN : ReadEdge(tready)
  BY <1>3, ReadEdgeInvariant
<1>4. CASE Reset
  BY <1>4, ResetInvariant
<1>5. CASE UNCHANGED vars
  BY <1>5 DEF vars, IInv, TypeOK, StrobeSafe, empty, Visible, Sound
<1> QED
  BY <1>1, <1>2, <1>3, <1>4, <1>5 DEF Next

LEMMA Invariant == Spec => []IInv
  BY InitInvariant, StepInvariant, PTL DEF Spec

(* The registers and the two views of the fill level keep their types.     *)
THEOREM TypeCorrect == Spec => []TypeOK
<1>1. IInv => TypeOK
  BY DEF IInv
<1> QED
  BY <1>1, Invariant, PTL

(* The read strobe is set only when there is a word to read and the cache  *)
(* has room for it, in every state of a FIFO of any capacity.              *)
THEOREM StrobesSafe == Spec => []StrobeSafe
<1>1. IInv => StrobeSafe
  BY DEF IInv
<1> QED
  BY <1>1, Invariant, PTL

-----------------------------------------------------------------------------
(* The refinement of AxisStream.                                           *)

LEMMA HeadTailOfConcat ==
    ASSUME NEW a \in Seq(Word), NEW b \in Seq(Word), a # <<>>
    PROVE  /\ a \o b # <<>>
           /\ Head(a \o b) = Head(a)
           /\ Tail(a \o b) = Tail(a) \o b
<1>1. /\ a \o b \in Seq(Word) /\ Len(a \o b) = Len(a) + Len(b)
      /\ \A i \in 1 .. Len(a) + Len(b) :
            (a \o b)[i] = IF i <= Len(a) THEN a[i] ELSE b[i - Len(a)]
  BY ConcatProperties
<1>2. Len(a) \in Nat /\ Len(a) # 0 /\ Len(b) \in Nat
  BY EmptySeq, LenProperties
<1>3. a \o b # <<>>
  BY <1>1, <1>2, EmptySeq
<1>4. Head(a \o b) = Head(a)
  <2>1. 1 \in 1 .. Len(a) + Len(b) /\ 1 <= Len(a)
    BY <1>2
  <2>2. (a \o b)[1] = a[1]
    BY <1>1, <2>1
  <2> QED
    BY <1>1, <2>2
<1>5. Tail(a \o b) = Tail(a) \o b
  <2>1. /\ Tail(a \o b) \in Seq(Word) /\ Len(Tail(a \o b)) = Len(a \o b) - 1
        /\ \A i \in 1 .. Len(Tail(a \o b)) : Tail(a \o b)[i] = (a \o b)[i + 1]
    BY <1>1, <1>3, HeadTailProperties
  <2>2. /\ Tail(a) \in Seq(Word) /\ Len(Tail(a)) = Len(a) - 1
        /\ \A i \in 1 .. Len(Tail(a)) : Tail(a)[i] = a[i + 1]
    BY HeadTailProperties
  <2>3. /\ Tail(a) \o b \in Seq(Word)
        /\ Len(Tail(a) \o b) = Len(Tail(a)) + Len(b)
        /\ \A i \in 1 .. Len(Tail(a)) + Len(b) :
              (Tail(a) \o b)[i] = IF i <= Len(Tail(a)) THEN Tail(a)[i]
                                  ELSE b[i - Len(Tail(a))]
    BY <2>2, ConcatProperties
  <2>4. Len(Tail(a \o b)) = Len(Tail(a) \o b)
    BY <1>1, <1>2, <2>1, <2>2, <2>3
  <2>5. ASSUME NEW i \in 1 .. Len(Tail(a \o b))
        PROVE  Tail(a \o b)[i] = (Tail(a) \o b)[i]
    <3>1. /\ i \in Nat /\ i >= 1 /\ i + 1 \in 1 .. Len(a) + Len(b)
          /\ i \in 1 .. Len(Tail(a)) + Len(b)
      BY <1>1, <1>2, <2>1, <2>2
    <3>2. CASE i + 1 <= Len(a)
      <4>1. i <= Len(Tail(a)) /\ i \in 1 .. Len(Tail(a))
        BY <1>2, <2>2, <3>1, <3>2
      <4> QED
        BY <1>1, <2>1, <2>2, <2>3, <3>1, <3>2, <4>1
    <3>3. CASE ~(i + 1 <= Len(a))
      <4>1. ~(i <= Len(Tail(a))) /\ i - Len(Tail(a)) = (i + 1) - Len(a)
        BY <1>2, <2>2, <3>1, <3>3
      <4> QED
        BY <1>1, <2>1, <2>3, <3>1, <3>3, <4>1
    <3> QED
      BY <3>2, <3>3
  <2> QED
    BY <2>1, <2>3, <2>4, <2>5, SeqEqual
<1> QED
  BY <1>3, <1>4, <1>5

LEMMA HeadAndTail ==
    ASSUME NEW a \in Seq(Word), a # <<>>
    PROVE  <<Head(a)>> \o Tail(a) = a
<1>1. Len(a) \in Nat /\ 1 \in 1 .. Len(a) /\ Len(a) \in 1 .. Len(a)
  BY EmptySeq, LenProperties
<1>2. SubSeq(a, 1, Len(a)) = <<a[1]>> \o SubSeq(a, 1 + 1, Len(a))
  BY <1>1, SubSeqRecursiveFirst
<1>3. SubSeq(a, 1, Len(a)) = a /\ Tail(a) = SubSeq(a, 2, Len(a))
  BY SubSeqFull, TailIsSubSeq
<1>4. Head(a) = a[1] /\ 1 + 1 = 2
  OBVIOUS
<1> QED
  BY <1>2, <1>3, <1>4

LEMMA Regroup ==
    ASSUME NEW k \in Seq(Word), NEW e \in Seq(Word), NEW q \in Seq(Word),
           NEW r \in Seq(Word), NEW n \in Seq(Word)
    PROVE  ((k \o e) \o q) \o (r \o n) = (k \o (e \o (q \o r))) \o n
<1>1. k \o e \in Seq(Word) /\ (k \o e) \o q \in Seq(Word) /\ q \o r \in Seq(Word)
  BY ConcatProperties
<1>2. \A a \in Seq(Word) : (a \o r) \o n = a \o (r \o n)
  BY ConcatAssociative
<1>3. (((k \o e) \o q) \o r) \o n = ((k \o e) \o q) \o (r \o n)
  BY <1>1, <1>2
<1>4. ((k \o e) \o q) \o r = (k \o e) \o (q \o r)
  BY <1>1, ConcatAssociative
<1>5. (k \o e) \o (q \o r) = k \o (e \o (q \o r))
  BY <1>1, ConcatAssociative, SMTT(30)
<1> QED
  BY <1>3, <1>4, <1>5

(* The words under way on rd_data.                                         *)
Returned == IF fifo_read_data_valid THEN <<rd_data>> ELSE <<>>

LEMMA AcceptedParts ==
    ASSUME IInv
    PROVE  /\ Words(cache) \in Seq(Word) /\ Returned \in Seq(Word)
           /\ store \in Seq(Word) /\ Accepted \in Seq(Word)
           /\ Accepted = Words(cache) \o (Returned \o store)
<1>1. Words(cache) \in Seq(Word) /\ store \in Seq(Word)
      /\ rd_data \in Word /\ fifo_read_data_valid \in BOOLEAN
  BY InvariantFacts
<1>2. Returned \in Seq(Word)
  BY <1>1, EmptySeq DEF Returned
<1>3. Accepted = (Words(cache) \o Returned) \o store
  BY DEF Accepted, Words, Returned
<1>4. Accepted = Words(cache) \o (Returned \o store)
  BY <1>1, <1>2, <1>3, ConcatAssociative
<1> QED
  BY <1>1, <1>2, <1>4, ConcatProperties

(* When tvalid is set, the oldest accepted word is on tdata.               *)
LEMMA Offers == IInv => Stream!OutputsMatch
<1> SUFFICES ASSUME IInv, m_axis_tvalid
             PROVE  Accepted # <<>> /\ m_axis_tdata = Head(Accepted)
  BY DEF Stream!OutputsMatch
<1>1. Words(cache) # <<>> /\ cache.data_out = Head(Words(cache))
  BY CacheOutputs DEF IInv, m_axis_tvalid
<1>2. Returned \o store \in Seq(Word)
  BY AcceptedParts, ConcatProperties
<1> QED
  BY <1>1, <1>2, AcceptedParts, HeadTailOfConcat DEF m_axis_tdata

(* An edge of the read side with the words new entering the vendor FIFO.   *)
LEMMA AcceptedStep ==
    ASSUME IInv, IInv', NEW tready \in BOOLEAN, ReadSide(tready),
           NEW new \in Seq(Word), store' = Remaining \o new
    PROVE  Accepted' =
              (IF tready /\ m_axis_tvalid THEN Tail(Accepted) ELSE Accepted) \o new
<1> DEFINE c == Words(cache)
           kept == IF tready /\ c # <<>> THEN Tail(c) ELSE c
           entering == IF fifo_read_data_valid /\ Len(c) < 4
                       THEN <<rd_data>> ELSE <<>>
<1>1. /\ store \in Seq(Word) /\ rd_data \in Word /\ c \in Seq(Word)
      /\ fifo_read \in BOOLEAN /\ fifo_read_data_valid \in BOOLEAN
      /\ cache.flags.full <=> Len(c) = 4
      /\ Len(c) \in 0 .. 4
      /\ fifo_read => Len(c) < 4
      /\ Sound(cache)
  BY InvariantFacts DEF IInv
<1>2. Words(cache') = kept \o entering
  BY <1>1, CacheClock DEF ReadSide
<1>3. kept \in Seq(Word)
  BY <1>1, HeadTailProperties
<1>4. Fetching <=> fifo_read
  BY ReadSideStep
<1>5. Remaining \in Seq(Word) /\ Returned' \in Seq(Word) /\ Returned \in Seq(Word)
  <2>1. /\ rd_data' \in Word /\ fifo_read_data_valid' \in BOOLEAN
        /\ Remaining \in Seq(Word)
    BY ReadSideStep
  <2> QED
    BY <2>1, AcceptedParts, EmptySeq DEF Returned
<1>6. entering \o (Returned' \o Remaining) = Returned \o store
  <2>1. CASE Len(c) = 4
    <3>1. ~fifo_read /\ entering = <<>>
      BY <1>1, <2>1
    <3>2. Remaining = store /\ Returned' = Returned
      BY <1>1, <1>4, <2>1, <3>1 DEF Remaining, ReadSide, Returned
    <3> QED
      BY <1>1, <1>5, <3>1, <3>2, ConcatProperties, ConcatEmptySeq
  <2>2. CASE Len(c) # 4
    <3>1. entering = Returned
      <4>1. Len(c) < 4
        <5> DEFINE n == Len(c)
        <5>1. n \in 0 .. 4 /\ n # 4
          BY <1>1, <2>2
        <5> HIDE DEF n
        <5>2. n < 4
          BY <5>1
        <5> QED
          BY <5>2 DEF n
      <4> QED
        BY <4>1 DEF Returned
    <3>2. Returned' = IF fifo_read THEN <<rd_data'>> ELSE <<>>
      BY <1>1, <2>2 DEF ReadSide, Returned
    <3>3. Returned' \o Remaining = store
      <4>1. CASE fifo_read
        <5>1. Remaining = Tail(store) /\ Returned' = <<Head(store)>>
          BY <1>4, <3>2, <4>1 DEF Remaining, ReadSide
        <5>2. store # <<>>
          BY <4>1, InvariantFacts, EmptySeq
        <5> QED
          BY <1>1, <5>1, <5>2, HeadAndTail
      <4>2. CASE ~fifo_read
        <5>1. Remaining = store /\ Returned' = <<>>
          BY <1>4, <3>2, <4>2 DEF Remaining
        <5> QED
          BY <1>1, <5>1, ConcatEmptySeq
      <4> QED
        BY <4>1, <4>2
    <3> QED
      BY <3>1, <3>3
  <2> QED
    BY <2>1, <2>2
<1>7. entering \in Seq(Word)
  BY <1>1, EmptySeq
<1>8. m_axis_tvalid <=> c # <<>>
  BY <1>1, CacheOutputs DEF m_axis_tvalid
<1>9. Accepted' = (Words(cache') \o Returned') \o store'
  BY DEF Accepted, Words, Returned
<1> HIDE DEF kept, entering, c
<1>10. Accepted' = (kept \o (Returned \o store)) \o new
  <2>1. ((kept \o entering) \o Returned') \o (Remaining \o new)
           = (kept \o (entering \o (Returned' \o Remaining))) \o new
    <3>1. /\ kept \in Seq(Word) /\ entering \in Seq(Word)
          /\ Returned' \in Seq(Word) /\ Remaining \in Seq(Word) /\ new \in Seq(Word)
      BY <1>3, <1>5, <1>7
    <3>2. \A q, r, n \in Seq(Word) :
             ((kept \o entering) \o q) \o (r \o n)
                = (kept \o (entering \o (q \o r))) \o n
      BY <3>1, Regroup
    <3>3. \A r, n \in Seq(Word) :
             ((kept \o entering) \o Returned') \o (r \o n)
                = (kept \o (entering \o (Returned' \o r))) \o n
      BY <3>1, <3>2
    <3>4. \A n \in Seq(Word) :
             ((kept \o entering) \o Returned') \o (Remaining \o n)
                = (kept \o (entering \o (Returned' \o Remaining))) \o n
      BY <3>1, <3>3
    <3> QED
      BY <3>1, <3>4
  <2> QED
    BY <1>2, <1>6, <1>9, <2>1
<1>11. kept \o (Returned \o store)
          = IF tready /\ m_axis_tvalid THEN Tail(Accepted) ELSE Accepted
  <2>1. Accepted = c \o (Returned \o store) /\ Returned \o store \in Seq(Word)
    BY AcceptedParts, ConcatProperties DEF c
  <2>2. CASE tready /\ c # <<>>
    BY <1>1, <1>8, <2>1, <2>2, HeadTailOfConcat DEF kept
  <2>3. CASE ~(tready /\ c # <<>>)
    BY <1>8, <2>1, <2>3 DEF kept
  <2> QED
    BY <2>2, <2>3
<1> QED
  BY <1>10, <1>11

LEMMA RefinesInit == Init => Stream!Init
<1> SUFFICES ASSUME Init
             PROVE  Stream!Init
  OBVIOUS
<1>1. IInv
  BY InitInvariant
<1>2. Words(cache) = <<>>
  <2>1. PICK d \in Word : cache = Cache!FreshFifo([s \in Cache!Slot |-> d], d)
    BY DEF Init
  <2>2. Cache!Slot = Facts!Slot
    BY DEF Cache!Slot, Facts!Slot
  <2>3. [s \in Facts!Slot |-> d] \in [Facts!Slot -> Word]
    OBVIOUS
  <2> QED
    BY <2>1, <2>2, <2>3, CacheIsFifo, Facts!FreshSound DEF Words
<1>3. Returned \o store = <<>>
  BY EmptySeq, ConcatEmptySeq DEF Init, Returned
<1>4. Accepted = <<>>
  BY <1>1, <1>2, <1>3, AcceptedParts, EmptySeq, ConcatEmptySeq
<1> QED
  BY <1>1, <1>4, Offers DEF Stream!Init

LEMMA RefinesStep == IInv /\ IInv' /\ [Next]_vars => [Stream!Next]_Stream!vars
<1> SUFFICES ASSUME IInv, IInv', [Next]_vars
             PROVE  [Stream!Next]_Stream!vars
  OBVIOUS
<1>1. Stream!OutputsMatch'
  BY Offers, PTL
<1>2. ASSUME NEW tready \in BOOLEAN, ReadSide(tready), NEW d \in Word,
             NEW new, new = <<>> \/ new = <<d>>, store' = Remaining \o new
      PROVE  Stream!Next
  <2>1. Accepted \in Seq(Word) /\ new \in Seq(Word)
    <3>1. <<>> \in Seq(Word) /\ <<d>> \in Seq(Word)
      OBVIOUS
    <3> QED
      BY <1>2, <3>1, AcceptedParts, Zenon
  <2>2. Accepted' =
           (IF tready /\ m_axis_tvalid THEN Tail(Accepted) ELSE Accepted) \o new
    BY <1>2, <2>1, AcceptedStep
  <2>3. CASE tready /\ m_axis_tvalid
    <3>1. Tail(Accepted) \in Seq(Word)
      BY <2>1, <2>3, Offers, HeadTailProperties DEF Stream!OutputsMatch
    <3>2. CASE new = <<>>
      <4>1. Accepted' = Tail(Accepted)
        BY <2>2, <2>3, <3>1, <3>2, ConcatEmptySeq
      <4> QED
        BY <1>1, <2>3, <4>1 DEF Stream!Next, Stream!Pop
    <3>3. CASE new = <<d>>
      <4>1. Accepted' = Append(Tail(Accepted), d)
        BY <2>2, <2>3, <3>1, <3>3, AppendIsConcat
      <4> QED
        BY <1>1, <2>3, <4>1 DEF Stream!Next, Stream!PopPush
    <3> QED
      BY <1>2, <3>2, <3>3
  <2>4. CASE ~(tready /\ m_axis_tvalid)
    <3>1. CASE new = <<>>
      <4>1. Accepted' = Accepted
        BY <2>1, <2>2, <2>4, <3>1, ConcatEmptySeq
      <4> QED
        BY <1>1, <4>1 DEF Stream!Next, Stream!Idle
    <3>2. CASE new = <<d>>
      <4>1. Accepted' = Append(Accepted, d)
        BY <2>1, <2>2, <2>4, <3>2, AppendIsConcat
      <4> QED
        BY <1>1, <4>1 DEF Stream!Next, Stream!Push
    <3> QED
      BY <1>2, <3>1, <3>2
  <2> QED
    BY <2>3, <2>4
<1>3. CASE CommonEdge
  <2>1. PICK tvalid \in BOOLEAN, tready \in BOOLEAN, d \in Word :
                Edge(tvalid, d, tready)
    BY <1>3 DEF CommonEdge
  <2>2. ReadSide(tready) /\ store' = Remaining \o Written(tvalid, d)
    BY <2>1 DEF Edge
  <2>3. Written(tvalid, d) = <<>> \/ Written(tvalid, d) = <<d>>
    BY WrittenFits
  <2> QED
    BY <1>2, <2>2, <2>3
<1>4. CASE \E tvalid \in BOOLEAN, d \in Word : WriteEdge(tvalid, d)
  <2>1. PICK tvalid \in BOOLEAN, d \in Word : WriteEdge(tvalid, d)
    BY <1>4
  <2>2. /\ store' = store \o Written(tvalid, d)
        /\ Words(cache') = Words(cache) /\ Returned' = Returned
    BY <2>1 DEF WriteEdge, Words, Returned
  <2>3. /\ Accepted = (Words(cache) \o Returned) \o store
        /\ Accepted' = (Words(cache') \o Returned') \o store'
    BY DEF Accepted, Words, Returned
  <2>4. Accepted' = Accepted \o Written(tvalid, d)
    <3> DEFINE a == Words(cache) \o Returned
               w == Written(tvalid, d)
    <3>1. a \in Seq(Word) /\ store \in Seq(Word) /\ w \in Seq(Word)
      BY AcceptedParts, WrittenFits, ConcatProperties
    <3>2. Accepted = a \o store /\ Accepted' = a \o (store \o w)
      BY <2>2, <2>3
    <3> HIDE DEF a, w
    <3>3. a \o (store \o w) = (a \o store) \o w
      BY <3>1, ConcatAssociative
    <3> QED
      BY <3>2, <3>3 DEF w
  <2>5. CASE Written(tvalid, d) = <<>>
    <3>1. Accepted' = Accepted
      BY <2>4, <2>5, AcceptedParts, ConcatEmptySeq
    <3> QED
      BY <1>1, <3>1 DEF Stream!Next, Stream!Idle
  <2>6. CASE Written(tvalid, d) = <<d>>
    <3>1. Accepted' = Append(Accepted, d)
      BY <2>4, <2>6, AcceptedParts, AppendIsConcat
    <3> QED
      BY <1>1, <3>1 DEF Stream!Next, Stream!Push
  <2> QED
    BY <2>5, <2>6, WrittenFits
<1>5. CASE \E tready \in BOOLEAN : ReadEdge(tready)
  <2>1. PICK tready \in BOOLEAN : ReadEdge(tready)
    BY <1>5
  <2>2. ReadSide(tready) /\ store' = Remaining
    BY <2>1 DEF ReadEdge
  <2>3. Remaining \o <<>> = Remaining
    BY <2>2, ReadSideStep, ConcatEmptySeq
  <2>4. rd_data \in Word
    BY InvariantFacts
  <2> QED
    BY <1>2, <2>2, <2>3, <2>4
<1>6. CASE Reset
  <2>1. Words(cache') = <<>>
    BY <1>6, ResetInvariant
  <2>2. Returned' = <<>> /\ store' = <<>>
    BY <1>6 DEF Reset, Returned
  <2>3. Accepted' = (Words(cache') \o Returned') \o store'
    BY DEF Accepted, Words, Returned
  <2>4. Accepted' = <<>>
    BY <2>1, <2>2, <2>3, EmptySeq, ConcatEmptySeq
  <2> QED
    BY <1>1, <2>4 DEF Stream!Next, Stream!Reset
<1>7. CASE UNCHANGED vars
  BY <1>7 DEF vars, Stream!vars, Accepted, m_axis_tvalid, m_axis_tdata
<1> QED
  BY <1>3, <1>4, <1>5, <1>6, <1>7 DEF Next

(* No word is lost, duplicated or reordered between the strobe, the output *)
(* register and the cache, for every capacity, one clock or two, and every *)
(* pattern of pauses of the writer and the reader.                         *)
THEOREM Refinement == Spec => ImplementsStream
  BY Invariant, RefinesInit, RefinesStep, PTL
     DEF Spec, ImplementsStream, Stream!Spec

-----------------------------------------------------------------------------
(* The reported fill level.                                                *)

LEMMA CountedAccepted == IInv => Counted <= Len(Accepted)
<1> SUFFICES ASSUME IInv
             PROVE  Counted <= Len(Accepted)
  OBVIOUS
<1> DEFINE n == Len(Words(cache))
           s == Len(store)
           q == Len(Returned)
<1>1. /\ s \in Nat /\ unseen \in Nat /\ unseen <= s /\ n \in 0 .. 4
      /\ Counted = s - unseen + n
  BY InvariantFacts DEF Counted, Visible
<1>2. Len(Accepted) = n + (q + s) /\ q \in Nat
  BY AcceptedParts, ConcatProperties, LenProperties
<1> HIDE DEF n, s, q
<1> QED
  BY <1>1, <1>2

(* A level that is newly reported is at most the number of words that were *)
(* in the FIFO before the edge.                                            *)
THEOREM CountsNeverOver == Spec => CountNeverOver
<1>1. ASSUME IInv, [Next]_vars, axis_rd_data_count' # axis_rd_data_count
      PROVE  axis_rd_data_count' <= Len(Accepted)
  <2>1. axis_rd_data_count' = Counted
    BY <1>1 DEF Next, vars, CommonEdge, Edge, WriteEdge, ReadEdge, Reset, ReadSide
  <2> QED
    BY <1>1, <2>1, CountedAccepted
<1>2. IInv /\ [Next]_vars
         => [axis_rd_data_count' # axis_rd_data_count
                => axis_rd_data_count' <= Len(Accepted)]_vars
  BY <1>1
<1> QED
  BY <1>2, Invariant, PTL DEF Spec, CountNeverOver

=============================================================================
