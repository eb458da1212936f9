------------------------ MODULE MiniFwftFifo_proofs ------------------------
(***************************************************************************)
(* Proofs, for every depth of at least two words and every set of words.   *)
(* First, what one clock edge of FwftFifo does to the state of any FIFO:   *)
(* it keeps the types, the distance of the pointers and the exact flags,   *)
(* and acts on the words held as on a queue.  The FIFOs inside FifoAxis,   *)
(* AxisSwitch and RfgProtocol are proved with these lemmas.  Then, that    *)
(* the FIFO of mini_fwft_fifo.sv keeps its types, that its registered      *)
(* flags are exact, and that it implements FwftQueue.                      *)
(***************************************************************************)
EXTENDS MiniFwftFifo, SequenceTheorems, TLAPS

-----------------------------------------------------------------------------

(* The invariant as an operator of the state, so that it can be stated of  *)
(* the state a Clocked or ResetFifo application returns.                   *)
Distance(f) ==
    \/ f.write_pointer = f.read_pointer + f.rd_data_count
    \/ f.write_pointer = f.read_pointer + f.rd_data_count - Depth

FlagsExact(f) ==
    /\ f.flags.full = (f.rd_data_count = Depth)
    /\ f.flags.almost_full = (f.rd_data_count >= Depth - 1)
    /\ f.flags.empty = (f.rd_data_count = 0)
    /\ f.flags.almost_empty = (f.rd_data_count <= 1)

(* A FIFO can read only when it holds a word and write only when it has    *)
(* room.                                                                   *)
Possible(f, r, w) ==
    /\ r => f.rd_data_count >= 1
    /\ w => f.rd_data_count <= Depth - 1

(* The three edges that change what the FIFO holds.                        *)
Pushed(f, d)       == Clocked(f, FALSE, TRUE, d)
Popped(f, d)       == Clocked(f, TRUE, FALSE, d)
PoppedPushed(f, d) == Clocked(f, TRUE, TRUE, d)

(* Pointer arithmetic stays inside the storage.                            *)
LEMMA PointerRange ==
    ASSUME NEW p \in Slot
    PROVE  /\ Back(p) \in Slot
           /\ \A k \in 0 .. Depth : Forward(p, k) \in Slot
  BY DepthAssumption DEF Slot, Back, Forward

(* The flags keep an edge within what is possible.                         *)
LEMMA ReadingWriting ==
    ASSUME NEW f \in FifoState, FlagsExact(f),
           NEW rd \in BOOLEAN, NEW wr \in BOOLEAN
    PROVE  /\ Reading(f, rd) \in BOOLEAN
           /\ Writing(f, wr) \in BOOLEAN
           /\ Possible(f, Reading(f, rd), Writing(f, wr))
  BY DepthAssumption
     DEF FifoState, Flags, FlagsExact, Reading, Writing, Possible

(* A clock edge keeps the state in its type.                               *)
LEMMA ClockedType ==
    ASSUME NEW f \in FifoState,
           NEW r \in BOOLEAN, NEW w \in BOOLEAN, NEW d \in Word,
           Possible(f, r, w)
    PROVE  Clocked(f, r, w, d) \in FifoState
<1>1. NextFlags(f, r, w) \in Flags
  BY DEF NextFlags, Flags, FifoState
<1>2. NextMem(f, r, w, d) \in [Slot -> Word]
  BY PointerRange DEF NextMem, FifoState
<1>3. NextDataOut(f, r, w, d) \in Word
  BY DEF NextDataOut, FifoState
<1>4. NextCount(f, r, w) \in 0 .. Depth
  BY DepthAssumption DEF NextCount, FifoState, Possible
<1>5. /\ (IF w THEN Forward(f.write_pointer, 1) ELSE f.write_pointer) \in Slot
      /\ (IF r THEN Forward(f.read_pointer, 1) ELSE f.read_pointer) \in Slot
  <2>1. f.write_pointer \in Slot /\ f.read_pointer \in Slot
    BY DEF FifoState
  <2>2. 1 \in 0 .. Depth
    BY DepthAssumption
  <2> QED
    BY <2>1, <2>2, PointerRange
<1> QED
  BY <1>1, <1>2, <1>3, <1>4, <1>5 DEF Clocked, FifoState

(* A clock edge moves the pointers as far apart as it moves the count.     *)
LEMMA ClockedDistance ==
    ASSUME NEW f \in FifoState, Distance(f),
           NEW r \in BOOLEAN, NEW w \in BOOLEAN, NEW d \in Word,
           Possible(f, r, w)
    PROVE  Distance(Clocked(f, r, w, d))
<1>1. CASE r /\ w
  BY <1>1, DepthAssumption
     DEF Clocked, Distance, NextCount, Forward, FifoState, Slot, Possible
<1>2. CASE r /\ ~w
  BY <1>2, DepthAssumption
     DEF Clocked, Distance, NextCount, Forward, FifoState, Slot, Possible
<1>3. CASE ~r /\ w
  BY <1>3, DepthAssumption
     DEF Clocked, Distance, NextCount, Forward, FifoState, Slot, Possible
<1>4. CASE ~r /\ ~w
  BY <1>4, DepthAssumption
     DEF Clocked, Distance, NextCount, Forward, FifoState, Slot, Possible
<1> QED
  BY <1>1, <1>2, <1>3, <1>4

(* What each pointer coincidence the flag logic tests says about the fill  *)
(* level.                                                                  *)
LEMMA Coincidences ==
    ASSUME NEW wp \in Slot, NEW rp \in Slot, NEW n \in 0 .. Depth,
           wp = rp + n \/ wp = rp + n - Depth
    PROVE  /\ n <= Depth - 1 => (Forward(wp, 1) = rp <=> n = Depth - 1)
           /\ n <= Depth - 1 => (Forward(wp, 2) = rp <=> n = Depth - 2)
           /\ n >= 1 => (Forward(rp, 1) = wp <=> n = 1)
           /\ n >= 1 => (Forward(rp, 2) = wp <=> n = 2)
  BY DepthAssumption DEF Slot, Forward

(* A clock edge keeps the flags exact.                                     *)
LEMMA ClockedFlags ==
    ASSUME NEW f \in FifoState, Distance(f), FlagsExact(f),
           NEW r \in BOOLEAN, NEW w \in BOOLEAN, NEW d \in Word,
           Possible(f, r, w)
    PROVE  FlagsExact(Clocked(f, r, w, d))
<1> DEFINE n == f.rd_data_count
           wp == f.write_pointer
           rp == f.read_pointer
           g == NextFlags(f, r, w)
<1>1. /\ n \in 0 .. Depth /\ n \in Nat
      /\ wp \in Slot
      /\ rp \in Slot
      /\ f.flags.full \in BOOLEAN
      /\ f.flags.almost_full \in BOOLEAN
      /\ f.flags.empty \in BOOLEAN
      /\ f.flags.almost_empty \in BOOLEAN
  BY DepthAssumption DEF FifoState, Flags
<1>2. /\ n <= Depth - 1 => (Forward(wp, 1) = rp <=> n = Depth - 1)
      /\ n <= Depth - 1 => (Forward(wp, 2) = rp <=> n = Depth - 2)
      /\ n >= 1 => (Forward(rp, 1) = wp <=> n = 1)
      /\ n >= 1 => (Forward(rp, 2) = wp <=> n = 2)
  BY <1>1, Coincidences DEF Distance
<1>3. NextCount(f, r, w) = IF w /\ ~r THEN n + 1
                           ELSE IF r /\ ~w THEN n - 1 ELSE n
  BY DEF NextCount
<1>4. /\ g.full <=> (w /\ ~r /\ Forward(wp, 1) = rp) \/ (f.flags.full /\ ~r)
      /\ g.almost_full <=> \/ w /\ ~r /\ Forward(wp, 2) = rp
                           \/ f.flags.almost_full /\ (~r \/ w \/ f.flags.full)
      /\ g.empty <=> (r /\ ~w /\ Forward(rp, 1) = wp) \/ (f.flags.empty /\ ~w)
      /\ g.almost_empty <=> \/ r /\ ~w /\ Forward(rp, 2) = wp
                            \/ f.flags.almost_empty /\ (~w \/ r \/ f.flags.empty)
  BY DEF NextFlags
<1>5. g.full \in BOOLEAN /\ g.almost_full \in BOOLEAN
      /\ g.empty \in BOOLEAN /\ g.almost_empty \in BOOLEAN
  BY DEF NextFlags
<1>6. /\ f.flags.full <=> n = Depth
      /\ f.flags.almost_full <=> n >= Depth - 1
      /\ f.flags.empty <=> n = 0
      /\ f.flags.almost_empty <=> n <= 1
  BY <1>1 DEF FlagsExact
<1> HIDE DEF n, wp, rp, g
<1>7. g.full <=> NextCount(f, r, w) = Depth
  BY <1>1, <1>2, <1>3, <1>4, <1>6, DepthAssumption DEF n, Possible
<1>8. g.almost_full <=> NextCount(f, r, w) >= Depth - 1
  BY <1>1, <1>2, <1>3, <1>4, <1>6, DepthAssumption DEF n, Possible
<1>9. g.empty <=> NextCount(f, r, w) = 0
  BY <1>1, <1>2, <1>3, <1>4, <1>6, DepthAssumption DEF n, Possible
<1>10. g.almost_empty <=> NextCount(f, r, w) <= 1
  BY <1>1, <1>2, <1>3, <1>4, <1>6, DepthAssumption DEF n, Possible
<1> QED
  BY <1>5, <1>7, <1>8, <1>9, <1>10 DEF Clocked, FlagsExact, g

-----------------------------------------------------------------------------

(* The slot of the k-th word: where the next word will be stored, and what *)
(* advancing the read pointer does to it.                                  *)
LEMMA Slots ==
    ASSUME NEW wp \in Slot, NEW rp \in Slot, NEW n \in 1 .. Depth,
           wp = rp + n \/ wp = rp + n - Depth,
           NEW k \in 2 .. Depth
    PROVE  /\ Forward(rp, k - 2) \in Slot
           /\ n <= Depth - 1 => (Forward(rp, k - 2) = Back(wp) <=> k = n + 1)
           /\ k <= Depth - 1 =>
                  Forward(Forward(rp, 1), k - 2) = Forward(rp, (k + 1) - 2)
           /\ k = 2 => Forward(rp, k - 2) = rp
  BY DepthAssumption DEF Slot, Forward, Back

(* The words held form a sequence of rd_data_count words.                  *)
LEMMA ContentsSequence ==
    ASSUME NEW f \in FifoState, Distance(f)
    PROVE  /\ Contents(f) \in Seq(Word)
           /\ Len(Contents(f)) = f.rd_data_count
           /\ \A k \in 1 .. f.rd_data_count : Contents(f)[k] = Held(f, k)
<1>1. f.rd_data_count \in Nat /\ f.rd_data_count <= Depth
  BY DepthAssumption DEF FifoState
<1>2. ASSUME NEW k \in 1 .. f.rd_data_count
      PROVE  Held(f, k) \in Word
  <2>1. CASE k = 1
    BY <2>1 DEF Held, FifoState
  <2>2. CASE k # 1
    <3>1. f.read_pointer \in Slot /\ f.write_pointer \in Slot
      BY DEF FifoState
    <3>2. k \in 2 .. Depth /\ f.rd_data_count \in 1 .. Depth
      BY <1>1, <2>2, DepthAssumption
    <3>3. Forward(f.read_pointer, k - 2) \in Slot
      BY <3>1, <3>2, Slots DEF Distance
    <3>4. f.mem \in [Slot -> Word]
      BY DEF FifoState
    <3> QED
      BY <2>2, <3>3, <3>4 DEF Held
  <2> QED
    BY <2>1, <2>2
<1>3. Contents(f) \in [1 .. f.rd_data_count -> Word]
  BY <1>2 DEF Contents
<1> QED
  BY <1>1, <1>3 DEF Contents

(* A write appends to the words held.                                      *)
LEMMA HeldAfterWrite ==
    ASSUME NEW f \in FifoState, Distance(f), FlagsExact(f), NEW d \in Word,
           f.rd_data_count <= Depth - 1,
           NEW g, g = Pushed(f, d)
    PROVE  \A k \in 1 .. f.rd_data_count + 1 :
              /\ k = f.rd_data_count + 1 => Held(g, k) = d
              /\ k # f.rd_data_count + 1 => Held(g, k) = Held(f, k)
<1> DEFINE n == f.rd_data_count
<1> TAKE k \in 1 .. f.rd_data_count + 1
<1>1. /\ n \in Nat /\ k \in Nat /\ f.read_pointer \in Slot
      /\ f.write_pointer \in Slot /\ f.mem \in [Slot -> Word]
  BY DepthAssumption DEF FifoState
<1>2. f.flags.empty <=> n = 0
  BY DEF FlagsExact
<1>3. CASE n = 0
  <2>1. g.data_out = d
    BY <1>2, <1>3 DEF Pushed, Clocked, NextDataOut, WriteInToOut
  <2>2. k = 1 /\ k = n + 1
    BY <1>1, <1>3
  <2> QED
    BY <2>1, <2>2 DEF Held
<1>4. CASE n # 0
  <2>1. /\ g.data_out = f.data_out
        /\ g.mem = [f.mem EXCEPT ![Back(f.write_pointer)] = d]
        /\ g.read_pointer = f.read_pointer
    BY <1>2, <1>4 DEF Pushed, Clocked, NextDataOut, NextMem, WriteInToOut
  <2>2. CASE k = 1
    <3>1. k # n + 1
      BY <1>1, <1>4, <2>2
    <3> QED
      BY <2>1, <2>2, <3>1 DEF Held
  <2>3. CASE k # 1
    <3>1. k \in 2 .. Depth /\ n \in 1 .. Depth
      BY <1>1, <1>4, <2>3, DepthAssumption
    <3>2. /\ Forward(f.read_pointer, k - 2) \in Slot
          /\ Forward(f.read_pointer, k - 2) = Back(f.write_pointer)
                <=> k = n + 1
      BY <1>1, <3>1, Slots DEF Distance
    <3>3. g.mem[Forward(f.read_pointer, k - 2)] =
             IF k = n + 1 THEN d ELSE f.mem[Forward(f.read_pointer, k - 2)]
      BY <1>1, <2>1, <3>2
    <3> QED
      BY <2>1, <2>3, <3>3 DEF Held
  <2> QED
    BY <2>2, <2>3
<1> QED
  BY <1>3, <1>4

(* A read drops the first of the words held.                               *)
LEMMA HeldAfterRead ==
    ASSUME NEW f \in FifoState, Distance(f), FlagsExact(f), NEW d \in Word,
           f.rd_data_count >= 1,
           NEW g, g = Popped(f, d),
           NEW k \in 1 .. f.rd_data_count - 1
    PROVE  Held(g, k) = Held(f, k + 1)
<1> DEFINE n == f.rd_data_count
<1>1. /\ n \in 1 .. Depth /\ k \in Nat /\ k + 1 \in 2 .. Depth
      /\ f.read_pointer \in Slot /\ f.write_pointer \in Slot
  BY DepthAssumption DEF FifoState
<1>2. /\ g.data_out = f.mem[f.read_pointer]
      /\ g.mem = f.mem
      /\ g.read_pointer = Forward(f.read_pointer, 1)
  BY DEF Popped, Clocked, NextDataOut, NextMem, WriteInToOut
<1>3. CASE k = 1
  <2>1. Forward(f.read_pointer, (k + 1) - 2) = f.read_pointer
    BY <1>1, <1>3, Slots DEF Distance
  <2>2. Held(f, k + 1) = f.mem[f.read_pointer]
    <3>1. k + 1 # 1
      BY <1>3
    <3> QED
      BY <2>1, <3>1 DEF Held
  <2> QED
    BY <1>2, <1>3, <2>2 DEF Held
<1>4. CASE k # 1
  <2>1. k \in 2 .. Depth /\ k <= Depth - 1
    BY <1>1, <1>4, DepthAssumption DEF FifoState
  <2>2. Forward(Forward(f.read_pointer, 1), k - 2)
           = Forward(f.read_pointer, (k + 1) - 2)
    BY <1>1, <2>1, Slots DEF Distance
  <2>3. k + 1 # 1
    BY <1>1, <1>4
  <2> QED
    BY <1>2, <1>4, <2>2, <2>3 DEF Held
<1> QED
  BY <1>3, <1>4

(* A read and a write on the same edge do both.                            *)
LEMMA HeldAfterReadWrite ==
    ASSUME NEW f \in FifoState, Distance(f), FlagsExact(f), NEW d \in Word,
           f.rd_data_count >= 1, f.rd_data_count <= Depth - 1,
           NEW g, g = PoppedPushed(f, d),
           NEW k \in 1 .. f.rd_data_count
    PROVE  Held(g, k) =
              IF k = f.rd_data_count THEN d ELSE Held(f, k + 1)
<1> DEFINE n == f.rd_data_count
<1>1. /\ n \in 1 .. Depth /\ k \in Nat /\ k + 1 \in 2 .. Depth
      /\ f.read_pointer \in Slot /\ f.write_pointer \in Slot
      /\ f.mem \in [Slot -> Word]
  BY DepthAssumption DEF FifoState
<1>2. (f.flags.empty <=> n = 0) /\ (f.flags.almost_empty <=> n <= 1)
  BY DEF FlagsExact
<1>3. CASE n = 1
  <2>1. g.data_out = d
    BY <1>2, <1>3 DEF PoppedPushed, Clocked, NextDataOut, WriteInToOut
  <2>2. k = 1 /\ k = n
    BY <1>1, <1>3
  <2> QED
    BY <2>1, <2>2 DEF Held
<1>4. CASE n # 1
  <2>1. /\ g.data_out = f.mem[f.read_pointer]
        /\ g.mem = [f.mem EXCEPT ![Back(f.write_pointer)] = d]
        /\ g.read_pointer = Forward(f.read_pointer, 1)
    BY <1>1, <1>2, <1>4 DEF PoppedPushed, Clocked, NextDataOut, NextMem, WriteInToOut
  <2>2. /\ Forward(f.read_pointer, (k + 1) - 2) \in Slot
        /\ Forward(f.read_pointer, (k + 1) - 2) = Back(f.write_pointer)
              <=> k + 1 = n + 1
    BY <1>1, Slots DEF Distance
  <2>3. CASE k = 1
    <3>1. Forward(f.read_pointer, (k + 1) - 2) = f.read_pointer
      BY <1>1, <2>3, Slots DEF Distance
    <3>2. k # n /\ k + 1 # 1
      BY <1>1, <1>4, <2>3
    <3>3. f.read_pointer # Back(f.write_pointer)
      BY <1>1, <2>2, <3>1, <3>2
    <3>4. g.mem[f.read_pointer] = f.mem[f.read_pointer]
      BY <1>1, <2>1, <3>3
    <3>5. Held(f, k + 1) = f.mem[f.read_pointer]
      BY <3>1, <3>2 DEF Held
    <3> QED
      BY <2>1, <2>3, <3>2, <3>5 DEF Held
  <2>4. CASE k # 1
    <3>1. k \in 2 .. Depth /\ k <= Depth - 1
      BY <1>1, <2>4, DepthAssumption DEF FifoState
    <3>2. Forward(Forward(f.read_pointer, 1), k - 2)
             = Forward(f.read_pointer, (k + 1) - 2)
      BY <1>1, <3>1, Slots DEF Distance
    <3>3. g.mem[Forward(f.read_pointer, (k + 1) - 2)] =
             IF k = n THEN d ELSE f.mem[Forward(f.read_pointer, (k + 1) - 2)]
      <4>1. k = n <=> k + 1 = n + 1
        BY <1>1
      <4>2. Forward(f.read_pointer, (k + 1) - 2) = Back(f.write_pointer)
               <=> k = n
        BY <2>2, <4>1
      <4> QED
        BY <1>1, <2>1, <2>2, <4>2
    <3>4. k + 1 # 1
      BY <1>1, <2>4
    <3>5. Held(f, k + 1) = f.mem[Forward(f.read_pointer, (k + 1) - 2)]
      BY <3>4 DEF Held
    <3>6. Held(g, k) = g.mem[Forward(f.read_pointer, (k + 1) - 2)]
      BY <2>1, <2>4, <3>2 DEF Held
    <3>7. CASE k = n
      BY <3>3, <3>6, <3>7
    <3>8. CASE k # n
      BY <3>3, <3>5, <3>6, <3>8
    <3> QED
      BY <3>7, <3>8
  <2> QED
    BY <2>3, <2>4
<1> QED
  BY <1>3, <1>4

-----------------------------------------------------------------------------

(* An empty state satisfies the state invariants.                          *)
LEMMA EmptyState ==
    ASSUME NEW f, f.write_pointer = 0, f.read_pointer = 0,
           f.rd_data_count = 0, f.flags = ResetFlags
    PROVE  Distance(f) /\ FlagsExact(f)
<1>1. /\ (f.rd_data_count = Depth) = FALSE
      /\ (f.rd_data_count >= Depth - 1) = FALSE
      /\ (f.rd_data_count = 0) = TRUE
      /\ (f.rd_data_count <= 1) = TRUE
  BY DepthAssumption
<1>2. Distance(f)
  BY DEF Distance
<1>3. f.flags.full = FALSE /\ f.flags.almost_full = FALSE
      /\ f.flags.empty = TRUE /\ f.flags.almost_empty = TRUE
  BY DEF ResetFlags
<1>4. FlagsExact(f)
  BY <1>1, <1>3 DEF FlagsExact
<1> QED
  BY <1>2, <1>4

(* The words a clock edge leaves in the FIFO, as an operation on the       *)
(* sequence of words it held before.                                       *)
LEMMA ContentsAfterWrite ==
    ASSUME NEW f \in FifoState, Distance(f), FlagsExact(f), NEW d \in Word,
           f.rd_data_count <= Depth - 1,
           NEW g, g = Pushed(f, d)
    PROVE  Contents(g) = Append(Contents(f), d)
<1> DEFINE n == f.rd_data_count
<1>1. g \in FifoState /\ Distance(g)
  BY ClockedType, ClockedDistance DEF Pushed, Possible
<1>2. n \in Nat /\ g.rd_data_count = n + 1
  BY DEF Pushed, Clocked, NextCount, FifoState
<1>3. /\ Contents(f) \in Seq(Word) /\ Len(Contents(f)) = n
      /\ \A k \in 1 .. n : Contents(f)[k] = Held(f, k)
  BY ContentsSequence
<1>4. /\ Contents(g) \in Seq(Word) /\ Len(Contents(g)) = n + 1
      /\ \A k \in 1 .. n + 1 : Contents(g)[k] = Held(g, k)
  BY <1>1, <1>2, ContentsSequence
<1>5. \A k \in 1 .. n + 1 :
         /\ k = n + 1 => Held(g, k) = d
         /\ k # n + 1 => Held(g, k) = Held(f, k)
  BY HeldAfterWrite
<1>6. /\ Append(Contents(f), d) \in Seq(Word)
      /\ Len(Append(Contents(f), d)) = n + 1
      /\ \A k \in 1 .. n : Append(Contents(f), d)[k] = Contents(f)[k]
      /\ Append(Contents(f), d)[n + 1] = d
  BY <1>3, AppendProperties
<1> HIDE DEF n
<1>7. ASSUME NEW k \in 1 .. n + 1
      PROVE  Contents(g)[k] = Append(Contents(f), d)[k]
  <2>1. CASE k = n + 1
    BY <1>4, <1>5, <1>6, <2>1 DEF n
  <2>2. CASE k # n + 1
    <3>1. k \in 1 .. n
      BY <1>2, <2>2
    <3> QED
      BY <1>3, <1>4, <1>5, <1>6, <2>2, <3>1 DEF n
  <2> QED
    BY <2>1, <2>2
<1> QED
  BY <1>4, <1>6, <1>7, SeqEqual

LEMMA ContentsAfterRead ==
    ASSUME NEW f \in FifoState, Distance(f), FlagsExact(f), NEW d \in Word,
           f.rd_data_count >= 1,
           NEW g, g = Popped(f, d)
    PROVE  /\ Contents(f) # <<>>
           /\ Contents(g) = Tail(Contents(f))
<1> DEFINE n == f.rd_data_count
<1>1. g \in FifoState /\ Distance(g)
  BY ClockedType, ClockedDistance DEF Popped, Possible
<1>2. n \in Nat /\ n >= 1 /\ g.rd_data_count = n - 1
  BY DEF Popped, Clocked, NextCount, FifoState
<1>3. /\ Contents(f) \in Seq(Word) /\ Len(Contents(f)) = n
      /\ \A k \in 1 .. n : Contents(f)[k] = Held(f, k)
  BY ContentsSequence
<1>4. /\ Contents(g) \in Seq(Word) /\ Len(Contents(g)) = n - 1
      /\ \A k \in 1 .. n - 1 : Contents(g)[k] = Held(g, k)
  BY <1>1, <1>2, ContentsSequence
<1>5. \A k \in 1 .. n - 1 : Held(g, k) = Held(f, k + 1)
  BY HeldAfterRead
<1>6. Contents(f) # <<>>
  BY <1>2, <1>3, EmptySeq
<1>7. /\ Tail(Contents(f)) \in Seq(Word)
      /\ Len(Tail(Contents(f))) = n - 1
      /\ \A k \in 1 .. n - 1 : Tail(Contents(f))[k] = Contents(f)[k + 1]
  BY <1>3, <1>6, HeadTailProperties
<1> HIDE DEF n
<1>8. ASSUME NEW k \in 1 .. n - 1
      PROVE  Contents(g)[k] = Tail(Contents(f))[k]
  <2>1. k + 1 \in 1 .. n
    BY <1>2
  <2> QED
    BY <1>3, <1>4, <1>5, <1>7, <2>1
<1> QED
  BY <1>4, <1>6, <1>7, <1>8, SeqEqual

LEMMA ContentsAfterReadWrite ==
    ASSUME NEW f \in FifoState, Distance(f), FlagsExact(f), NEW d \in Word,
           f.rd_data_count >= 1, f.rd_data_count <= Depth - 1,
           NEW g, g = PoppedPushed(f, d)
    PROVE  /\ Contents(f) # <<>>
           /\ Contents(g) = Append(Tail(Contents(f)), d)
<1> DEFINE n == f.rd_data_count
           t == Tail(Contents(f))
<1>1. g \in FifoState /\ Distance(g)
  BY ClockedType, ClockedDistance DEF PoppedPushed, Possible
<1>2. n \in Nat /\ n >= 1 /\ g.rd_data_count = n
  BY DEF PoppedPushed, Clocked, NextCount, FifoState
<1>3. /\ Contents(f) \in Seq(Word) /\ Len(Contents(f)) = n
      /\ \A k \in 1 .. n : Contents(f)[k] = Held(f, k)
  BY ContentsSequence
<1>4. /\ Contents(g) \in Seq(Word) /\ Len(Contents(g)) = n
      /\ \A k \in 1 .. n : Contents(g)[k] = Held(g, k)
  BY <1>1, <1>2, ContentsSequence
<1>5. \A k \in 1 .. n :
         Held(g, k) = IF k = n THEN d ELSE Held(f, k + 1)
  BY HeldAfterReadWrite
<1>6. Contents(f) # <<>>
  BY <1>2, <1>3, EmptySeq
<1>7. /\ t \in Seq(Word)
      /\ Len(t) = n - 1
      /\ \A k \in 1 .. n - 1 : t[k] = Contents(f)[k + 1]
  BY <1>3, <1>6, HeadTailProperties
<1>8. /\ Append(t, d) \in Seq(Word)
      /\ Len(Append(t, d)) = (n - 1) + 1
      /\ \A k \in 1 .. n - 1 : Append(t, d)[k] = t[k]
      /\ Append(t, d)[(n - 1) + 1] = d
  BY <1>7, AppendProperties
<1>9. (n - 1) + 1 = n
  BY <1>2
<1> HIDE DEF n, t
<1>10. ASSUME NEW k \in 1 .. n
       PROVE  Contents(g)[k] = Append(t, d)[k]
  <2>1. CASE k = n
    BY <1>4, <1>5, <1>8, <1>9, <2>1
  <2>2. CASE k # n
    <3>1. k \in 1 .. n - 1 /\ k + 1 \in 1 .. n
      BY <1>2, <2>2
    <3> QED
      BY <1>3, <1>4, <1>5, <1>7, <1>8, <2>2, <3>1
  <2> QED
    BY <2>1, <2>2
<1> QED
  BY <1>4, <1>6, <1>8, <1>9, <1>10, SeqEqual DEF t

-----------------------------------------------------------------------------

(* The outputs of a FIFO that satisfies the invariant are those of the     *)
(* queue of the words it holds.                                            *)
LEMMA OutputsOfContents ==
    ASSUME NEW f \in FifoState, Distance(f), FlagsExact(f)
    PROVE  /\ f.rd_data_count = Len(Contents(f))
           /\ f.flags.full = (Len(Contents(f)) = Depth)
           /\ f.flags.almost_full = (Len(Contents(f)) >= Depth - 1)
           /\ f.flags.empty = (Contents(f) = <<>>)
           /\ f.flags.almost_empty = (Len(Contents(f)) <= 1)
           /\ Contents(f) # <<>> => f.data_out = Head(Contents(f))
<1> DEFINE n == f.rd_data_count
           c == Contents(f)
<1>1. n \in Nat
  BY DEF FifoState
<1>2. /\ c \in Seq(Word) /\ Len(c) = n
      /\ \A k \in 1 .. n : c[k] = Held(f, k)
  BY ContentsSequence
<1> HIDE DEF n, c
<1>3. c = <<>> <=> n = 0
  BY <1>1, <1>2, EmptySeq
<1>4. ASSUME c # <<>>
      PROVE  f.data_out = Head(c)
  <2>1. 1 \in 1 .. n
    BY <1>1, <1>3, <1>4
  <2>2. c[1] = f.data_out
    BY <1>2, <2>1 DEF Held
  <2> QED
    BY <2>2
<1>5. f.flags.empty = (c = <<>>)
  BY <1>3 DEF FlagsExact, n
<1> QED
  BY <1>2, <1>4, <1>5 DEF FlagsExact, n, c

-----------------------------------------------------------------------------

(* A FIFO that keeps its types, with pointers as far apart as its count    *)
(* says and exact flags: what every clock edge and every reset preserves.  *)
Sound(f) == f \in FifoState /\ Distance(f) /\ FlagsExact(f)

LEMMA FreshSound ==
    ASSUME NEW m \in [Slot -> Word], NEW d \in Word
    PROVE  Sound(FreshFifo(m, d)) /\ Contents(FreshFifo(m, d)) = <<>>
<1> DEFINE f == FreshFifo(m, d)
<1>1. f \in FifoState
  BY DepthAssumption DEF FreshFifo, FifoState, ResetFlags, Flags, Slot
<1>2. /\ f.write_pointer = 0 /\ f.read_pointer = 0
      /\ f.rd_data_count = 0 /\ f.flags = ResetFlags
  BY DEF FreshFifo
<1> HIDE DEF f
<1>3. Sound(f)
  BY <1>1, <1>2, EmptyState DEF Sound
<1>4. Contents(f) = <<>>
  BY <1>2, <1>3, OutputsOfContents DEF Sound, ResetFlags
<1> QED
  BY <1>3, <1>4 DEF f

LEMMA ResetSound ==
    ASSUME NEW f \in FifoState
    PROVE  Sound(ResetFifo(f)) /\ Contents(ResetFifo(f)) = <<>>
<1> DEFINE g == ResetFifo(f)
<1>1. g \in FifoState
  <2>1. ResetFlags \in Flags /\ 0 \in Slot /\ 0 \in 0 .. Depth
    BY DepthAssumption DEF ResetFlags, Flags, Slot
  <2> QED
    BY <2>1 DEF ResetFifo, FifoState
<1>2. /\ g.write_pointer = 0 /\ g.read_pointer = 0
      /\ g.rd_data_count = 0 /\ g.flags = ResetFlags
  BY DEF ResetFifo, FifoState
<1> HIDE DEF g
<1>3. Sound(g)
  BY <1>1, <1>2, EmptyState DEF Sound
<1>4. Contents(g) = <<>>
  BY <1>2, <1>3, OutputsOfContents DEF Sound, ResetFlags
<1> QED
  BY <1>3, <1>4 DEF g

(* An edge with the inputs of a user: the head leaves if it is read, and   *)
(* the word that is written is appended if there is room.                  *)
LEMMA ClockSound ==
    ASSUME NEW f, Sound(f), NEW wr \in BOOLEAN, NEW rd \in BOOLEAN,
           NEW d \in Word
    PROVE  /\ Sound(Clock(f, wr, rd, d))
           /\ Contents(Clock(f, wr, rd, d)) =
                 (IF rd /\ Contents(f) # <<>>
                  THEN Tail(Contents(f)) ELSE Contents(f))
                 \o (IF wr /\ Len(Contents(f)) < Depth THEN <<d>> ELSE <<>>)
<1> DEFINE r == Reading(f, rd)
           w == Writing(f, wr)
           g == Clock(f, wr, rd, d)
           c == Contents(f)
<1>1. f \in FifoState /\ Distance(f) /\ FlagsExact(f)
  BY DEF Sound
<1>2. r \in BOOLEAN /\ w \in BOOLEAN /\ Possible(f, r, w)
  BY <1>1, ReadingWriting
<1>3. g = Clocked(f, r, w, d)
  BY DEF Clock
<1>4. /\ c \in Seq(Word) /\ Len(c) \in 0 .. Depth
      /\ f.flags.empty = (c = <<>>) /\ f.flags.full = (Len(c) = Depth)
  BY <1>1, ContentsSequence, OutputsOfContents DEF FifoState
<1>5. (r <=> rd /\ c # <<>>) /\ (w <=> wr /\ Len(c) < Depth)
  <2> HIDE DEF c
  <2>1. f.flags.full <=> ~(Len(c) < Depth)
    <3>1. Len(c) = Depth <=> ~(Len(c) < Depth)
      BY <1>4, DepthAssumption
    <3> QED
      BY <1>4, <3>1
  <2> QED
    BY <1>4, <2>1 DEF Reading, Writing
<1> HIDE DEF r, w, g, c
<1>6. Sound(g)
  BY <1>1, <1>2, <1>3, ClockedType, ClockedDistance, ClockedFlags DEF Sound
<1>7. Contents(g) = (IF r THEN Tail(c) ELSE c) \o (IF w THEN <<d>> ELSE <<>>)
  <2>1. CASE ~r /\ ~w
    <3>1. /\ g.rd_data_count = f.rd_data_count
          /\ g.read_pointer = f.read_pointer
          /\ g.mem = f.mem /\ g.data_out = f.data_out
      BY <1>3, <2>1 DEF Clocked, NextCount, NextMem, NextDataOut, WriteInToOut
    <3>2. Contents(g) = c
      BY <3>1 DEF Contents, Held, c
    <3> QED
      BY <1>4, <2>1, <3>2, ConcatEmptySeq
  <2>2. CASE ~r /\ w
    <3>1. g = Pushed(f, d)
      BY <1>2, <1>3, <2>2 DEF Pushed
    <3>2. Contents(g) = Append(c, d)
      BY <1>1, <1>2, <2>2, <3>1, ContentsAfterWrite DEF Possible, c
    <3> QED
      BY <1>4, <2>2, <3>2, AppendIsConcat
  <2>3. CASE r /\ ~w
    <3>1. g = Popped(f, d)
      BY <1>2, <1>3, <2>3 DEF Popped
    <3>2. c # <<>> /\ Contents(g) = Tail(c)
      BY <1>1, <1>2, <2>3, <3>1, ContentsAfterRead DEF Possible, c
    <3>3. Tail(c) \in Seq(Word)
      BY <1>4, <3>2, HeadTailProperties
    <3> QED
      BY <2>3, <3>2, <3>3, ConcatEmptySeq
  <2>4. CASE r /\ w
    <3>1. g = PoppedPushed(f, d)
      BY <1>2, <1>3, <2>4 DEF PoppedPushed
    <3>2. c # <<>> /\ Contents(g) = Append(Tail(c), d)
      BY <1>1, <1>2, <2>4, <3>1, ContentsAfterReadWrite DEF Possible, c
    <3>3. Tail(c) \in Seq(Word)
      BY <1>4, <3>2, HeadTailProperties
    <3> QED
      BY <2>4, <3>2, <3>3, AppendIsConcat
  <2> QED
    BY <1>2, <2>1, <2>2, <2>3, <2>4
<1> QED
  BY <1>5, <1>6, <1>7 DEF g, c

-----------------------------------------------------------------------------

(* The inductive invariant.  The flags alone are not inductive: each is    *)
(* set on a coincidence of the pointers, and only the distance between     *)
(* them says whether a coincidence means full or empty.                    *)
IInv == TypeOK /\ PointersMatchCount /\ FlagsMatchCount

(* The invariant holds of every FIFO out of reset.                         *)
THEOREM InitInvariant == Init => IInv
<1> SUFFICES ASSUME NEW m \in [Slot -> Word], NEW d \in Word,
                    fifo = FreshFifo(m, d),
                    write \in BOOLEAN, read \in BOOLEAN, data_in \in Word
             PROVE  IInv
  BY DEF Init
<1>1. FreshFifo(m, d) \in FifoState
  BY DepthAssumption DEF FreshFifo, FifoState, ResetFlags, Flags, Slot
<1>2. fifo.write_pointer = 0 /\ fifo.read_pointer = 0
      /\ fifo.rd_data_count = 0 /\ fifo.flags = ResetFlags
  BY DEF FreshFifo
<1>3. PointersMatchCount /\ FlagsMatchCount
  BY <1>2, EmptyState
     DEF PointersMatchCount, FlagsMatchCount, Distance, FlagsExact
<1> QED
  BY <1>1, <1>3 DEF IInv, TypeOK

(* The invariant is inductive.                                             *)
THEOREM StepInvariant == IInv /\ [Next]_vars => IInv'
<1> SUFFICES ASSUME IInv, [Next]_vars
             PROVE  IInv'
  OBVIOUS
<1>1. /\ fifo \in FifoState /\ Distance(fifo) /\ FlagsExact(fifo)
      /\ write \in BOOLEAN /\ read \in BOOLEAN /\ data_in \in Word
  BY DEF IInv, TypeOK, PointersMatchCount, FlagsMatchCount, Distance,
         FlagsExact
<1>2. CASE Edge /\ Present
  <2> DEFINE r == Reading(fifo, read)
             w == Writing(fifo, write)
  <2>1. /\ r \in BOOLEAN /\ w \in BOOLEAN
        /\ Possible(fifo, r, w)
    BY <1>1, ReadingWriting
  <2>2. fifo' = Clocked(fifo, r, w, data_in)
    BY <1>2 DEF Edge, Clock
  <2> HIDE DEF r, w
  <2>3. fifo' \in FifoState
    BY <1>1, <2>1, <2>2, ClockedType
  <2>4. Distance(fifo')
    BY <1>1, <2>1, <2>2, ClockedDistance
  <2>5. FlagsExact(fifo')
    BY <1>1, <2>1, <2>2, ClockedFlags
  <2> QED
    BY <1>2, <2>3, <2>4, <2>5
       DEF Present, IInv, TypeOK, PointersMatchCount, FlagsMatchCount, Distance,
           FlagsExact
<1>3. CASE Reset /\ Present
  <2>1. fifo' \in FifoState
    <3>1. ResetFlags \in Flags /\ 0 \in Slot /\ 0 \in 0 .. Depth
      BY DepthAssumption DEF ResetFlags, Flags, Slot
    <3> QED
      BY <1>1, <1>3, <3>1 DEF Reset, ResetFifo, FifoState
  <2>2. /\ fifo'.write_pointer = 0 /\ fifo'.read_pointer = 0
        /\ fifo'.rd_data_count = 0 /\ fifo'.flags = ResetFlags
    BY <1>1, <1>3 DEF Reset, ResetFifo, FifoState
  <2>3. Distance(fifo') /\ FlagsExact(fifo')
    BY <2>2, EmptyState
  <2> QED
    BY <1>3, <2>1, <2>3
       DEF Present, IInv, TypeOK, PointersMatchCount, FlagsMatchCount, Distance,
           FlagsExact
<1>4. CASE UNCHANGED vars
  BY <1>4 DEF vars, IInv, TypeOK, PointersMatchCount, FlagsMatchCount
<1> QED
  BY <1>2, <1>3, <1>4 DEF Next

(* The FIFO never leaves its types, its pointers never drift from its      *)
(* count, and its flags are exact, for every depth and every word set.     *)
THEOREM Invariant == Spec => []IInv
  BY InitInvariant, StepInvariant, PTL DEF Spec

THEOREM TypeCorrect == Spec => []TypeOK
  BY Invariant, PTL DEF IInv

THEOREM PointersExact == Spec => []PointersMatchCount
  BY Invariant, PTL DEF IInv

THEOREM FlagsAlwaysExact == Spec => []FlagsMatchCount
  BY Invariant, PTL DEF IInv

-----------------------------------------------------------------------------

LEMMA InvariantOutputs == IInv => Queue!OutputsMatch
<1> SUFFICES ASSUME IInv
             PROVE  Queue!OutputsMatch
  OBVIOUS
<1>1. /\ fifo \in FifoState /\ Distance(fifo) /\ FlagsExact(fifo)
      /\ write \in BOOLEAN /\ read \in BOOLEAN /\ data_in \in Word
  BY DEF IInv, TypeOK, PointersMatchCount, FlagsMatchCount, Distance,
         FlagsExact
<1> QED
  BY <1>1, OutputsOfContents DEF Queue!OutputsMatch

LEMMA RefinesInit == Init => Queue!Init
<1> SUFFICES ASSUME Init
             PROVE  Queue!Init
  OBVIOUS
<1>1. IInv
  BY InitInvariant
<1>2. Queue!OutputsMatch
  BY <1>1, InvariantOutputs
<1>3. fifo.flags.empty = TRUE
  BY DEF Init, FreshFifo, ResetFlags
<1>4. Contents(fifo) = <<>>
  BY <1>2, <1>3 DEF Queue!OutputsMatch
<1> QED
  BY <1>2, <1>4 DEF Queue!Init

LEMMA RefinesStep == IInv /\ [Next]_vars => [Queue!Next]_(Queue!vars)
<1> SUFFICES ASSUME IInv, [Next]_vars
             PROVE  [Queue!Next]_(Queue!vars)
  OBVIOUS
<1>1. /\ fifo \in FifoState /\ Distance(fifo) /\ FlagsExact(fifo)
      /\ write \in BOOLEAN /\ read \in BOOLEAN /\ data_in \in Word
  BY DEF IInv, TypeOK, PointersMatchCount, FlagsMatchCount, Distance,
         FlagsExact
<1>2. IInv'
  BY StepInvariant
<1>3. Queue!OutputsMatch'
  BY <1>2, InvariantOutputs, PTL
<1>4. CASE Edge
  <2> DEFINE r == Reading(fifo, read)
             w == Writing(fifo, write)
             n == fifo.rd_data_count
  <2>1. /\ r \in BOOLEAN /\ w \in BOOLEAN
        /\ Possible(fifo, r, w)
    BY <1>1, ReadingWriting
  <2>2. fifo' = Clocked(fifo, r, w, data_in)
    BY <1>4 DEF Edge, Clock
  <2>3. (Queue!Pops <=> r) /\ (Queue!Pushes <=> w)
    <3>1. fifo.flags.empty = FALSE <=> Contents(fifo) # <<>>
      BY <1>1, OutputsOfContents DEF FifoState, Flags
    <3>2. fifo.flags.full = FALSE <=> Len(Contents(fifo)) < Depth
      <4>1. Len(Contents(fifo)) \in 0 .. Depth
        BY <1>1, ContentsSequence DEF FifoState
      <4>2. fifo.flags.full = FALSE <=> Len(Contents(fifo)) # Depth
        BY <1>1, OutputsOfContents DEF FifoState, Flags
      <4> QED
        BY <4>1, <4>2, DepthAssumption
    <3> QED
      BY <1>1, <3>1, <3>2
         DEF Queue!Pops, Queue!Pushes, Reading, Writing, FifoState, Flags
  <2> HIDE DEF r, w, n
  <2>4. CASE ~r /\ ~w
    <3>1. /\ fifo'.rd_data_count = fifo.rd_data_count
          /\ fifo'.read_pointer = fifo.read_pointer
          /\ fifo'.mem = fifo.mem
          /\ fifo'.data_out = fifo.data_out
      BY <2>2, <2>4
         DEF Clocked, NextCount, NextMem, NextDataOut, WriteInToOut
    <3>2. Contents(fifo') = Contents(fifo)
      BY <3>1 DEF Contents, Held
    <3> QED
      BY <1>3, <2>3, <2>4, <3>2 DEF Queue!Next, Queue!Idle
  <2>5. CASE ~r /\ w
    <3>1. fifo' = Pushed(fifo, data_in)
      <4>1. r = FALSE /\ w = TRUE
        BY <2>1, <2>5
      <4> QED
        BY <2>2, <4>1 DEF Pushed
    <3>2. Contents(fifo') = Append(Contents(fifo), data_in)
      BY <1>1, <2>1, <2>5, <3>1, ContentsAfterWrite DEF Possible
    <3> QED
      BY <1>3, <2>3, <2>5, <3>2 DEF Queue!Next, Queue!Push
  <2>6. CASE r /\ ~w
    <3>1. fifo' = Popped(fifo, data_in)
      <4>1. r = TRUE /\ w = FALSE
        BY <2>1, <2>6
      <4> QED
        BY <2>2, <4>1 DEF Popped
    <3>2. /\ Contents(fifo) # <<>>
          /\ Contents(fifo') = Tail(Contents(fifo))
      BY <1>1, <2>1, <2>6, <3>1, ContentsAfterRead DEF Possible
    <3> QED
      BY <1>3, <2>3, <2>6, <3>2 DEF Queue!Next, Queue!Pop
  <2>7. CASE r /\ w
    <3>1. fifo' = PoppedPushed(fifo, data_in)
      <4>1. r = TRUE /\ w = TRUE
        BY <2>1, <2>7
      <4> QED
        BY <2>2, <4>1 DEF PoppedPushed
    <3>2. /\ Contents(fifo) # <<>>
          /\ Contents(fifo') = Append(Tail(Contents(fifo)), data_in)
      BY <1>1, <2>1, <2>7, <3>1, ContentsAfterReadWrite DEF Possible
    <3> QED
      BY <1>3, <2>3, <2>7, <3>2 DEF Queue!Next, Queue!PopPush
  <2> QED
    BY <2>1, <2>4, <2>5, <2>6, <2>7
<1>5. CASE Reset
  <2>1. fifo'.flags.empty = TRUE
    BY <1>1, <1>5 DEF Reset, ResetFifo, ResetFlags, FifoState
  <2>2. Contents(fifo') = <<>>
    BY <1>3, <2>1 DEF Queue!OutputsMatch
  <2> QED
    BY <1>3, <2>2 DEF Queue!Next, Queue!Reset
<1>6. CASE UNCHANGED vars
  BY <1>6 DEF vars, Queue!vars
<1> QED
  BY <1>4, <1>5, <1>6 DEF Next

(* The FIFO implements the first-word-fall-through queue.                  *)
THEOREM Refinement == Spec => ImplementsQueue
  BY Invariant, RefinesInit, RefinesStep, PTL
     DEF Spec, ImplementsQueue, Queue!Spec

=============================================================================
