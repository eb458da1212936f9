------------------------- MODULE AxisSwitch_proofs -------------------------
(***************************************************************************)
(* Proofs, for every number of ports, every set of sources and all frame   *)
(* lengths, that the grant register of the AXIS switch stays one-hot and,  *)
(* for the switch of the layer readout, whose sources all send to sink 0,  *)
(* that the words of each source reach the sink in order and exactly once. *)
(***************************************************************************)
EXTENDS AxisSwitch, FiniteSetTheorems, SequenceTheorems, TLAPS

-----------------------------------------------------------------------------
(* The arbiter.                                                            *)

LEMMA FirstOneHot ==
    ASSUME NEW S \in SUBSET Port
    PROVE  First(S) = {} \/ \E i \in Port : First(S) = {i}
<1> SUFFICES ASSUME First(S) # {}
             PROVE  \E i \in Port : First(S) = {i}
  OBVIOUS
<1>1. PICK i \in S : \A j \in S : i <= j
  BY DEF First
<1>2. ASSUME NEW k \in First(S)
      PROVE  k = i
  <2>1. k \in S /\ k <= i /\ i <= k
    BY <1>1, <1>2 DEF First
  <2>2. k \in Nat /\ i \in Nat
    BY <2>1, <1>1, PortsAssumption DEF Port
  <2> QED
    BY <2>1, <2>2
<1>3. First(S) = {i}
  BY <1>1, <1>2 DEF First
<1> QED
  BY <1>1, <1>3

(* The grant is a set of at most one source.                               *)
OneHot == grant = {} \/ \E s \in Source : grant = {s}

LEMMA SourceIsPort == Source \subseteq Port
  BY DEF Source

LEMMA OneHotStep ==
    ASSUME OneHot, NEW ready, Arbitrate(Requests(ready))
    PROVE  OneHot'
<1> DEFINE req == Requests(ready)
<1>1. /\ req \in SUBSET Port /\ req \subseteq Source
      /\ req \cap rotate_ptr \in SUBSET Port
  BY SourceIsPort DEF Requests
<1>2. grant' = IF Enable THEN GrantComb(req) \ grant ELSE grant
  BY DEF Arbitrate
<1> HIDE DEF req
<1>3. PICK S \in SUBSET Port : S \subseteq req /\ GrantComb(req) = First(S)
  BY <1>1 DEF GrantComb
<1>4. First(S) = {} \/ \E i \in Port : First(S) = {i}
  BY FirstOneHot
<1>5. First(S) \subseteq Source
  BY <1>1, <1>3 DEF First
<1> QED
  BY <1>2, <1>3, <1>4, <1>5 DEF OneHot

LEMMA OneHotInvariant == Spec => []OneHot
<1>1. Init => OneHot
  BY DEF Init, OneHot
<1>2. OneHot /\ [Next]_vars => OneHot'
  <2> SUFFICES ASSUME OneHot, [Next]_vars
               PROVE  OneHot'
    OBVIOUS
  <2>1. CASE Running
    BY <2>1, OneHotStep DEF Running, Clock
  <2>2. CASE Reset
    BY <2>2 DEF Reset, OneHot
  <2>3. CASE UNCHANGED vars
    BY <2>3 DEF vars, OneHot
  <2> QED
    BY <2>1, <2>2, <2>3 DEF Next
<1> QED
  BY <1>1, <1>2, PTL DEF Spec

(* The registered grant is one-hot although the arbiter keeps it while a   *)
(* transmission runs and masks it with its own previous value.             *)
THEOREM GrantsOneHot == Spec => []GrantOneHot
<1>1. OneHot => GrantOneHot
  <2>1. Cardinality({}) = 0 /\ \A s : Cardinality({s}) = 1
    BY FS_EmptySet, FS_Singleton
  <2> QED
    BY <2>1, SMTT(30) DEF OneHot, GrantOneHot
<1> QED
  BY <1>1, OneHotInvariant, PTL

-----------------------------------------------------------------------------
(* The words of a source in a switch with the one sink 0: those in its     *)
(* input FIFO and the one it offers next.                                  *)

WordToZero == [index : Nat, tdest : {0}, tlast : BOOLEAN]

(* What one edge does to a FIFO of four words.  The lemmas cited take the  *)
(* FIFO as an argument, so that one instance serves every source.          *)
Facts == INSTANCE MiniFwftFifo_proofs WITH
            Depth <- 4, Word <- WordToZero, fifo <- input_fifo,
            write <- TRUE, read <- TRUE, data_in <- Blank

Sound(f) == Facts!Sound(f)
Words(f) == Facts!Contents(f)
Coming(s) == Append(Words(input_fifo[s]), sending[s])

(* The position that follows that of w.                                    *)
Following(w) == IF w.tlast THEN 1 ELSE w.index + 1

(* The words of q follow each other, from position e on.                   *)
InStep(q, e) ==
    /\ q[1].index = e
    /\ \A k \in 1 .. Len(q) - 1 : q[k + 1].index = Following(q[k])

LEMMA InputIsFifo ==
    /\ \A m, d : Fifo!FreshFifo(m, d) = Facts!FreshFifo(m, d)
    /\ \A f : Fifo!ResetFifo(f) = Facts!ResetFifo(f)
    /\ \A f, w, r, d : Fifo!Clock(f, w, r, d) = Facts!Clock(f, w, r, d)
    /\ Fifo!Slot = Facts!Slot
  BY DEF Fifo!Slot, Facts!Slot,
         Fifo!FreshFifo, Facts!FreshFifo, Fifo!ResetFlags, Facts!ResetFlags,
         Fifo!ResetFifo, Facts!ResetFifo, Fifo!Forward, Facts!Forward,
         Fifo!Clock, Facts!Clock, Fifo!Clocked, Facts!Clocked,
         Fifo!Reading, Facts!Reading, Fifo!Writing, Facts!Writing,
         Fifo!NextFlags, Facts!NextFlags, Fifo!NextMem, Facts!NextMem,
         Fifo!NextDataOut, Facts!NextDataOut, Fifo!NextCount, Facts!NextCount,
         Fifo!WriteInToOut, Facts!WriteInToOut, Fifo!Back, Facts!Back

LEMMA InputOutputs ==
    ASSUME NEW f, Sound(f)
    PROVE  /\ Words(f) \in Seq(WordToZero) /\ Len(Words(f)) \in 0 .. 4
           /\ f.data_out \in WordToZero
           /\ f.flags.almost_full \in BOOLEAN /\ f.flags.empty \in BOOLEAN
           /\ f.flags.almost_full <=> Len(Words(f)) >= 3
           /\ f.flags.empty <=> Words(f) = <<>>
           /\ Words(f) # <<>> => f.data_out = Head(Words(f))
<1> DEFINE c == Facts!Contents(f)
<1>1. f \in Facts!FifoState /\ Facts!Distance(f) /\ Facts!FlagsExact(f)
  BY DEF Sound, Facts!Sound
<1>2. c \in Seq(WordToZero) /\ Len(c) = f.rd_data_count
  BY <1>1, Facts!ContentsSequence
<1>3. /\ f.flags.almost_full = (Len(c) >= 4 - 1)
      /\ f.flags.empty = (c = <<>>)
      /\ c # <<>> => f.data_out = Head(c)
  BY <1>1, Facts!OutputsOfContents
<1>4. /\ f.rd_data_count \in 0 .. 4 /\ f.data_out \in WordToZero
      /\ f.flags.almost_full \in BOOLEAN /\ f.flags.empty \in BOOLEAN
  BY <1>1 DEF Facts!FifoState, Facts!Flags
<1> HIDE DEF c
<1>5. (Len(c) >= 4 - 1) = (Len(c) >= 3)
  BY <1>2, <1>4
<1> QED
  BY <1>2, <1>3, <1>4, <1>5 DEF Words, c

LEMMA InputClock ==
    ASSUME NEW f, Sound(f), NEW write \in BOOLEAN, NEW read \in BOOLEAN,
           NEW d \in WordToZero
    PROVE  /\ Sound(Fifo!Clock(f, write, read, d))
           /\ Words(Fifo!Clock(f, write, read, d)) =
                 (IF read /\ Words(f) # <<>> THEN Tail(Words(f)) ELSE Words(f))
                 \o (IF write /\ Len(Words(f)) < 4 THEN <<d>> ELSE <<>>)
<1>1. Fifo!Clock(f, write, read, d) = Facts!Clock(f, write, read, d)
  BY InputIsFifo
<1> DEFINE g == Facts!Clock(f, write, read, d)
           c == Facts!Contents(f)
<1>2. /\ Facts!Sound(g)
      /\ Facts!Contents(g) =
            (IF read /\ c # <<>> THEN Tail(c) ELSE c)
            \o (IF write /\ Len(c) < 4 THEN <<d>> ELSE <<>>)
  <2>1. Facts!Sound(f)
    BY DEF Sound
  <2>2. 4 \in Nat /\ 4 >= 2
    OBVIOUS
  <2> QED
    BY <2>1, <2>2, Facts!ClockSound, Zenon
<1> HIDE DEF g, c
<1> QED
  BY <1>1, <1>2 DEF Sound, Words, g, c

LEMMA TailOfConcat ==
    ASSUME NEW S, NEW a \in Seq(S), NEW b \in Seq(S), a # <<>>
    PROVE  Tail(a \o b) = Tail(a) \o b
<1>1. /\ a \o b \in Seq(S) /\ Len(a \o b) = Len(a) + Len(b)
      /\ \A i \in 1 .. Len(a) + Len(b) :
            (a \o b)[i] = IF i <= Len(a) THEN a[i] ELSE b[i - Len(a)]
  BY ConcatProperties
<1>2. Len(a) \in Nat /\ Len(a) # 0 /\ Len(b) \in Nat
  BY EmptySeq, LenProperties
<1>3. a \o b # <<>>
  BY <1>1, <1>2, EmptySeq
<1>4. Tail(a \o b) = Tail(a) \o b
  <2>1. /\ Tail(a \o b) \in Seq(S) /\ Len(Tail(a \o b)) = Len(a \o b) - 1
        /\ \A i \in 1 .. Len(Tail(a \o b)) : Tail(a \o b)[i] = (a \o b)[i + 1]
    BY <1>1, <1>3, HeadTailProperties
  <2>2. /\ Tail(a) \in Seq(S) /\ Len(Tail(a)) = Len(a) - 1
        /\ \A i \in 1 .. Len(Tail(a)) : Tail(a)[i] = a[i + 1]
    BY HeadTailProperties
  <2>3. /\ Tail(a) \o b \in Seq(S)
        /\ Len(Tail(a) \o b) = Len(Tail(a)) + Len(b)
        /\ \A i \in 1 .. Len(Tail(a)) + Len(b) :
              (Tail(a) \o b)[i] = IF i <= Len(Tail(a)) THEN Tail(a)[i]
                                  ELSE b[i - Len(Tail(a))]
    BY <2>2, ConcatProperties
  <2>4. Len(Tail(a \o b)) = Len(Tail(a) \o b)
    BY <1>1, <1>2, <2>1, <2>2, <2>3
  <2>5. ASSUME NEW i \in 1 .. Len(Tail(a \o b))
        PROVE  Tail(a \o b)[i] = (Tail(a) \o b)[i]
    <3>1. /\ i \in Nat /\ i >= 1 /\ i + 1 \in 1 .. Len(a) + Len(b)
          /\ i \in 1 .. Len(Tail(a)) + Len(b)
      BY <1>1, <1>2, <2>1, <2>2
    <3>2. CASE i + 1 <= Len(a)
      <4>1. i <= Len(Tail(a)) /\ i \in 1 .. Len(Tail(a))
        BY <1>2, <2>2, <3>1, <3>2
      <4> QED
        BY <1>1, <2>1, <2>2, <2>3, <3>1, <3>2, <4>1
    <3>3. CASE ~(i + 1 <= Len(a))
      <4>1. ~(i <= Len(Tail(a))) /\ i - Len(Tail(a)) = (i + 1) - Len(a)
        BY <1>2, <2>2, <3>1, <3>3
      <4> QED
        BY <1>1, <2>1, <2>3, <3>1, <3>3, <4>1
    <3> QED
      BY <3>2, <3>3
  <2> QED
    BY <2>1, <2>3, <2>4, <2>5, SeqEqual
<1> QED
  BY <1>4

(* A run of positions goes on when a word that follows is appended and     *)
(* when the first word leaves.                                             *)
LEMMA InStepAppend ==
    ASSUME NEW S, NEW q \in Seq(S), q # <<>>, NEW e, InStep(q, e),
           NEW w \in S, w.index = Following(q[Len(q)])
    PROVE  InStep(Append(q, w), e)
<1> DEFINE n == Len(q)
<1>1. n \in Nat /\ n >= 1
  BY EmptySeq
<1>2. /\ Len(Append(q, w)) = n + 1
      /\ \A i \in 1 .. n : Append(q, w)[i] = q[i]
      /\ Append(q, w)[n + 1] = w
  BY AppendProperties
<1>3. q[1].index = e /\ \A k \in 1 .. n - 1 : q[k + 1].index = Following(q[k])
  BY DEF InStep
<1> HIDE DEF n
<1>4. Append(q, w)[1].index = e
  <2>1. 1 \in 1 .. n
    BY <1>1
  <2> QED
    BY <1>2, <1>3, <2>1
<1>5. ASSUME NEW k \in 1 .. Len(Append(q, w)) - 1
      PROVE  Append(q, w)[k + 1].index = Following(Append(q, w)[k])
  <2>1. k \in 1 .. n
    BY <1>1, <1>2
  <2>2. Append(q, w)[k] = q[k]
    BY <1>2, <2>1
  <2>3. CASE k = n
    BY <1>2, <2>2, <2>3 DEF n
  <2>4. CASE k # n
    <3>1. k \in 1 .. n - 1 /\ k + 1 \in 1 .. n
      BY <1>1, <2>1, <2>4
    <3> QED
      BY <1>2, <1>3, <2>2, <3>1
  <2> QED
    BY <2>3, <2>4
<1> QED
  BY <1>4, <1>5 DEF InStep

LEMMA InStepTail ==
    ASSUME NEW S, NEW q \in Seq(S), Len(q) >= 2, NEW e, InStep(q, e)
    PROVE  InStep(Tail(q), Following(q[1]))
<1> DEFINE n == Len(q)
<1>1. n \in Nat /\ n >= 2 /\ q # <<>>
  BY EmptySeq, LenProperties
<1>2. Len(Tail(q)) = n - 1 /\ \A i \in 1 .. n - 1 : Tail(q)[i] = q[i + 1]
  BY <1>1, HeadTailProperties
<1>3. \A k \in 1 .. n - 1 : q[k + 1].index = Following(q[k])
  BY DEF InStep
<1> HIDE DEF n
<1>4. Tail(q)[1].index = Following(q[1])
  <2>1. 1 \in 1 .. n - 1 /\ 1 + 1 = 2
    BY <1>1
  <2> QED
    BY <1>2, <1>3, <2>1
<1>5. ASSUME NEW k \in 1 .. Len(Tail(q)) - 1
      PROVE  Tail(q)[k + 1].index = Following(Tail(q)[k])
  <2>1. k \in 1 .. n - 1 /\ k + 1 \in 1 .. n - 1
    BY <1>1, <1>2
  <2> QED
    BY <1>2, <1>3, <2>1
<1> QED
  BY <1>4, <1>5 DEF InStep

-----------------------------------------------------------------------------

(* The inductive invariant of a switch with the one sink 0.  The storage   *)
(* of a FIFO that has been emptied still counts: its stale word is routed  *)
(* when a grant outlives the words of its source.                          *)
FifosSound    == \A s \in Source : Sound(input_fifo[s])
SendingToZero == \A s \in Source : sending[s] \in WordToZero
ComingInStep  == \A s \in Source : InStep(Coming(s), expected[s])
RoutedToZero  == current_target_master = 0
SentBySource  == transmitting => source_port \in Source

SwitchInv == /\ FifosSound /\ SendingToZero /\ ComingInStep
             /\ RoutedToZero /\ SentBySource /\ OneHot

LEMMA ComingWords ==
    ASSUME FifosSound, SendingToZero, NEW s \in Source
    PROVE  /\ Words(input_fifo[s]) \in Seq(WordToZero)
           /\ Coming(s) \in Seq(WordToZero)
           /\ Len(Coming(s)) = Len(Words(input_fifo[s])) + 1
           /\ Coming(s)[Len(Coming(s))] = sending[s]
           /\ Words(input_fifo[s]) # <<>> => /\ Coming(s)[1] = Shown(s)
                                             /\ Len(Coming(s)) >= 2
           /\ Pending(s) <=> Words(input_fifo[s]) # <<>>
<1> DEFINE c == Words(input_fifo[s])
           d == sending[s]
<1>1. /\ c \in Seq(WordToZero) /\ d \in WordToZero
      /\ input_fifo[s].flags.empty \in BOOLEAN
      /\ input_fifo[s].flags.empty <=> c = <<>>
      /\ c # <<>> => input_fifo[s].data_out = Head(c)
  BY InputOutputs DEF FifosSound, SendingToZero
<1> HIDE DEF c, d
<1>2. /\ Append(c, d) \in Seq(WordToZero)
      /\ Len(Append(c, d)) = Len(c) + 1
      /\ \A i \in 1 .. Len(c) : Append(c, d)[i] = c[i]
      /\ Append(c, d)[Len(c) + 1] = d
  BY <1>1, AppendProperties
<1>3. ASSUME c # <<>>
      PROVE  Append(c, d)[1] = Head(c) /\ Len(Append(c, d)) >= 2
  <2>1. Len(c) \in Nat /\ Len(c) # 0
    BY <1>1, <1>3, EmptySeq
  <2>2. 1 \in 1 .. Len(c) /\ Len(c) + 1 >= 2
    BY <2>1
  <2> QED
    BY <1>2, <2>2
<1> QED
  BY <1>1, <1>2, <1>3 DEF Coming, Shown, Pending, c, d

(* The words a source offers after power-up or reset.                      *)
LEMMA FirstWordsToZero ==
    ASSUME Sink = {0}, NEW m \in FirstWords, NEW s \in Source
    PROVE  m[s] \in WordToZero /\ m[s].index = 1
<1>1. PICK t \in [Source -> Sink] : m = [x \in Source |-> WordAt(x, 1, t[x])]
  BY DEF FirstWords
<1>2. t[s] = 0 /\ m[s] = WordAt(s, 1, t[s])
  <2>1. t[s] \in Sink
    OBVIOUS
  <2> QED
    BY <1>1, <2>1
<1> QED
  BY <1>2 DEF WordAt, WordToZero

LEMMA FreshInStep ==
    ASSUME NEW w \in WordToZero, w.index = 1
    PROVE  InStep(Append(<<>>, w), 1)
<1>1. Append(<<>>, w)[1] = w /\ Len(Append(<<>>, w)) = 1
  BY EmptySeq, AppendProperties
<1>2. 1 .. 1 - 1 = {}
  OBVIOUS
<1> QED
  BY <1>1, <1>2 DEF InStep

(* What one edge does to the words of a source.                            *)
LEMMA ComingStep ==
    ASSUME Sink = {0}, FifosSound, SendingToZero,
           NEW offer \in SUBSET Source, NEW ready \in SUBSET Sink,
           Send(offer), InputFifos(offer, ready),
           NEW s \in Source, NEW e, InStep(Coming(s), e)
    PROVE  /\ Sound(input_fifo'[s])
           /\ sending'[s] \in WordToZero
           /\ Popped(s, ready) =>
                 /\ Pending(s)
                 /\ InStep(Coming(s)', Following(Shown(s)))
           /\ ~Popped(s, ready) => InStep(Coming(s)', e)
<1> DEFINE f == input_fifo[s]
           c == Words(f)
           d == sending[s]
           wr == s \in offer /\ s_axis_tready(s)
           rd == Popped(s, ready)
           q == Coming(s)
           kept == IF rd THEN Tail(c) ELSE c
           rest == IF rd THEN Tail(q) ELSE q
           from == IF rd THEN Following(Shown(s)) ELSE e
<1>1. /\ Sound(f) /\ d \in WordToZero
      /\ c \in Seq(WordToZero) /\ Len(c) \in 0 .. 4
      /\ f.flags.almost_full \in BOOLEAN
      /\ f.flags.almost_full <=> Len(c) >= 3
  BY InputOutputs DEF FifosSound, SendingToZero
<1>2. /\ q = Append(c, d) /\ q \in Seq(WordToZero) /\ q # <<>>
      /\ Len(q) = Len(c) + 1 /\ q[Len(q)] = d
      /\ c # <<>> => q[1] = Shown(s) /\ Len(q) >= 2
      /\ Pending(s) <=> c # <<>>
  <2>1. /\ q \in Seq(WordToZero) /\ Len(q) = Len(c) + 1 /\ q[Len(q)] = d
        /\ c # <<>> => q[1] = Shown(s) /\ Len(q) >= 2
        /\ Pending(s) <=> c # <<>>
    BY ComingWords
  <2>2. q # <<>>
    <3>1. Len(c) + 1 # 0
      BY <1>1
    <3> QED
      BY <2>1, <3>1, EmptySeq
  <2> QED
    BY <2>1, <2>2 DEF Coming
<1>3. rd => Pending(s)
  BY DEF Popped, SlaveSelected, m_axis_tvalid
<1>4. input_fifo'[s] = Fifo!Clock(f, wr, rd, d)
  BY DEF InputFifos
<1>5. wr \in BOOLEAN /\ rd \in BOOLEAN /\ (wr => Len(c) < 4)
  <2>1. ASSUME wr
        PROVE  Len(c) < 4
    <3>1. ~(Len(c) >= 3)
      BY <1>1, <2>1 DEF s_axis_tready
    <3>2. Len(c) \in 0 .. 4
      BY <1>1
    <3> QED
      BY <3>1, <3>2
  <2> QED
    BY <2>1 DEF Popped
<1>6. /\ Sound(input_fifo'[s])
      /\ Words(input_fifo'[s]) =
            (IF rd /\ c # <<>> THEN Tail(c) ELSE c)
            \o (IF wr /\ Len(c) < 4 THEN <<d>> ELSE <<>>)
  <2> HIDE DEF f, d, wr, rd
  <2>1. /\ Sound(Fifo!Clock(f, wr, rd, d))
        /\ Words(Fifo!Clock(f, wr, rd, d)) =
              (IF rd /\ c # <<>> THEN Tail(c) ELSE c)
              \o (IF wr /\ Len(c) < 4 THEN <<d>> ELSE <<>>)
    BY <1>1, <1>5, InputClock, Zenon
  <2> QED
    BY <1>4, <2>1
<1>7. PICK t \in [Source -> Sink] :
         sending'[s] = IF wr THEN After(s, d, t[s]) ELSE d
  BY DEF Send
<1>8. sending'[s] \in WordToZero
      /\ (wr => sending'[s].index = Following(d))
  <2>1. t[s] = 0
    <3>1. t[s] \in Sink
      OBVIOUS
    <3> QED
      BY <3>1
  <2>2. FrameLen[s] \in Nat
    BY SourceIsPort, PortsAssumption
  <2>3. After(s, d, t[s]) \in WordToZero
        /\ After(s, d, t[s]).index = Following(d)
    BY <1>1, <2>1 DEF After, WordAt, Following, WordToZero
  <2> QED
    BY <1>1, <1>7, <2>3
<1>9. Coming(s)' = Append(Words(input_fifo'[s]), sending'[s])
  BY DEF Coming, Words
<1> HIDE DEF f, c, d, wr, rd, q
<1>10. Words(input_fifo'[s]) = kept \o (IF wr THEN <<d>> ELSE <<>>)
  BY <1>2, <1>3, <1>5, <1>6
<1>11. kept \in Seq(WordToZero) /\ rest = Append(kept, d)
  <2>1. CASE rd
    <3>1. c # <<>>
      BY <1>2, <1>3, <2>1
    <3>2. Tail(c) \in Seq(WordToZero) /\ <<d>> \in Seq(WordToZero)
      BY <1>1, <3>1, HeadTailProperties
    <3>3. q = c \o <<d>> /\ Append(Tail(c), d) = Tail(c) \o <<d>>
      BY <1>1, <1>2, <3>2, AppendIsConcat
    <3>4. Tail(c \o <<d>>) = Tail(c) \o <<d>>
      BY <1>1, <3>1, <3>2, TailOfConcat
    <3> QED
      BY <2>1, <3>2, <3>3, <3>4
  <2>2. CASE ~rd
    BY <1>1, <1>2, <2>2
  <2> QED
    BY <2>1, <2>2
<1>12. rest \in Seq(WordToZero) /\ rest # <<>> /\ rest[Len(rest)] = d
  <2>1. /\ Append(kept, d) \in Seq(WordToZero)
        /\ Len(Append(kept, d)) = Len(kept) + 1
        /\ Append(kept, d)[Len(kept) + 1] = d
    BY <1>1, <1>11, AppendProperties
  <2>2. Len(kept) + 1 # 0
    BY <1>11, LenProperties
  <2> QED
    BY <1>11, <2>1, <2>2, EmptySeq
<1>13. InStep(rest, from)
  <2>1. CASE rd
    BY <1>2, <1>3, <2>1, InStepTail DEF q
  <2>2. CASE ~rd
    BY <2>2 DEF q
  <2> QED
    BY <2>1, <2>2
<1> HIDE DEF kept, rest, from
<1>14. InStep(Coming(s)', from)
  <2>1. CASE wr
    <3>1. Words(input_fifo'[s]) = rest
      <4>1. Words(input_fifo'[s]) = kept \o <<d>>
        BY <1>10, <2>1
      <4>2. kept \o <<d>> = Append(kept, d)
        BY <1>1, <1>11, AppendIsConcat
      <4> QED
        BY <1>11, <4>1, <4>2
    <3> QED
      BY <1>8, <1>9, <1>12, <1>13, <2>1, <3>1, InStepAppend
  <2>2. CASE ~wr
    <3>1. Words(input_fifo'[s]) = kept
      BY <1>10, <1>11, <2>2, ConcatEmptySeq
    <3>2. sending'[s] = d
      BY <1>7, <2>2
    <3> QED
      BY <1>9, <1>11, <1>13, <3>1, <3>2
  <2> QED
    BY <2>1, <2>2
<1>15. ASSUME rd
       PROVE  Pending(s) /\ InStep(Coming(s)', Following(Shown(s)))
  BY <1>3, <1>14, <1>15 DEF from
<1>16. ASSUME ~rd
       PROVE  InStep(Coming(s)', e)
  BY <1>14, <1>16 DEF from
<1> QED
  BY <1>6, <1>8, <1>15, <1>16 DEF rd

(* The sink takes a word of a source at the edges that remove it from the  *)
(* source's FIFO, and at no other.                                         *)
LEMMA TakenPopped ==
    ASSUME Sink = {0}, SwitchInv, NEW ready \in SUBSET Sink, Accept(ready)
    PROVE  /\ \A s \in Source :
                 (\E t \in taken' : t.from = s) <=> Popped(s, ready)
           /\ \A t \in taken' : /\ source_port \in Source
                                /\ Pending(source_port)
                                /\ t.from = source_port
                                /\ t.word = Shown(source_port)
<1>1. taken' = {[sink |-> m, tid |-> source_slave[m],
                 from |-> source_port, word |-> Shown(source_port)] :
                    m \in {k \in ready : m_axis_tvalid(k)}}
  BY DEF Accept
<1>2. current_target_master = 0 /\ (transmitting => source_port \in Source)
  BY DEF SwitchInv, RoutedToZero, SentBySource
<1>3. ASSUME NEW t \in taken'
      PROVE  /\ t.from = source_port /\ t.word = Shown(source_port)
             /\ 0 \in ready /\ m_axis_tvalid(0)
  BY <1>1
<1>4. ASSUME NEW t \in taken'
      PROVE  source_port \in Source /\ Pending(source_port)
  BY <1>2, <1>3 DEF m_axis_tvalid, MasterSelected
<1>5. ASSUME NEW s \in Source, NEW t \in taken', t.from = s
      PROVE  Popped(s, ready)
  BY <1>2, <1>3, <1>5 DEF Popped, SlaveSelected, m_axis_tvalid, MasterSelected
<1>6. ASSUME NEW s \in Source, Popped(s, ready)
      PROVE  \E t \in taken' : t.from = s
  <2>1. 0 \in ready /\ m_axis_tvalid(0) /\ source_port = s
    BY <1>2, <1>6 DEF Popped, SlaveSelected
  <2> DEFINE t == [sink |-> 0, tid |-> source_slave[0],
                   from |-> source_port, word |-> Shown(source_port)]
  <2>2. t \in taken' /\ t.from = s
    BY <1>1, <2>1
  <2> QED
    BY <2>2
<1> QED
  BY <1>3, <1>4, <1>5, <1>6

LEMMA SwitchInit ==
    ASSUME Sink = {0}, Init
    PROVE  SwitchInv
<1>1. \A m \in FirstWords : \A s \in Source :
         m[s] \in WordToZero /\ m[s].index = 1
  BY FirstWordsToZero
<1>2. ASSUME NEW s \in Source
      PROVE  Sound(input_fifo[s]) /\ Words(input_fifo[s]) = <<>>
  <2>1. Blank \in WordToZero
    BY DEF Blank, WordToZero
  <2>2. [k \in Facts!Slot |-> Blank] \in [Facts!Slot -> WordToZero]
    BY <2>1
  <2>3. input_fifo[s] = Facts!FreshFifo([k \in Facts!Slot |-> Blank], Blank)
    BY InputIsFifo DEF Init
  <2> QED
    BY <2>1, <2>2, <2>3, Facts!FreshSound DEF Sound, Words
<1>3. ASSUME NEW s \in Source
      PROVE  InStep(Coming(s), expected[s])
  BY <1>1, <1>2, FreshInStep DEF Init, Coming
<1> QED
  BY <1>1, <1>2, <1>3 DEF SwitchInv, FifosSound, SendingToZero, ComingInStep,
       RoutedToZero, SentBySource, OneHot, Init

LEMMA ClockInvariant ==
    ASSUME Sink = {0}, SwitchInv, NEW offer \in SUBSET Source,
           NEW ready \in SUBSET Sink, Clock(offer, ready)
    PROVE  SwitchInv'
<1>1. /\ Send(offer) /\ InputFifos(offer, ready) /\ Arbitrate(Requests(ready))
      /\ Transmit(Requests(ready)) /\ Route /\ Accept(ready)
  BY DEF Clock
<1>2. FifosSound /\ SendingToZero /\ ComingInStep
      /\ RoutedToZero /\ SentBySource /\ OneHot
  BY DEF SwitchInv
<1>3. ASSUME NEW s \in Source
      PROVE  /\ Sound(input_fifo'[s]) /\ sending'[s] \in WordToZero
             /\ Popped(s, ready) => InStep(Coming(s)', Following(Shown(s)))
             /\ ~Popped(s, ready) => InStep(Coming(s)', expected[s])
  <2>1. InStep(Coming(s), expected[s])
    BY <1>2 DEF ComingInStep
  <2> QED
    BY <1>1, <1>2, <2>1, ComingStep
<1>4. ASSUME NEW s \in Source
      PROVE  expected'[s] = IF Popped(s, ready)
                            THEN Following(Shown(s)) ELSE expected[s]
  <2>1. (\E t \in taken' : t.from = s) <=> Popped(s, ready)
    BY <1>1, TakenPopped
  <2>2. expected'[s] = IF \E t \in taken' : t.from = s
                       THEN IF Shown(s).tlast THEN 1 ELSE Shown(s).index + 1
                       ELSE expected[s]
    BY <1>1 DEF Accept
  <2> QED
    BY <2>1, <2>2 DEF Following
<1>5. FifosSound' /\ SendingToZero'
  BY <1>3 DEF FifosSound, SendingToZero, Sound
<1>6. ComingInStep'
  <2> SUFFICES ASSUME NEW s \in Source
               PROVE  InStep(Coming(s)', expected'[s])
    BY DEF ComingInStep, InStep
  <2> QED
    BY <1>3, <1>4
<1>7. RoutedToZero'
  <2>1. CASE grant = {}
    BY <1>1, <1>2, <2>1 DEF Route, RoutedToZero
  <2>2. CASE grant # {}
    <3>1. GrantBinary \in Source
      BY <1>2, <2>2 DEF OneHot, GrantBinary
    <3>2. Shown(GrantBinary).tdest = 0
      BY <1>2, <3>1, InputOutputs DEF FifosSound, Shown, WordToZero
    <3> QED
      BY <1>1, <2>2, <3>2 DEF Route, RoutedToZero
  <2> QED
    BY <2>1, <2>2
<1>8. SentBySource'
  <2>1. CASE Requests(ready) # {} /\ grant # {}
    <3>1. GrantBinary \in Source
      BY <1>2, <2>1 DEF OneHot, GrantBinary
    <3> QED
      BY <1>1, <2>1, <3>1 DEF Transmit, SentBySource
  <2>2. CASE ~(Requests(ready) # {} /\ grant # {})
    BY <1>1, <1>2, <2>2 DEF Transmit, SentBySource
  <2> QED
    BY <2>1, <2>2
<1>9. OneHot'
  BY <1>1, <1>2, OneHotStep
<1> QED
  BY <1>5, <1>6, <1>7, <1>8, <1>9 DEF SwitchInv

LEMMA ResetInvariant ==
    ASSUME Sink = {0}, SwitchInv, Reset
    PROVE  SwitchInv'
<1>1. ASSUME NEW s \in Source
      PROVE  /\ Sound(input_fifo'[s]) /\ Words(input_fifo'[s]) = <<>>
             /\ sending'[s] \in WordToZero /\ sending'[s].index = 1
             /\ expected'[s] = 1
  <2>1. input_fifo[s] \in Facts!FifoState
    BY DEF SwitchInv, FifosSound, Sound, Facts!Sound
  <2>2. input_fifo'[s] = Facts!ResetFifo(input_fifo[s])
    BY InputIsFifo DEF Reset
  <2>3. Sound(input_fifo'[s]) /\ Words(input_fifo'[s]) = <<>>
    BY <2>1, <2>2, Facts!ResetSound DEF Sound, Words
  <2>4. sending' \in FirstWords /\ expected'[s] = 1
    BY DEF Reset
  <2> QED
    BY <2>3, <2>4, FirstWordsToZero
<1>2. ComingInStep'
  <2> SUFFICES ASSUME NEW s \in Source
               PROVE  InStep(Append(Words(input_fifo'[s]), sending'[s]),
                             expected'[s])
    BY DEF ComingInStep, Coming, InStep, Words
  <2> QED
    BY <1>1, FreshInStep
<1>3. FifosSound' /\ SendingToZero'
  BY <1>1 DEF FifosSound, SendingToZero, Sound
<1>4. RoutedToZero' /\ SentBySource' /\ OneHot'
  BY DEF Reset, SwitchInv, RoutedToZero, SentBySource, OneHot
<1> QED
  BY <1>2, <1>3, <1>4 DEF SwitchInv

(* In a switch whose sources all send to sink 0, as in the layer readout,  *)
(* no word of a source is lost, repeated or overtaken by a later one of    *)
(* the same source, whatever the takeovers, stalls, pauses and resets.     *)
THEOREM WordsInOrder ==
    ASSUME Sink = {0}
    PROVE  Spec => InOrder
<1>1. Init => SwitchInv
  BY SwitchInit
<1>2. SwitchInv /\ [Next]_vars => SwitchInv'
  <2> SUFFICES ASSUME SwitchInv, [Next]_vars
               PROVE  SwitchInv'
    OBVIOUS
  <2>1. CASE Running
    BY <2>1, ClockInvariant DEF Running
  <2>2. CASE Reset
    BY <2>2, ResetInvariant
  <2>3. CASE UNCHANGED vars
    BY <2>3 DEF vars, SwitchInv, FifosSound, SendingToZero, ComingInStep,
         RoutedToZero, SentBySource, OneHot, Coming, InStep, Sound, Words
  <2> QED
    BY <2>1, <2>2, <2>3 DEF Next
<1>3. SwitchInv /\ [Next]_vars
         => [\A t \in taken' : t.word.index = expected[t.from]]_vars
  <2> SUFFICES ASSUME SwitchInv, Next, NEW t \in taken'
               PROVE  t.word.index = expected[t.from]
    OBVIOUS
  <2>1. CASE Running
    <3>1. PICK ready \in SUBSET Sink : Accept(ready)
      BY <2>1 DEF Running, Clock
    <3>2. /\ source_port \in Source /\ Pending(source_port)
          /\ t.from = source_port /\ t.word = Shown(source_port)
      BY <3>1, TakenPopped
    <3>3. Coming(source_port)[1] = Shown(source_port)
      BY <3>2, ComingWords DEF SwitchInv
    <3>4. Coming(source_port)[1].index = expected[source_port]
      BY <3>2 DEF SwitchInv, ComingInStep, InStep
    <3> QED
      BY <3>2, <3>3, <3>4
  <2>2. CASE Reset
    BY <2>2 DEF Reset
  <2> QED
    BY <2>1, <2>2 DEF Next
<1> QED
  BY <1>1, <1>2, <1>3, PTL DEF Spec, InOrder

=============================================================================
