------------------------ MODULE Housekeeping_proofs ------------------------
(***************************************************************************)
(* Proofs, for every number of ADCs, channels, rows and restarts, that the *)
(* codes a script keeps are those of its own channels as long as the FIFOs *)
(* have room for the bytes the killed scripts leave.                       *)
(***************************************************************************)
EXTENDS Housekeeping, SequenceTheorems, TLAPS

-----------------------------------------------------------------------------
(* The inductive invariant.                                                *)

TriesPerReading == [hk_loop |-> 3, tripple |-> 6]

(* The FIFOs hold the frames of all scripts.                               *)
RoomForKilled == 2 * (MaxRestarts + 1) <= FifoDepth

(* Which try of its reading the current one is, counted from 0.            *)
Nth == (try - 1) % TriesPerReading[script]

AdcNow     == Current.reading[1]
ChannelNow == Current.reading[2]

Left == Len(mosi) + Len(miso)

ScriptOK ==
    /\ script \in Scripts /\ run \in 0 .. MaxRestarts
    /\ row \in Nat /\ try \in DOMAIN TriesOf[script]
    /\ pc \in {"deselect", "write", "select", "count", "read", "done", "dead"}
    /\ count \in Nat

Received == [reading : Adcs \X Channels, high : BOOLEAN, run : 0 .. MaxRestarts]

BoardOK ==
    /\ selected \in 0 .. NumAdcs
    /\ mosi \in Seq({8 * c : c \in Channels})
    /\ miso \in Seq(Received)
    /\ adc \in [Adcs -> [converted : Channels, address : Channels, start : BOOLEAN]]

(* Frames are whole: a selected ADC is inside one when an odd byte waits.  *)
FramesWhole ==
    /\ \A a \in Adcs : a # selected => adc[a].start = TRUE
    /\ \A a \in Adcs : adc[a].start = TRUE => adc[a].converted = adc[a].address
    /\ selected = 0 => Len(mosi) % 2 = 0
    /\ selected # 0 => (adc[selected].start = TRUE <=> Len(mosi) % 2 = 0)

(* Each killed script leaves at most one frame in the FIFOs.               *)
RoomLeft ==
    /\ Left <= 2 * run + 2
    /\ pc \in {"deselect", "write"} => Left <= 2 * run

Answer(high, x) == [reading |-> <<AdcNow, x>>, high |-> high, run |-> run]

(* The frame of the current try, and the conversion x it returns.          *)
Unsent(x) ==
    /\ selected \in {0, AdcNow}
    /\ mosi = <<ChannelNow * 8, 0>> /\ miso = <<>>
    /\ adc[AdcNow].start = TRUE /\ adc[AdcNow].converted = x

Half(x) ==
    /\ selected = AdcNow
    /\ mosi = <<0>> /\ miso = <<Answer(TRUE, x)>>
    /\ adc[AdcNow].start = FALSE /\ adc[AdcNow].address = ChannelNow
    /\ adc[AdcNow].converted = x

Sent(x) ==
    /\ selected = AdcNow
    /\ mosi = <<>> /\ miso = <<Answer(TRUE, x), Answer(FALSE, x)>>
    /\ adc[AdcNow].start = TRUE /\ adc[AdcNow].converted = ChannelNow

(* From the second try of a reading on, nothing is left of what came       *)
(* before; from the third on, the ADC converts the channel.                *)
Settled(x) == Nth >= 2 => x = ChannelNow

BeforeWrite ==
    /\ mosi = <<>> /\ miso = <<>>
    /\ selected \in {0, AdcNow}
    /\ Settled(adc[AdcNow].converted)

InTry ==
    Nth >= 1 =>
        /\ pc \in {"deselect", "write"} => BeforeWrite
        /\ pc \in {"select", "count"} =>
              \E x \in Channels : Settled(x) /\ (Unsent(x) \/ Half(x) \/ Sent(x))
        /\ pc = "read" => \E x \in Channels : Settled(x) /\ Sent(x)

ReadAll ==
    /\ pc \in {"count", "read"} => selected = AdcNow
    /\ pc = "read" => mosi = <<>> /\ count = Len(miso)

IInv == /\ ScriptOK /\ BoardOK /\ FramesWhole /\ RoomLeft
        /\ ReadAll /\ InTry /\ CodesAreChannels

-----------------------------------------------------------------------------
(* Arithmetic of the tries.                                                *)

LEMMA ReadingsInRange ==
    ASSUME HousekeepingAssumption, NEW k \in 1 .. NumReadings
    PROVE  Readings[k] \in Adcs \X Channels
<1> DEFINE q == (k - 1) \div NumChannels
           m == (k - 1) % NumChannels
<1>1. /\ NumChannels \in Nat /\ NumChannels > 0 /\ NumAdcs \in Nat
      /\ k - 1 \in Nat /\ k - 1 < NumAdcs * NumChannels
  <2>1. NumChannels \in Nat /\ NumChannels > 0 /\ NumAdcs \in Nat
    BY DEF HousekeepingAssumption
  <2>2. NumAdcs * NumChannels \in Nat
    BY <2>1
  <2>3. k \in 1 .. NumAdcs * NumChannels
    BY DEF NumReadings
  <2> QED
    BY <2>1, <2>2, <2>3
<1>2. q \in Nat /\ m \in 0 .. NumChannels - 1 /\ k - 1 = NumChannels * q + m
  BY <1>1
<1>3. q < NumAdcs
  <2>1. SUFFICES ASSUME q >= NumAdcs
                 PROVE  FALSE
    BY <1>1, <1>2
  <2> HIDE DEF q, m
  <2>2. NumChannels * q >= NumChannels * NumAdcs
    BY <1>1, <1>2, <2>1
  <2>3. NumChannels * NumAdcs = NumAdcs * NumChannels
    BY <1>1
  <2>4. NumChannels * q \in Int /\ NumChannels * NumAdcs \in Int
    BY <1>1, <1>2
  <2> QED
    BY <1>1, <1>2, <2>2, <2>3, <2>4
<1>4. Readings[k] = <<q + 1, m>>
  BY DEF Readings
<1> HIDE DEF q, m
<1>5. q + 1 \in 1 .. NumAdcs
  BY <1>1, <1>2, <1>3
<1> QED
  BY <1>2, <1>4, <1>5 DEF Adcs, Channels

LEMMA ReadingsCount ==
    ASSUME HousekeepingAssumption
    PROVE  NumReadings \in Nat /\ NumReadings >= 1
<1>1. NumAdcs \in Nat /\ NumAdcs >= 1 /\ NumChannels \in Nat /\ NumChannels >= 1
  BY DEF HousekeepingAssumption
<1> QED
  BY <1>1 DEF NumReadings

LEMMA TryOf ==
    ASSUME HousekeepingAssumption, ScriptOK
    PROVE  \E n \in {3, 6} :
             /\ n = TriesPerReading[script]
             /\ TriesOf[script] = Tries(n)
             /\ DOMAIN TriesOf[script] = 1 .. n * NumReadings
             /\ Len(TriesOf[script]) = n * NumReadings
             /\ try \in 1 .. n * NumReadings
<1>1. script \in {"hk_loop", "tripple"} /\ try \in DOMAIN TriesOf[script]
  BY DEF HousekeepingAssumption, ScriptOK
<1>2. NumReadings \in Nat
  BY ReadingsCount
<1>3. PICK n \in {3, 6} : n = TriesPerReading[script] /\ TriesOf[script] = Tries(n)
  BY <1>1 DEF TriesPerReading, TriesOf, hk_loop, get_hk_row_tripple
<1>4. n * NumReadings \in Nat
  BY <1>2
<1>5. DOMAIN Tries(n) = 1 .. n * NumReadings /\ Len(Tries(n)) = n * NumReadings
  BY <1>4 DEF Tries
<1> QED
  BY <1>1, <1>3, <1>5

LEMMA Now ==
    ASSUME HousekeepingAssumption, ScriptOK
    PROVE  /\ AdcNow \in Adcs /\ ChannelNow \in Channels
           /\ Current.reading = <<AdcNow, ChannelNow>>
           /\ Nth \in Nat
           /\ Current.kept \in BOOLEAN
           /\ Current.kept => Nth >= 2
<1>1. PICK n \in {3, 6} : /\ n = TriesPerReading[script] /\ TriesOf[script] = Tries(n)
                          /\ try \in 1 .. n * NumReadings
  BY TryOf
<1>2. NumReadings \in Nat
  BY ReadingsCount
<1>3. Current = [reading |-> Readings[(try - 1) \div n + 1], kept |-> try % n = 0]
  BY <1>1 DEF Current, Tries
<1>4. (try - 1) \div n + 1 \in 1 .. NumReadings
  BY <1>1, <1>2
<1>5. Current.reading \in Adcs \X Channels
  BY <1>3, <1>4, ReadingsInRange
<1>6. Nth = (try - 1) % n
  BY <1>1 DEF Nth
<1>7. Nth \in Nat /\ (try % n = 0 => Nth >= 2)
  BY <1>1, <1>2, <1>6
<1>8. Current.kept = (try % n = 0)
  BY <1>3
<1>9. Current.kept \in BOOLEAN /\ (Current.kept => Nth >= 2)
  BY <1>7, <1>8
<1> QED
  BY <1>5, <1>7, <1>9 DEF AdcNow, ChannelNow

(* The try after this one is of the same reading, or the first of another. *)
LEMMA NextTry ==
    ASSUME HousekeepingAssumption, ScriptOK, script' = script,
           try' = IF try = Len(TriesOf[script]) THEN 1 ELSE try + 1
    PROVE  /\ try' \in DOMAIN TriesOf[script']
           /\ \/ Nth' = 0
              \/ Nth' = Nth + 1 /\ AdcNow' = AdcNow /\ ChannelNow' = ChannelNow
<1>1. PICK n \in {3, 6} : /\ n = TriesPerReading[script] /\ TriesOf[script] = Tries(n)
                          /\ DOMAIN TriesOf[script] = 1 .. n * NumReadings
                          /\ Len(TriesOf[script]) = n * NumReadings
                          /\ try \in 1 .. n * NumReadings
  BY TryOf
<1>2. NumReadings \in Nat /\ NumReadings >= 1
  BY ReadingsCount
<1>3. try' \in 1 .. n * NumReadings
  BY <1>1, <1>2
<1>4. TriesOf[script'] = Tries(n) /\ n = TriesPerReading[script']
  BY <1>1
<1>5. Nth = (try - 1) % n /\ Nth' = (try' - 1) % n
  BY <1>1, <1>4 DEF Nth
<1>6. /\ Current.reading = Readings[(try - 1) \div n + 1]
      /\ Current'.reading = Readings[(try' - 1) \div n + 1]
  <2>1. Current = Tries(n)[try] /\ Current' = Tries(n)[try']
    BY <1>1, <1>4 DEF Current
  <2>2. ASSUME NEW t \in 1 .. n * NumReadings
        PROVE  Tries(n)[t].reading = Readings[(t - 1) \div n + 1]
    BY DEF Tries
  <2> QED
    BY <1>1, <1>3, <2>1, <2>2
<1>7. CASE try = n * NumReadings
  <2>1. try' = 1
    BY <1>1, <1>7
  <2>2. Nth' = 0
    BY <1>1, <1>5, <2>1
  <2> QED
    BY <1>1, <1>3, <1>4, <2>2
<1>8. CASE try # n * NumReadings
  <2>1. try' = try + 1 /\ try \in Nat
    BY <1>1, <1>2, <1>8
  <2>2. Nth' = 0 \/ (Nth' = Nth + 1 /\ (try' - 1) \div n = (try - 1) \div n)
    BY <1>1, <1>5, <2>1, SMTT(30)
  <2> QED
    BY <1>1, <1>3, <1>4, <1>6, <2>2 DEF AdcNow, ChannelNow
<1> QED
  BY <1>7, <1>8

-----------------------------------------------------------------------------
(* The FIFOs and the ADCs.                                                 *)

LEMMA Lengths ==
    ASSUME HousekeepingAssumption, RoomForKilled, IInv
    PROVE  /\ Len(mosi) \in Nat /\ Len(miso) \in Nat /\ run \in Nat
           /\ Len(mosi) + Len(miso) <= 2 * run + 2
           /\ 2 * run + 2 <= FifoDepth /\ FifoDepth \in Nat
           /\ SpiIdle /\ selected # 0 => mosi = <<>>
           /\ ~SpiIdle => selected \in Adcs /\ mosi # <<>>
<1>1. /\ Len(mosi) \in Nat /\ Len(miso) \in Nat /\ mosi \in Seq({8 * c : c \in Channels})
      /\ run \in 0 .. MaxRestarts /\ MaxRestarts \in Nat /\ FifoDepth \in Nat
  BY LenProperties DEF IInv, BoardOK, ScriptOK, HousekeepingAssumption
<1>2. Len(mosi) + Len(miso) <= 2 * run + 2 /\ 2 * run + 2 <= FifoDepth
  BY <1>1 DEF IInv, RoomLeft, Left, RoomForKilled
<1>3. ASSUME SpiIdle, selected # 0
      PROVE  mosi = <<>>
  <2>1. CASE Len(miso) = FifoDepth
    <3>1. Len(mosi) = 0
      BY <1>1, <1>2, <2>1
    <3> QED
      BY <1>1, <3>1, EmptySeq
  <2> QED
    BY <1>3, <2>1 DEF SpiIdle
<1>4. ASSUME ~SpiIdle
      PROVE  selected \in Adcs /\ mosi # <<>>
  <2>1. selected # 0 /\ mosi # <<>> /\ selected \in 0 .. NumAdcs
    BY <1>4 DEF SpiIdle, IInv, BoardOK
  <2> QED
    BY <2>1 DEF Adcs, HousekeepingAssumption
<1> QED
  BY <1>1, <1>2, <1>3, <1>4

(* When the SPI master is idle no ADC is inside a frame, so that a chip    *)
(* select that changes leaves them as they are.                            *)
LEMMA IdleFrames ==
    ASSUME HousekeepingAssumption, RoomForKilled, IInv, SpiIdle
    PROVE  /\ \A a \in Adcs : adc[a].start = TRUE
           /\ \A n : FramesEnded(n) = adc
           /\ Len(mosi) % 2 = 0
<1>1. FramesWhole /\ adc \in [Adcs -> [converted : Channels, address : Channels, start : BOOLEAN]]
      /\ selected \in 0 .. NumAdcs
  BY DEF IInv, BoardOK
<1>2. Len(mosi) % 2 = 0
  <2>1. Len(<<>>) % 2 = 0
    OBVIOUS
  <2> QED
    BY <1>1, <2>1, Lengths DEF FramesWhole
<1>3. ASSUME NEW a \in Adcs
      PROVE  adc[a].start = TRUE
  <2>1. CASE a = selected
    <3>1. selected # 0
      BY <2>1 DEF Adcs
    <3> QED
      BY <1>1, <1>2, <2>1, <3>1 DEF FramesWhole
  <2> QED
    BY <1>1, <2>1 DEF FramesWhole
<1>4. ASSUME NEW n
      PROVE  FramesEnded(n) = adc
  <2>1. CASE selected \in {0, n}
    BY <2>1 DEF FramesEnded
  <2>2. CASE selected \notin {0, n}
    <3>1. selected \in Adcs
      BY <1>1, <2>2 DEF Adcs, HousekeepingAssumption
    <3>2. adc[selected].start = TRUE /\ adc[selected].converted = adc[selected].address
      BY <1>1, <1>3, <3>1 DEF FramesWhole
    <3>3. FramesEnded(n) = [adc EXCEPT ![selected].converted = adc[selected].address,
                                       ![selected].start = TRUE]
      BY <2>2 DEF FramesEnded
    <3>4. [adc[selected] EXCEPT !.converted = adc[selected].address, !.start = TRUE]
            = adc[selected]
      BY <1>1, <3>1, <3>2
    <3>5. \A a \in Adcs : FramesEnded(n)[a] = adc[a]
      BY <1>1, <3>1, <3>3, <3>4
    <3>6. FramesEnded(n) = [a \in Adcs |-> FramesEnded(n)[a]]
      BY <1>1, <3>3
    <3>7. adc = [a \in Adcs |-> adc[a]]
      BY <1>1
    <3> QED
      BY <3>5, <3>6, <3>7
  <2> QED
    BY <2>1, <2>2
<1> QED
  BY <1>2, <1>3, <1>4

(* What does not depend on the board's part of the state.                  *)
LEMMA SameTry ==
    ASSUME script' = script, try' = try
    PROVE  AdcNow' = AdcNow /\ ChannelNow' = ChannelNow /\ Nth' = Nth
           /\ Current' = Current
BY DEF AdcNow, ChannelNow, Nth, Current

LEMMA AppendToOne ==
    ASSUME NEW p, NEW q
    PROVE  Append(<<p>>, q) = <<p, q>>
<1>1. <<p>> \in Seq({p, q}) /\ <<p, q>> \in Seq({p, q}) /\ Len(<<p>>) = 1 /\ Len(<<p, q>>) = 2
  OBVIOUS
<1>2. /\ Append(<<p>>, q) \in Seq({p, q}) /\ Len(Append(<<p>>, q)) = 2
      /\ Append(<<p>>, q)[1] = p /\ Append(<<p>>, q)[2] = q
  BY <1>1, AppendProperties
<1>3. \A i \in 1 .. 2 : Append(<<p>>, q)[i] = <<p, q>>[i]
  <2>1. \A i \in 1 .. 2 : i = 1 \/ i = 2
    OBVIOUS
  <2>2. <<p, q>>[1] = p /\ <<p, q>>[2] = q
    OBVIOUS
  <2> QED
    BY <1>2, <2>1, <2>2
<1> QED
  BY <1>1, <1>2, <1>3, SeqEqual

LEMMA ShiftStep ==
    ASSUME HousekeepingAssumption, RoomForKilled, IInv, Shift
    PROVE  IInv'
<1> DEFINE a == adc[selected]
           r == [reading |-> <<selected, a.converted>>, high |-> a.start, run |-> run]
           b == IF a.start
                THEN [a EXCEPT !.address = Head(mosi) \div 8, !.start = FALSE]
                ELSE [a EXCEPT !.converted = a.address, !.start = TRUE]
           States == [converted : Channels, address : Channels, start : BOOLEAN]
<1>1. /\ ScriptOK /\ BoardOK /\ FramesWhole /\ RoomLeft /\ ReadAll /\ InTry
      /\ CodesAreChannels
  BY DEF IInv
<1>2. /\ ~SpiIdle /\ adc' = [adc EXCEPT ![selected] = b]
      /\ miso' = Append(miso, r) /\ mosi' = Tail(mosi) /\ selected' = selected
  BY DEF Shift
<1>3. UNCHANGED <<script, run, row, try, pc, count, codes>>
  BY DEF Shift, host
<1>4. /\ selected \in Adcs /\ selected # 0 /\ mosi # <<>> /\ Len(mosi) \in Nat
      /\ Len(miso) \in Nat
  BY <1>2, Lengths DEF Adcs
<1>5. a \in States /\ adc \in [Adcs -> States] /\ run \in 0 .. MaxRestarts
      /\ mosi \in Seq({8 * c : c \in Channels}) /\ miso \in Seq(Received)
  BY <1>1, <1>4 DEF BoardOK, ScriptOK
<1>6. /\ Head(mosi) \in {8 * c : c \in Channels}
      /\ Tail(mosi) \in Seq({8 * c : c \in Channels})
      /\ Len(Tail(mosi)) = Len(mosi) - 1
  BY <1>4, <1>5, HeadTailProperties
<1>7. Head(mosi) \div 8 \in Channels
  <2>1. PICK c \in Channels : Head(mosi) = 8 * c
    BY <1>6
  <2>2. c \in Nat
    BY DEF Channels
  <2>3. (8 * c) \div 8 = c
    BY <2>2
  <2> QED
    BY <2>1, <2>3
<1>8. r \in Received
  BY <1>4, <1>5 DEF Received
<1>9. /\ Append(miso, r) \in Seq(Received) /\ Len(Append(miso, r)) = Len(miso) + 1
  BY <1>5, <1>8, AppendProperties
<1>10. b \in States /\ (b.start = TRUE <=> a.start = FALSE)
       /\ (b.start = TRUE => b.converted = b.address)
  <2>1. CASE a.start
    BY <1>5, <1>7, <2>1
  <2>2. CASE ~a.start
    BY <1>5, <2>2
  <2> QED
    BY <2>1, <2>2
<1>11. /\ adc' \in [Adcs -> States] /\ adc'[selected] = b
       /\ \A x \in Adcs : x # selected => adc'[x] = adc[x]
  BY <1>2, <1>4, <1>5, <1>10
<1>12. ScriptOK' /\ CodesAreChannels'
  BY <1>1, <1>3 DEF ScriptOK, CodesAreChannels
<1>13. BoardOK'
  BY <1>1, <1>2, <1>6, <1>9, <1>11 DEF BoardOK
<1>14. FramesWhole'
  <2>1. (Len(mosi') % 2 = 0) <=> ~(Len(mosi) % 2 = 0)
    <3>1. Len(mosi') = Len(mosi) - 1 /\ Len(mosi) # 0
      BY <1>2, <1>4, <1>5, <1>6, EmptySeq
    <3> QED
      BY <1>4, <3>1
  <2>2. a.start = TRUE <=> Len(mosi) % 2 = 0
    BY <1>1, <1>4 DEF FramesWhole
  <2>3. b.start = TRUE <=> Len(mosi') % 2 = 0
    BY <1>5, <1>10, <2>1, <2>2
  <2>4. \A x \in Adcs : x # selected' => adc'[x].start = TRUE
    BY <1>1, <1>2, <1>11 DEF FramesWhole
  <2>5. \A x \in Adcs : adc'[x].start = TRUE => adc'[x].converted = adc'[x].address
    BY <1>1, <1>10, <1>11 DEF FramesWhole
  <2> QED
    BY <1>2, <1>4, <1>11, <2>3, <2>4, <2>5 DEF FramesWhole
<1>15. RoomLeft'
  <2>1. Left' = Left
    BY <1>2, <1>4, <1>6, <1>9 DEF Left
  <2> QED
    BY <1>1, <1>3, <2>1 DEF RoomLeft
<1>16. ReadAll'
  BY <1>1, <1>2, <1>3, <1>4, SameTry DEF ReadAll
<1>17. InTry'
  <2> SUFFICES ASSUME Nth >= 1
               PROVE  InTry'
    BY <1>3, SameTry DEF InTry
  <2>1. pc \notin {"deselect", "write", "read"}
    BY <1>1, <1>4 DEF InTry, BeforeWrite, Sent
  <2>2. CASE pc \in {"select", "count"}
    <3>1. PICK x \in Channels : Settled(x) /\ (Unsent(x) \/ Half(x) \/ Sent(x))
      BY <1>1, <2>2 DEF InTry
    <3>2. Settled(x)'
      BY <1>3, <3>1, SameTry DEF Settled
    <3>3. selected = AdcNow
      BY <1>1, <1>4, <3>1 DEF Unsent, Half, Sent
    <3>4. ChannelNow \in Channels
      BY <1>1, Now
    <3>5. CASE Unsent(x)
      <4>1. a.start = TRUE /\ a.converted = x /\ mosi = <<ChannelNow * 8, 0>> /\ miso = <<>>
        BY <3>3, <3>5 DEF Unsent
      <4>2. Head(mosi) \div 8 = ChannelNow /\ Tail(mosi) = <<0>>
        <5>1. (ChannelNow * 8) \div 8 = ChannelNow
          BY <3>4 DEF Channels
        <5>2. Head(mosi) = ChannelNow * 8 /\ Tail(mosi) = <<0>>
          BY <4>1
        <5> QED
          BY <5>1, <5>2
      <4>3. b.start = FALSE /\ b.address = ChannelNow /\ b.converted = x
        BY <1>5, <4>1, <4>2
      <4>4. r = Answer(TRUE, x)
        BY <3>3, <4>1 DEF Answer
      <4>5. miso' = <<Answer(TRUE, x)>>
        BY <1>2, <4>1, <4>4
      <4>6. Answer(TRUE, x)' = Answer(TRUE, x)
        BY <1>3, SameTry DEF Answer
      <4>7. Half(x)'
        BY <1>2, <1>3, <1>11, <3>3, <4>2, <4>3, <4>5, <4>6, SameTry DEF Half
      <4> QED
        BY <1>2, <1>3, <2>2, <3>2, <3>3, <4>7, SameTry DEF InTry
    <3>6. CASE Half(x)
      <4>1. /\ a.start = FALSE /\ a.converted = x /\ a.address = ChannelNow
            /\ mosi = <<0>> /\ miso = <<Answer(TRUE, x)>>
        BY <3>3, <3>6 DEF Half
      <4>2. Tail(mosi) = <<>>
        BY <4>1
      <4>3. b.start = TRUE /\ b.converted = ChannelNow
        BY <1>5, <4>1
      <4>4. r = Answer(FALSE, x)
        BY <3>3, <4>1 DEF Answer
      <4>5. miso' = <<Answer(TRUE, x), Answer(FALSE, x)>>
        <5>1. miso' = Append(<<Answer(TRUE, x)>>, Answer(FALSE, x))
          BY <1>2, <4>1, <4>4
        <5> QED
          BY <5>1, AppendToOne
      <4>6. Answer(TRUE, x)' = Answer(TRUE, x) /\ Answer(FALSE, x)' = Answer(FALSE, x)
        BY <1>3, SameTry DEF Answer
      <4>7. Sent(x)'
        BY <1>2, <1>3, <1>11, <3>3, <4>2, <4>3, <4>5, <4>6, SameTry DEF Sent
      <4> QED
        BY <1>2, <1>3, <2>2, <3>2, <3>3, <4>7, SameTry DEF InTry
    <3> QED
      BY <1>4, <3>1, <3>5, <3>6 DEF Sent
  <2>3. CASE pc \in {"done", "dead"}
    BY <1>3, <2>3 DEF InTry
  <2> QED
    BY <1>1, <2>1, <2>2, <2>3 DEF ScriptOK
<1> QED
  BY <1>12, <1>13, <1>14, <1>15, <1>16, <1>17 DEF IInv

-----------------------------------------------------------------------------
(* The accesses of a script.                                               *)

LEMMA DeselectStep ==
    ASSUME HousekeepingAssumption, RoomForKilled, IInv, Deselect
    PROVE  IInv'
<1>1. /\ ScriptOK /\ BoardOK /\ FramesWhole /\ RoomLeft /\ InTry /\ CodesAreChannels
  BY DEF IInv
<1>2. /\ SpiIdle /\ pc = "deselect" /\ pc' = "write" /\ selected' = 0
      /\ UNCHANGED <<mosi, miso, script, run, row, try, count, codes>>
  BY DEF Deselect, Access, selectADC
<1>3. adc' = adc /\ Len(mosi) % 2 = 0 /\ \A a \in Adcs : adc[a].start = TRUE
  BY <1>2, IdleFrames DEF Deselect, selectADC
<1>4. ScriptOK' /\ BoardOK'
  <2>1. 0 \in 0 .. NumAdcs
    BY DEF HousekeepingAssumption
  <2> QED
    BY <1>1, <1>2, <1>3, <2>1 DEF ScriptOK, BoardOK
<1>5. FramesWhole' /\ RoomLeft' /\ CodesAreChannels' /\ ReadAll'
  BY <1>1, <1>2, <1>3 DEF FramesWhole, RoomLeft, Left, CodesAreChannels, ReadAll
<1>6. InTry'
  <2>1. ASSUME Nth >= 1
        PROVE  BeforeWrite'
    <3>1. BeforeWrite
      BY <1>1, <1>2, <2>1 DEF InTry
    <3> QED
      BY <1>2, <1>3, <3>1, SameTry DEF BeforeWrite, Settled
  <2> QED
    BY <1>2, <2>1, SameTry DEF InTry
<1> QED
  BY <1>4, <1>5, <1>6 DEF IInv

LEMMA WriteStep ==
    ASSUME HousekeepingAssumption, RoomForKilled, IInv, Write
    PROVE  IInv'
<1> DEFINE Bytes == {8 * c : c \in Channels}
           frame == <<ChannelNow * 8, 0>>
           all == mosi \o frame
<1>1. /\ ScriptOK /\ BoardOK /\ FramesWhole /\ RoomLeft /\ InTry /\ CodesAreChannels
  BY DEF IInv
<1>2. /\ SpiIdle /\ pc = "write" /\ pc' = "select"
      /\ mosi' = SubSeq(all, 1, IF Len(all) > FifoDepth THEN FifoDepth ELSE Len(all))
      /\ UNCHANGED <<selected, miso, adc, script, run, row, try, count, codes>>
  BY DEF Write, Access, ChannelNow
<1>3. Len(mosi) % 2 = 0 /\ \A a \in Adcs : adc[a].start = TRUE
  BY <1>2, IdleFrames
<1>4. AdcNow \in Adcs /\ ChannelNow \in Channels
  BY <1>1, Now
<1>5. frame \in Seq(Bytes) /\ Len(frame) = 2 /\ mosi \in Seq(Bytes)
  <2>1. ChannelNow * 8 = 8 * ChannelNow /\ 0 = 8 * 0 /\ 0 \in Channels
    BY <1>4 DEF Channels, HousekeepingAssumption
  <2>2. ChannelNow * 8 \in Bytes /\ 0 \in Bytes
    BY <1>4, <2>1
  <2> HIDE DEF Bytes
  <2>3. frame \in Seq(Bytes) /\ Len(frame) = 2
    BY <2>2
  <2> QED
    BY <1>1, <2>3 DEF BoardOK, Bytes
<1> HIDE DEF Bytes, frame
<1>6. all \in Seq(Bytes) /\ Len(all) = Len(mosi) + 2 /\ Len(mosi) \in Nat /\ Len(miso) \in Nat
  <2>1. all \in Seq(Bytes) /\ Len(all) = Len(mosi) + Len(frame)
    BY <1>5, ConcatProperties
  <2> HIDE DEF all
  <2> QED
    BY <1>5, <2>1, Lengths
<1> HIDE DEF all
<1>7. Len(mosi) + Len(miso) <= 2 * run /\ run \in Nat
  BY <1>1, <1>2, Lengths DEF RoomLeft, Left
<1>8. mosi' = all
  <2>1. Len(all) <= FifoDepth
    BY <1>6, <1>7, Lengths
  <2>2. mosi' = SubSeq(all, 1, Len(all))
    BY <1>2, <1>6, <2>1, Lengths
  <2> QED
    BY <1>6, <2>2, SubSeqFull
<1>9. ScriptOK' /\ CodesAreChannels' /\ ReadAll'
  BY <1>1, <1>2 DEF ScriptOK, CodesAreChannels, ReadAll
<1>10. BoardOK'
  BY <1>1, <1>2, <1>6, <1>8 DEF BoardOK, Bytes
<1>11. FramesWhole'
  <2>1. Len(mosi') % 2 = 0
    <3>1. \A k \in Nat : k % 2 = 0 => (k + 2) % 2 = 0
      OBVIOUS
    <3> QED
      BY <1>3, <1>6, <1>8, <3>1
  <2> QED
    BY <1>1, <1>2, <1>3, <2>1 DEF FramesWhole, BoardOK, Adcs
<1>12. RoomLeft'
  <2>1. Left' = Len(mosi) + 2 + Len(miso)
    BY <1>2, <1>6, <1>8 DEF Left
  <2> QED
    BY <1>2, <1>6, <1>7, <2>1 DEF RoomLeft
<1>13. InTry'
  <2>1. ASSUME Nth >= 1
        PROVE  \E x \in Channels : Settled(x)' /\ Unsent(x)'
    <3>1. BeforeWrite
      BY <1>1, <1>2, <2>1 DEF InTry
    <3>2. mosi' = <<ChannelNow * 8, 0>>
      BY <1>5, <1>8, <3>1, ConcatEmptySeq DEF BeforeWrite, frame, all
    <3>3. PICK x \in Channels : x = adc[AdcNow].converted
      BY <1>1, <1>4 DEF BoardOK
    <3>4. Settled(x)
      BY <3>1, <3>3 DEF BeforeWrite
    <3>5. Settled(x)' /\ Unsent(x)'
      BY <1>2, <1>3, <1>4, <3>1, <3>2, <3>3, <3>4, SameTry DEF BeforeWrite, Unsent, Settled
    <3> QED
      BY <3>5
  <2> QED
    BY <1>2, <2>1, SameTry DEF InTry
<1> QED
  BY <1>9, <1>10, <1>11, <1>12, <1>13 DEF IInv

LEMMA SelectStep ==
    ASSUME HousekeepingAssumption, RoomForKilled, IInv, Select
    PROVE  IInv'
<1>1. /\ ScriptOK /\ BoardOK /\ FramesWhole /\ RoomLeft /\ InTry /\ CodesAreChannels
  BY DEF IInv
<1>2. /\ SpiIdle /\ pc = "select" /\ pc' = "count" /\ selected' = AdcNow
      /\ UNCHANGED <<mosi, miso, script, run, row, try, count, codes>>
  BY DEF Select, Access, selectADC, AdcNow
<1>3. adc' = adc /\ Len(mosi) % 2 = 0 /\ \A a \in Adcs : adc[a].start = TRUE
  BY <1>2, IdleFrames DEF Select, selectADC
<1>4. AdcNow \in Adcs
  BY <1>1, Now
<1>5. ScriptOK' /\ BoardOK'
  BY <1>1, <1>2, <1>3, <1>4 DEF ScriptOK, BoardOK, Adcs
<1>6. FramesWhole' /\ RoomLeft' /\ CodesAreChannels'
  BY <1>1, <1>2, <1>3, <1>4 DEF FramesWhole, RoomLeft, Left, CodesAreChannels
<1>7. ReadAll'
  BY <1>2, SameTry DEF ReadAll
<1>8. InTry'
  <2>1. ASSUME Nth >= 1
        PROVE  \E x \in Channels : Settled(x)' /\ (Unsent(x)' \/ Sent(x)')
    <3>1. PICK x \in Channels : Settled(x) /\ (Unsent(x) \/ Half(x) \/ Sent(x))
      BY <1>1, <1>2, <2>1 DEF InTry
    <3>2. Settled(x)'
      BY <1>2, <3>1, SameTry DEF Settled
    <3>3. ~Half(x)
      <4>1. AdcNow # 0 /\ <<0>> # <<>>
        BY <1>4 DEF Adcs
      <4> QED
        BY <1>2, <4>1, Lengths DEF Half
    <3>4. Unsent(x) => Unsent(x)'
      BY <1>2, <1>3, SameTry DEF Unsent
    <3>5. Sent(x) => Sent(x)'
      BY <1>2, <1>3, SameTry DEF Sent, Answer
    <3> QED
      BY <3>1, <3>2, <3>3, <3>4, <3>5
  <2> QED
    BY <1>2, <2>1, SameTry DEF InTry
<1> QED
  BY <1>5, <1>6, <1>7, <1>8 DEF IInv

LEMMA CountStep ==
    ASSUME HousekeepingAssumption, RoomForKilled, IInv, Count
    PROVE  IInv'
<1>1. /\ ScriptOK /\ BoardOK /\ FramesWhole /\ RoomLeft /\ ReadAll /\ InTry
      /\ CodesAreChannels
  BY DEF IInv
<1>2. /\ SpiIdle /\ pc = "count" /\ pc' \in {"dead", "read"} /\ count' = Len(miso)
      /\ UNCHANGED <<selected, mosi, miso, adc, script, run, row, try, codes>>
  BY DEF Count, Access, board
<1>3. AdcNow \in Adcs /\ selected = AdcNow /\ mosi = <<>> /\ Len(miso) \in Nat
  BY <1>1, <1>2, Now, Lengths DEF ReadAll, Adcs
<1>4. ScriptOK' /\ BoardOK' /\ FramesWhole' /\ RoomLeft' /\ CodesAreChannels'
  BY <1>1, <1>2, <1>3 DEF ScriptOK, BoardOK, FramesWhole, RoomLeft, Left, CodesAreChannels
<1>5. ReadAll'
  BY <1>2, <1>3, SameTry DEF ReadAll
<1>6. InTry'
  <2>1. ASSUME Nth >= 1
        PROVE  \E x \in Channels : Settled(x)' /\ Sent(x)'
    <3>1. PICK x \in Channels : Settled(x) /\ (Unsent(x) \/ Half(x) \/ Sent(x))
      BY <1>1, <1>2, <2>1 DEF InTry
    <3>2. Settled(x)'
      BY <1>2, <3>1, SameTry DEF Settled
    <3>3. Sent(x)
      BY <1>3, <3>1 DEF Unsent, Half
    <3>4. Sent(x)'
      BY <1>2, <3>3, SameTry DEF Sent, Answer
    <3> QED
      BY <3>2, <3>4
  <2> QED
    BY <1>2, <2>1, SameTry DEF InTry
<1> QED
  BY <1>4, <1>5, <1>6 DEF IInv

(* What the last try of a reading returns.                                 *)
LEMMA KeptBytes ==
    ASSUME HousekeepingAssumption, IInv, pc = "read", Current.kept
    PROVE  SubSeq(miso, 1, count) =
              [k \in 1 .. 2 |-> [reading |-> Current.reading, high |-> k = 1, run |-> run]]
<1>1. /\ Current.reading = <<AdcNow, ChannelNow>> /\ Nth >= 2 /\ Nth \in Nat
  BY Now DEF IInv
<1>2. PICK x \in Channels : Settled(x) /\ Sent(x)
  BY <1>1 DEF IInv, InTry
<1>3. x = ChannelNow
  BY <1>1, <1>2 DEF Settled
<1> DEFINE hi == Answer(TRUE, ChannelNow)
           lo == Answer(FALSE, ChannelNow)
<1>4. miso = <<hi, lo>> /\ count = Len(miso)
  BY <1>2, <1>3 DEF Sent, IInv, ReadAll
<1>5. /\ hi = [reading |-> Current.reading, high |-> TRUE, run |-> run]
      /\ lo = [reading |-> Current.reading, high |-> FALSE, run |-> run]
  BY <1>1 DEF Answer
<1> HIDE DEF hi, lo
<1>6. SubSeq(miso, 1, count) = <<hi, lo>>
  <2>1. <<hi, lo>> \in Seq({hi, lo})
    OBVIOUS
  <2> QED
    BY <1>4, <2>1, SubSeqFull
<1> DEFINE code == [k \in 1 .. 2 |->
                       [reading |-> Current.reading, high |-> k = 1, run |-> run]]
<1>7. code[1] = hi /\ code[2] = lo
  <2>1. (1 = 1) = TRUE /\ (2 = 1) = FALSE
    OBVIOUS
  <2>2. /\ code[1] = [reading |-> Current.reading, high |-> 1 = 1, run |-> run]
        /\ code[2] = [reading |-> Current.reading, high |-> 2 = 1, run |-> run]
    OBVIOUS
  <2> HIDE DEF code
  <2> QED
    BY <1>5, <2>1, <2>2
<1>8. code = [k \in 1 .. 2 |-> <<hi, lo>>[k]]
  <2>1. \A k \in 1 .. 2 : code[k] = <<hi, lo>>[k]
    <3>1. \A k \in 1 .. 2 : k = 1 \/ k = 2
      OBVIOUS
    <3>2. <<hi, lo>>[1] = hi /\ <<hi, lo>>[2] = lo
      OBVIOUS
    <3> HIDE DEF code
    <3> QED
      BY <1>7, <3>1, <3>2
  <2>2. code = [k \in 1 .. 2 |-> code[k]]
    OBVIOUS
  <2> HIDE DEF code
  <2> QED
    BY <2>1, <2>2
<1>9. <<hi, lo>> = [k \in 1 .. 2 |-> <<hi, lo>>[k]]
  OBVIOUS
<1> HIDE DEF code
<1>10. code = <<hi, lo>>
  BY <1>8, <1>9
<1> QED
  BY <1>6, <1>10 DEF code

LEMMA ReadStep ==
    ASSUME HousekeepingAssumption, RoomForKilled, IInv, Read
    PROVE  IInv'
<1>1. /\ ScriptOK /\ BoardOK /\ FramesWhole /\ RoomLeft /\ ReadAll /\ InTry
      /\ CodesAreChannels
  BY DEF IInv
<1>2. /\ pc = "read" /\ pc' \in {"done", "deselect", "write", "dead"}
      /\ miso' = SubSeq(miso, count + 1, Len(miso))
      /\ codes' = IF Current.kept
                  THEN [r \in {Current.reading} \cup DOMAIN codes |->
                           IF r = Current.reading THEN SubSeq(miso, 1, count) ELSE codes[r]]
                  ELSE codes
      /\ try' = IF try = Len(TriesOf[script]) THEN 1 ELSE try + 1
      /\ row' = row \/ row' = row + 1
      /\ UNCHANGED <<selected, mosi, adc, script, run, count>>
  BY DEF Read, FirstStep, Kept
<1>3. selected = AdcNow /\ mosi = <<>> /\ count = Len(miso) /\ Len(miso) \in Nat
  BY <1>1, <1>2, Lengths DEF ReadAll
<1>4. miso' = <<>>
  <2>1. miso \in Seq(Received) /\ count + 1 > Len(miso)
    BY <1>1, <1>3 DEF BoardOK
  <2> QED
    BY <1>2, <1>3, <2>1
<1>5. /\ try' \in DOMAIN TriesOf[script']
      /\ \/ Nth' = 0
         \/ Nth' = Nth + 1 /\ AdcNow' = AdcNow /\ ChannelNow' = ChannelNow
  BY <1>1, <1>2, NextTry
<1>6. ScriptOK'
  <2>1. row' \in Nat
    BY <1>1, <1>2 DEF ScriptOK
  <2> QED
    BY <1>1, <1>2, <1>5, <2>1 DEF ScriptOK
<1>7. BoardOK' /\ FramesWhole' /\ ReadAll'
  BY <1>1, <1>2, <1>4 DEF BoardOK, FramesWhole, ReadAll
<1>8. RoomLeft'
  <2>1. Left' = 0
    <3>1. mosi' = <<>> /\ miso' = <<>>
      BY <1>2, <1>3, <1>4
    <3> QED
      BY <3>1 DEF Left
  <2> QED
    BY <1>2, <2>1, Lengths DEF RoomLeft
<1>9. InTry'
  <2>1. CASE Nth' = 0
    BY <2>1 DEF InTry
  <2>2. CASE Nth' = Nth + 1 /\ AdcNow' = AdcNow /\ ChannelNow' = ChannelNow
    <3>1. Nth \in Nat
      BY <1>1, Now
    <3>2. Settled(adc[AdcNow].converted)'
      <4>1. ASSUME Nth' >= 2
            PROVE  adc[AdcNow].converted = ChannelNow
        <5>1. Nth >= 1
          BY <2>2, <3>1, <4>1
        <5> QED
          BY <1>1, <1>2, <5>1 DEF InTry, Sent
      <4> QED
        BY <1>2, <2>2, <4>1 DEF Settled
    <3>3. BeforeWrite'
      BY <1>2, <1>3, <1>4, <2>2, <3>2 DEF BeforeWrite
    <3> QED
      BY <1>2, <3>3 DEF InTry
  <2> QED
    BY <1>5, <2>1, <2>2
<1>10. CodesAreChannels'
  <2>1. CASE Current.kept
    <3> DEFINE k == Current.reading
               kept == SubSeq(miso, 1, count)
    <3>1. kept = [i \in 1 .. 2 |-> [reading |-> k, high |-> i = 1, run |-> run]]
      BY <1>2, <2>1, KeptBytes
    <3>2. codes' = [r \in {k} \cup DOMAIN codes |-> IF r = k THEN kept ELSE codes[r]]
      BY <1>2, <2>1
    <3> HIDE DEF k, kept
    <3>3. /\ DOMAIN codes' = {k} \cup DOMAIN codes
          /\ codes'[k] = kept
          /\ \A r \in DOMAIN codes : r # k => codes'[r] = codes[r]
      BY <3>2
    <3> QED
      BY <1>1, <1>2, <3>1, <3>3 DEF CodesAreChannels
  <2>2. CASE ~Current.kept
    BY <1>1, <1>2, <2>2 DEF CodesAreChannels
  <2> QED
    BY <2>1, <2>2
<1> QED
  BY <1>6, <1>7, <1>8, <1>9, <1>10 DEF IInv

-----------------------------------------------------------------------------

(* Where a script starts.                                                  *)
LEMMA Started ==
    ASSUME HousekeepingAssumption, NEW s \in Scripts
    PROVE  /\ FirstStep(s) \in {"deselect", "write"}
           /\ 1 \in DOMAIN TriesOf[s]
           /\ (1 - 1) % TriesPerReading[s] = 0
<1>1. s \in {"hk_loop", "tripple"}
  BY DEF HousekeepingAssumption
<1>2. NumReadings \in Nat /\ NumReadings >= 1
  BY ReadingsCount
<1>3. PICK n \in {3, 6} : n = TriesPerReading[s] /\ TriesOf[s] = Tries(n)
  BY <1>1 DEF TriesPerReading, TriesOf, hk_loop, get_hk_row_tripple
<1>4. 1 \in 1 .. n * NumReadings
  BY <1>2
<1>5. 1 \in DOMAIN TriesOf[s]
  BY <1>3, <1>4 DEF Tries
<1>6. (1 - 1) % TriesPerReading[s] = 0
  BY <1>3
<1> QED
  BY <1>5, <1>6 DEF FirstStep

LEMMA RestartStep ==
    ASSUME HousekeepingAssumption, RoomForKilled, IInv, Restart
    PROVE  IInv'
<1>1. ScriptOK /\ BoardOK /\ FramesWhole /\ RoomLeft
  BY DEF IInv
<1>2. /\ run < MaxRestarts /\ run' = run + 1 /\ script' \in Scripts
      /\ pc' = FirstStep(script') /\ row' = 1 /\ try' = 1 /\ count' = 0 /\ codes' = <<>>
      /\ UNCHANGED <<selected, mosi, miso, adc>>
  BY DEF Restart, board
<1>3. /\ pc' \in {"deselect", "write"} /\ try' \in DOMAIN TriesOf[script'] /\ Nth' = 0
  BY <1>2, Started DEF Nth
<1>4. ScriptOK'
  BY <1>1, <1>2, <1>3 DEF ScriptOK, HousekeepingAssumption
<1>5. BoardOK' /\ FramesWhole'
  BY <1>1, <1>2 DEF BoardOK, FramesWhole
<1>6. RoomLeft'
  <2>1. Left' = Left /\ Left <= 2 * run + 2 /\ run \in Nat
    BY <1>1, <1>2, Lengths DEF Left, RoomLeft
  <2>2. Left \in Nat
    BY Lengths DEF Left
  <2> QED
    BY <1>2, <2>1, <2>2 DEF RoomLeft
<1>7. CodesAreChannels' /\ ReadAll' /\ InTry'
  BY <1>2, <1>3 DEF CodesAreChannels, ReadAll, InTry
<1> QED
  BY <1>4, <1>5, <1>6, <1>7 DEF IInv

LEMMA Initially ==
    ASSUME HousekeepingAssumption, Init
    PROVE  IInv
<1>1. /\ script \in Scripts /\ pc = FirstStep(script) /\ run = 0 /\ row = 1 /\ try = 1
      /\ count = 0 /\ codes = <<>> /\ selected = 0 /\ mosi = <<>> /\ miso = <<>>
      /\ adc = [a \in Adcs |-> [converted |-> 0, address |-> 0, start |-> TRUE]]
  BY DEF Init
<1>2. /\ pc \in {"deselect", "write"} /\ try \in DOMAIN TriesOf[script] /\ Nth = 0
  BY <1>1, Started DEF Nth
<1>3. ScriptOK
  BY <1>1, <1>2 DEF ScriptOK, HousekeepingAssumption
<1>4. BoardOK
  <2>1. 0 \in Channels /\ 0 \in 0 .. NumAdcs
    BY DEF Channels, HousekeepingAssumption
  <2> QED
    BY <1>1, <2>1 DEF BoardOK
<1>5. FramesWhole /\ RoomLeft
  <2>1. Len(mosi) = 0 /\ Len(miso) = 0
    BY <1>1
  <2> QED
    BY <1>1, <2>1 DEF FramesWhole, RoomLeft, Left
<1>6. CodesAreChannels /\ ReadAll /\ InTry
  BY <1>1, <1>2 DEF CodesAreChannels, ReadAll, InTry
<1> QED
  BY <1>3, <1>4, <1>5, <1>6 DEF IInv

LEMMA Stutter ==
    ASSUME IInv, UNCHANGED vars
    PROVE  IInv'
BY SameTry DEF IInv, vars, host, board, ScriptOK, BoardOK, FramesWhole, RoomLeft, Left,
   ReadAll, InTry, BeforeWrite, Settled, Unsent, Half, Sent, Answer, CodesAreChannels

(* Whatever two kinds of script are killed at whatever access, and however *)
(* often, every code a script keeps is the conversion of the channel it    *)
(* stands for, taken by that script: as long as the FIFOs hold one frame   *)
(* for every script that was started.                                      *)
THEOREM CodesStayChannels ==
    ASSUME RoomForKilled
    PROVE  Spec => []CodesAreChannels
<1>1. Init => IInv
  BY HousekeepingAssumption, Initially
<1>2. IInv /\ [Next]_vars => IInv'
  BY HousekeepingAssumption, DeselectStep, WriteStep, SelectStep, CountStep, ReadStep,
     ShiftStep, RestartStep, Stutter DEF Next, Script
<1>3. IInv => CodesAreChannels
  BY DEF IInv
<1> QED
  BY <1>1, <1>2, <1>3, PTL DEF Spec

=============================================================================
