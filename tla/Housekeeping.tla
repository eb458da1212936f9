---------------------------- MODULE Housekeeping ----------------------------
(***************************************************************************)
(* The scripts that read the housekeeping ADCs (sw/scripts/hk_loop.py and  *)
(* sw/scripts/housekeeping_to_csv.py) and the part of the firmware they    *)
(* use: a FIFO of bytes to send, an SPI master that sends while an ADC is  *)
(* selected, and a FIFO of received bytes.                                 *)
(*                                                                         *)
(* The ADCs are pipelined: a frame of two bytes addresses a channel and    *)
(* returns the conversion of the channel that was addressed before it.     *)
(* The scripts never empty the FIFOs and may be killed at any access, so   *)
(* that the next one finds bytes that are not its own.                     *)
(***************************************************************************)
EXTENDS Integers, Sequences

CONSTANTS NumAdcs, NumChannels,
          FifoDepth,   \* bytes a FIFO holds
          Scripts,     \* of {"hk_loop", "tripple"}
          MaxRows,     \* bound on the rows housekeeping_to_csv writes
          MaxRestarts, \* bound on the scripts that are killed
          RootTaken    \* readings whose conversion takes a square root

ASSUME HousekeepingAssumption ==
    /\ NumAdcs \in Nat \ {0} /\ NumChannels \in Nat \ {0}
    /\ FifoDepth \in Nat \ {0}
    /\ Scripts \subseteq {"hk_loop", "tripple"}
    /\ MaxRows \in Nat \ {0} /\ MaxRestarts \in Nat

Adcs     == 1 .. NumAdcs
Channels == 0 .. NumChannels - 1

VARIABLES script, run,
          row, try,   \* where the script is
          pc,         \* its next access
          count,      \* adcBytesCount
          codes,      \* readout_codes, as bytes
          selected,   \* hk_ctrl, 0 for no ADC
          mosi, miso,
          adc         \* of each ADC: the channel that is converted, the one
                      \* addressed last, and if the next byte starts a frame

host  == <<script, run, row, try, pc, count, codes>>
board == <<selected, mosi, miso, adc>>
vars  == <<host, board>>

-----------------------------------------------------------------------------
(* The firmware and the ADCs.                                              *)

(* An SPI byte takes microseconds and an access of the host hundreds.      *)
SpiIdle == selected = 0 \/ mosi = <<>> \/ Len(miso) = FifoDepth

Shift ==
    /\ ~SpiIdle
    /\ LET a == adc[selected] IN
       /\ adc' = [adc EXCEPT ![selected] =
                     IF a.start
                     THEN [a EXCEPT !.address = Head(mosi) \div 8, !.start = FALSE]
                     ELSE [a EXCEPT !.converted = a.address, !.start = TRUE]]
       /\ miso' = Append(miso, [reading |-> <<selected, a.converted>>, high |-> a.start,
                                run |-> run])
    /\ mosi' = Tail(mosi)
    /\ UNCHANGED <<host, selected>>

(* A chip select that rises ends the frame.                                *)
FramesEnded(n) ==
    IF selected \in {0, n} THEN adc
    ELSE [adc EXCEPT ![selected].converted = adc[selected].address, ![selected].start = TRUE]

selectADC(n) == selected' = n /\ adc' = FramesEnded(n)

-----------------------------------------------------------------------------
(* The scripts: a row is a sequence of tries, of which some are kept.      *)

NumReadings == NumAdcs * NumChannels

Readings == [n \in 1 .. NumReadings |->
                <<(n - 1) \div NumChannels + 1, (n - 1) % NumChannels>>]

(* n tries of each reading, of which the last is kept.                     *)
Tries(n) ==
    [t \in 1 .. n * NumReadings |->
        [reading |-> Readings[(t - 1) \div n + 1], kept |-> t % n = 0]]

hk_loop == Tries(3)

(* Mutated form of get_hk_row_tripple: the first try is kept.              *)
get_hk_row_once == Tries(1)

get_hk_row_tripple == Tries(6)

TriesOf == [hk_loop |-> hk_loop, tripple |-> get_hk_row_tripple]

Current == TriesOf[script][try]

(* Only hk_loop deselects the ADC before it writes.                        *)
FirstStep(s) == IF s = "hk_loop" THEN "deselect" ELSE "write"

Access(from, to) == SpiIdle /\ pc = from /\ pc' = to

Deselect ==
    /\ Access("deselect", "write")
    /\ selectADC(0)
    /\ UNCHANGED <<mosi, miso, script, run, row, try, count, codes>>

(* What finds no room in the FIFO is lost.                                 *)
Write ==
    /\ Access("write", "select")
    /\ LET all == mosi \o <<Current.reading[2] * 8, 0>>
       IN mosi' = SubSeq(all, 1, IF Len(all) > FifoDepth THEN FifoDepth ELSE Len(all))
    /\ UNCHANGED <<selected, miso, adc, script, run, row, try, count, codes>>

Select ==
    /\ Access("select", "count")
    /\ selectADC(Current.reading[1])
    /\ UNCHANGED <<mosi, miso, script, run, row, try, count, codes>>

(* A read of no bytes is a read of 65536 (RfgProtocol).                    *)
Count ==
    /\ Access("count", IF miso = <<>> THEN "dead" ELSE "read")
    /\ count' = Len(miso)
    /\ UNCHANGED <<board, script, run, row, try, codes>>

Rows == IF script = "hk_loop" THEN 1 ELSE MaxRows

(* The code of the current reading joins, or replaces, those of the row.   *)
Kept(adcBytes) ==
    [r \in {Current.reading} \cup DOMAIN codes |->
        IF r = Current.reading THEN adcBytes ELSE codes[r]]

(* Mutated form of Read: the line number does not advance.                 *)
ReadSameRow ==
    /\ pc = "read" /\ SpiIdle
    /\ miso' = SubSeq(miso, count + 1, Len(miso))
    /\ codes' = IF Current.kept THEN Kept(SubSeq(miso, 1, count)) ELSE codes
    /\ pc' = IF try = Len(TriesOf[script]) /\ row = Rows THEN "done" ELSE FirstStep(script)
    /\ try' = IF try = Len(TriesOf[script]) THEN 1 ELSE try + 1
    /\ UNCHANGED <<selected, mosi, adc, script, run, row, count>>

(* A count other than 2 is reported and used all the same; the square root *)
(* of a negative number raises ValueError.                                 *)
Read ==
    /\ pc = "read" /\ SpiIdle
    /\ LET adcBytes == SubSeq(miso, 1, count)
           last == try = Len(TriesOf[script])
           next == IF last /\ row = Rows THEN "done" ELSE FirstStep(script)
           mayRaise == Current.kept /\ Current.reading \in RootTaken /\ count > 2
       IN /\ miso' = SubSeq(miso, count + 1, Len(miso))
          /\ codes' = IF Current.kept THEN Kept(adcBytes) ELSE codes
          /\ pc' \in {next} \cup IF mayRaise THEN {"dead"} ELSE {}
          /\ try' = IF last THEN 1 ELSE try + 1
          /\ row' = IF last /\ row < Rows THEN row + 1 ELSE row
    /\ UNCHANGED <<selected, mosi, adc, script, run, count>>

(* The script is killed, or ends, and one is started; the board goes on.   *)
Restart ==
    /\ run < MaxRestarts /\ run' = run + 1
    /\ \E s \in Scripts : script' = s /\ pc' = FirstStep(s)
    /\ row' = 1 /\ try' = 1 /\ count' = 0 /\ codes' = <<>>
    /\ UNCHANGED board

Script == Deselect \/ Write \/ Select \/ Count \/ Read

Init ==
    /\ script \in Scripts /\ pc = FirstStep(script)
    /\ run = 0 /\ row = 1 /\ try = 1 /\ count = 0 /\ codes = <<>>
    /\ selected = 0 /\ mosi = <<>> /\ miso = <<>>
    /\ adc = [a \in Adcs |-> [converted |-> 0, address |-> 0, start |-> TRUE]]

Next == Script \/ Shift \/ Restart

Spec == Init /\ [][Next]_vars /\ WF_vars(Script) /\ WF_vars(Shift)

-----------------------------------------------------------------------------
(* Properties.                                                             *)

(* Every code that is kept is the conversion of the channel of the ADC it  *)
(* stands for, and was taken by this script, whatever a script that was    *)
(* killed has left in the FIFOs and in the ADCs.                           *)
CodesAreChannels ==
    \A r \in DOMAIN codes :
        codes[r] = [k \in 1 .. 2 |-> [reading |-> r, high |-> k = 1, run |-> run]]

(* A script that is not killed ends, with a code for every channel.        *)
RowCompletes == <>[](pc = "done" /\ DOMAIN codes = Adcs \X Channels)

=============================================================================
