------------------------ MODULE MCAxisSwitchClock ------------------------
(***************************************************************************)
(* AxisSwitch in the layer readout: a clock that never stops, no reset,    *)
(* lane decoders at the pace astropix_spi_protocol_av1.sv sends a frame,   *)
(* and the frame FIFO (fifo_axis_1clk_1kD) at the sink, which is ready     *)
(* while it is not full and which the host reads.                          *)
(*                                                                         *)
(* A decoder offers the words of a frame on consecutive edges, except that *)
(* tvalid is low from one payload byte to the next for as long as the SPI  *)
(* takes to bring it: LanePause edges at least, with no upper bound, as    *)
(* between two frames.                                                     *)
(***************************************************************************)
EXTENDS MCAxisSwitch

CONSTANTS Loads,         \* lanes in use, and whether the host may read slowly
          PausesBefore,  \* the words of a frame that wait for a byte of the chip
          LanePause,     \* edges the SPI takes for a byte, at least
          FramesDepth    \* words of the frame FIFO

VARIABLES load, quiet, level

clockVars == <<vars, load, quiet, level>>

Waits(s) == sending[s].index \in PausesBefore \cup {1}

(* The lanes that hold tvalid high in this cycle: one whose next word is   *)
(* there must, one that waits for a byte may when it has waited enough.    *)
Offers ==
    {offer \in SUBSET load.lanes :
        \A s \in load.lanes :
            IF Waits(s) THEN s \in offer => quiet[s] = LanePause ELSE s \in offer}

Ready == IF load.slow_host /\ level = FramesDepth THEN {} ELSE Sink

Tick(offer, read) ==
    /\ read = 1 => level > 0
    /\ Clock(offer, Ready)
    /\ quiet' = [s \in Source |->
                    IF s \in offer /\ s_axis_tready(s) THEN 0
                    ELSE IF quiet[s] < LanePause THEN quiet[s] + 1
                    ELSE LanePause]
    /\ level' = IF load.slow_host THEN level + Cardinality(taken') - read ELSE 0
    /\ UNCHANGED load

(* The words no lane can hold back.                                        *)
Following == {s \in load.lanes : ~Waits(s)}

Edge       == \E offer \in Offers, read \in {0, 1} : Tick(offer, read)
Runs       == \E read \in {0, 1} : Tick(Following, read)
HostReads  == \E offer \in Offers : Tick(offer, 1)
Brings(s)  == \E offer \in Offers, read \in {0, 1} :
                 s \in offer /\ sending[s].index # 1 /\ Tick(offer, read)

ClockedInit ==
    /\ Init
    /\ load \in Loads
    /\ quiet = [s \in Source |-> LanePause]
    /\ level = 0

(* clk never stops, which obliges no lane to send; the host goes on        *)
(* reading the frame FIFO; and a lane that has begun a frame gets the rest *)
(* of it: readout_active is only cleared in WAIT_FRAME, so the SPI goes on *)
(* bringing bytes.                                                         *)
ClockedSpec ==
    /\ ClockedInit
    /\ [][Edge]_clockVars
    /\ WF_clockVars(Runs)
    /\ WF_clockVars(HostReads)
    /\ \A s \in Source : WF_clockVars(Brings(s))

-----------------------------------------------------------------------------
(* A frame of a chip of version 3: three words of header, four bytes from  *)
(* the chip, four words of time stamp.                                     *)
MCLaneFrame == MCAll(11)
MCPayload   == 4 .. 7

LoadsServed ==
    {[lanes |-> {s}, slow_host |-> TRUE] : s \in Source}
        \cup {[lanes |-> Source, slow_host |-> FALSE]}

LoadsStuck == {[lanes |-> Source, slow_host |-> TRUE]}

=============================================================================
