------------------------- MODULE AstropixProtocol -------------------------
(***************************************************************************)
(* rtl/layers/astropix_spi_protocol_av1.sv: finds sensor frames in the     *)
(* byte stream of one layer's SPI link and forwards each as                *)
(*   length, layer id, header, payload, four timestamp bytes               *)
(* with tlast on the last byte.  The low three bits of a header byte give  *)
(* the number of payload bytes; outside a frame the sensor sends IDLE.     *)
(*                                                                         *)
(* One step is one rising edge of clk.  The bytes the SPI master has       *)
(* received wait in miso, the FIFO before s_axis; the sink of m_axis is    *)
(* the AXIS switch.                                                        *)
(***************************************************************************)
EXTENDS Naturals, Sequences

CONSTANTS MaxLength,            \* longest payload of a frame (7 in the code)
          MisoDepth,            \* bytes that may wait in miso
          cfg_nodata_continue,
          Settings              \* the environments: sets of what holds

ASSUME ProtocolAssumption ==
    /\ MaxLength \in Nat \ {0} /\ MisoDepth \in Nat \ {0}
    /\ cfg_nodata_continue \in Nat
    /\ Settings \subseteq SUBSET {"paced", "stalls", "autonomous", "resets"}

State == {"WAIT_FRAME", "HEADER_LENGTH", "HEADER_ID", "RECEIVE", "FORWARD",
          "TIMESTAMP0", "TIMESTAMP1", "TIMESTAMP2", "TIMESTAMP3"}

(* A byte from the sensor: whether it has the value of IDLE_BYTE, its low  *)
(* bits, and which payload byte of its frame it is (0 for none).           *)
Byte == [idle : BOOLEAN, low : 0 .. MaxLength, pos : 0 .. MaxLength]

IDLE      == [idle |-> TRUE, low |-> 0, pos |-> 0]
Header(n) == [idle |-> FALSE, low |-> n, pos |-> 0]

(* A byte on m_axis: what it is, its value and its place.                  *)
Out(kind, low, pos) == [kind |-> kind, low |-> low, pos |-> pos]

Word == [kind : {"none", "length", "id", "byte", "stamp"},
         low : 0 .. MaxLength + 6, pos : 0 .. MaxLength + 3]

(* The values of cfg_frame_tag_counter, which counts on its own: enough to *)
(* tell two apart.                                                         *)
Tag == {0, 1}

VARIABLES
    protocol_state, s_axis_tready,
    m_axis_tdata, m_axis_tvalid, m_axis_tlast,
    receive_frame_length, frame_buffer, forward_frozen_timestamp,
    readout_active, nodata_continue_counter,
    stat_frame_detected, stat_idle_detected, status_frame_decoding,
    setting,    \* the environment this behaviour is in
    miso,       \* received bytes that wait for the decoder
    sensor,     \* the sensor: length of its frame and payload bytes sent
    frame       \* history: the words accepted since the last tlast

stats    == <<stat_frame_detected, stat_idle_detected, status_frame_decoding>>
readout  == <<readout_active, nodata_continue_counter>>
m_axis   == <<m_axis_tdata, m_axis_tvalid, m_axis_tlast>>
received == <<receive_frame_length, frame_buffer, forward_frozen_timestamp>>

vars == <<protocol_state, s_axis_tready, m_axis, received, readout, stats,
          setting, miso, sensor, frame>>

-----------------------------------------------------------------------------
(* The environment.                                                        *)

Paced        == "paced" \in setting       \* bytes come when they can be taken
SinkMayStall == "stalls" \in setting      \* m_axis_tready may drop
Autonomous   == "autonomous" \in setting  \* the interrupt alone drives the readout
MayReset     == "resets" \in setting      \* cfg_layer_reset may be pulsed

-----------------------------------------------------------------------------

slave_byte_valid == s_axis_tready /\ miso # <<>>
s_axis_tdata     == Head(miso)

Accepted(tready) == m_axis_tvalid /\ tready        \* master_byte_valid

HeaderAccepted ==
    protocol_state = "WAIT_FRAME" /\ slave_byte_valid /\ ~s_axis_tdata.idle

IdleAccepted ==
    protocol_state = "WAIT_FRAME" /\ slave_byte_valid /\ s_axis_tdata.idle

(* The interrupt starts the readout; between frames it goes on for as many *)
(* cycles as the counter says.                                             *)
Readout(interruptn, cfg_disable_autoread) ==
    IF ~interruptn /\ ~cfg_disable_autoread
    THEN /\ readout_active' = TRUE
         /\ nodata_continue_counter' = cfg_nodata_continue
    ELSE IF interruptn /\ protocol_state = "WAIT_FRAME"
    THEN IF nodata_continue_counter = 0
         THEN /\ readout_active' = FALSE
              /\ UNCHANGED nodata_continue_counter
         ELSE /\ nodata_continue_counter' = nodata_continue_counter - 1
              /\ UNCHANGED readout_active
    ELSE UNCHANGED readout

-----------------------------------------------------------------------------
(* The protocol states.                                                    *)

(* Mutated form of WaitFrame: the idle strobe is set and never cleared.    *)
WaitFrameKeepsIdle ==
    /\ protocol_state = "WAIT_FRAME"
    /\ m_axis_tlast' = FALSE
    /\ s_axis_tready' = ~HeaderAccepted
    /\ status_frame_decoding' = HeaderAccepted
    /\ IF HeaderAccepted
       THEN /\ protocol_state' = "HEADER_LENGTH"
            /\ receive_frame_length' = s_axis_tdata.low
            /\ frame_buffer' = s_axis_tdata
            /\ m_axis_tdata' = Out("length", s_axis_tdata.low + 6, 0)
            /\ m_axis_tvalid' = TRUE
            /\ stat_frame_detected' = TRUE
            /\ forward_frozen_timestamp' \in Tag
            /\ UNCHANGED stat_idle_detected
       ELSE /\ stat_idle_detected' = (stat_idle_detected \/ IdleAccepted)
            /\ UNCHANGED <<protocol_state, m_axis_tdata, m_axis_tvalid,
                           received, stat_frame_detected>>

WaitFrame ==
    /\ protocol_state = "WAIT_FRAME"
    /\ m_axis_tlast' = FALSE
    /\ s_axis_tready' = ~HeaderAccepted
    /\ status_frame_decoding' = HeaderAccepted
    /\ IF HeaderAccepted
       THEN /\ protocol_state' = "HEADER_LENGTH"
            /\ receive_frame_length' = s_axis_tdata.low
            /\ frame_buffer' = s_axis_tdata
            /\ m_axis_tdata' = Out("length", s_axis_tdata.low + 6, 0)
            /\ m_axis_tvalid' = TRUE
            /\ stat_frame_detected' = TRUE
            /\ forward_frozen_timestamp' \in Tag
            /\ UNCHANGED stat_idle_detected
       ELSE /\ stat_idle_detected' = IdleAccepted
            /\ UNCHANGED <<protocol_state, m_axis_tdata, m_axis_tvalid,
                           received, stat_frame_detected>>

(* Mutated form of HeaderLength: the frame strobe is left to FORWARD.      *)
HeaderLengthKeepsStrobe(tready) ==
    /\ protocol_state = "HEADER_LENGTH"
    /\ IF Accepted(tready)
       THEN /\ protocol_state' = "HEADER_ID"
            /\ m_axis_tdata' = Out("id", 0, 0)
       ELSE UNCHANGED <<protocol_state, m_axis_tdata>>
    /\ UNCHANGED <<s_axis_tready, m_axis_tvalid, m_axis_tlast, received, stats>>

HeaderLength(tready) ==
    /\ protocol_state = "HEADER_LENGTH"
    /\ stat_frame_detected' = FALSE
    /\ IF Accepted(tready)
       THEN /\ protocol_state' = "HEADER_ID"
            /\ m_axis_tdata' = Out("id", 0, 0)
       ELSE UNCHANGED <<protocol_state, m_axis_tdata>>
    /\ UNCHANGED <<s_axis_tready, m_axis_tvalid, m_axis_tlast, received,
                   stat_idle_detected, status_frame_decoding>>

(* Mutated form of HeaderId: it does not wait for the sink.                *)
HeaderIdUnwaited(tready) ==
    /\ protocol_state = "HEADER_ID"
    /\ protocol_state' = "FORWARD"
    /\ m_axis_tdata' = Out("byte", frame_buffer.low, frame_buffer.pos)
    /\ UNCHANGED <<s_axis_tready, m_axis_tvalid, m_axis_tlast, received, stats>>

HeaderId(tready) ==
    /\ protocol_state = "HEADER_ID"
    /\ IF Accepted(tready)
       THEN /\ protocol_state' = "FORWARD"
            /\ m_axis_tdata' = Out("byte", frame_buffer.low, frame_buffer.pos)
       ELSE UNCHANGED <<protocol_state, m_axis_tdata>>
    /\ UNCHANGED <<s_axis_tready, m_axis_tvalid, m_axis_tlast, received, stats>>

Forward(tready) ==
    /\ protocol_state = "FORWARD"
    /\ stat_frame_detected' = FALSE
    /\ IF ~Accepted(tready)
       THEN UNCHANGED <<protocol_state, m_axis, s_axis_tready>>
       ELSE /\ m_axis_tlast' = FALSE
            /\ IF receive_frame_length = 0
               THEN /\ protocol_state' = "TIMESTAMP0"
                    /\ m_axis_tvalid' = TRUE
                    /\ m_axis_tdata' = Out("stamp", forward_frozen_timestamp, 0)
                    /\ s_axis_tready' = FALSE
               ELSE /\ protocol_state' = "RECEIVE"
                    /\ m_axis_tvalid' = FALSE
                    /\ s_axis_tready' = TRUE
                    /\ UNCHANGED m_axis_tdata
    /\ UNCHANGED <<received, stat_idle_detected, status_frame_decoding>>

(* Mutated form of ReceivedWord: the header is forwarded once more.        *)
ReceivedWordHeader == Out("byte", frame_buffer.low, frame_buffer.pos)

ReceivedWord == Out("byte", s_axis_tdata.low, s_axis_tdata.pos)

(* Mutated form of Receive: the wait for a byte is counted too.            *)
ReceiveCountsCycles(tready) ==
    /\ protocol_state = "RECEIVE"
    /\ receive_frame_length' = receive_frame_length - 1
    /\ IF slave_byte_valid
       THEN /\ protocol_state' = "FORWARD"
            /\ s_axis_tready' = tready
            /\ m_axis_tdata' = ReceivedWord
            /\ m_axis_tvalid' = TRUE
       ELSE UNCHANGED <<protocol_state, s_axis_tready, m_axis_tdata, m_axis_tvalid>>
    /\ UNCHANGED <<m_axis_tlast, frame_buffer, forward_frozen_timestamp, stats>>

(* The byte taken here is forwarded next.  s_axis_tready follows the sink, *)
(* so that FORWARD may take another byte, which it does not look at.       *)
Receive(tready) ==
    /\ protocol_state = "RECEIVE"
    /\ IF slave_byte_valid
       THEN /\ protocol_state' = "FORWARD"
            /\ receive_frame_length' = receive_frame_length - 1
            /\ s_axis_tready' = tready
            /\ m_axis_tdata' = ReceivedWord
            /\ m_axis_tvalid' = TRUE
       ELSE UNCHANGED <<protocol_state, receive_frame_length, s_axis_tready,
                        m_axis_tdata, m_axis_tvalid>>
    /\ UNCHANGED <<m_axis_tlast, frame_buffer, forward_frozen_timestamp, stats>>

(* Mutated forms of After: the second timestamp byte is left out; the      *)
(* last one is followed by the first.                                      *)
AfterSkipsByte == [TIMESTAMP0 |-> "TIMESTAMP2", TIMESTAMP1 |-> "TIMESTAMP2",
                   TIMESTAMP2 |-> "TIMESTAMP3", TIMESTAMP3 |-> "WAIT_FRAME"]
AfterStartsAgain == [TIMESTAMP0 |-> "TIMESTAMP1", TIMESTAMP1 |-> "TIMESTAMP2",
                     TIMESTAMP2 |-> "TIMESTAMP3", TIMESTAMP3 |-> "TIMESTAMP0"]

After == [TIMESTAMP0 |-> "TIMESTAMP1", TIMESTAMP1 |-> "TIMESTAMP2",
          TIMESTAMP2 |-> "TIMESTAMP3", TIMESTAMP3 |-> "WAIT_FRAME"]

Timestamp(tready) ==
    /\ protocol_state \in DOMAIN After
    /\ IF ~Accepted(tready)
       THEN UNCHANGED <<protocol_state, m_axis>>
       ELSE LET ends == protocol_state = "TIMESTAMP3"
            IN /\ protocol_state' = After[protocol_state]
               /\ m_axis_tvalid' = ~ends
               /\ m_axis_tlast' = (protocol_state = "TIMESTAMP2")
               /\ m_axis_tdata' =
                     IF ends THEN m_axis_tdata
                     ELSE [m_axis_tdata EXCEPT !.pos = m_axis_tdata.pos + 1]
    /\ UNCHANGED <<s_axis_tready, received, stats>>

-----------------------------------------------------------------------------
(* The environment.  In an Autonomous readout the sensor interrupts until  *)
(* it has sent its frame and the host neither disables autoread nor clocks *)
(* bytes in by writing to the layer.                                       *)

InFrame == sensor.sent < sensor.length

(* What the sensor may send next, with its state after it.  A payload byte *)
(* may have the value of IDLE_BYTE or look like a header.                  *)
Sendable ==
    IF InFrame
    THEN {[byte |-> [idle |-> i, low |-> IF i THEN 0 ELSE 1,
                     pos |-> sensor.sent + 1],
           after |-> [sensor EXCEPT !.sent = sensor.sent + 1]] : i \in BOOLEAN}
    ELSE {[byte |-> IDLE, after |-> sensor]}
         \cup {[byte |-> Header(n), after |-> [length |-> n, sent |-> 0]] :
                  n \in 0 .. MaxLength}

Remaining == IF slave_byte_valid THEN Tail(miso) ELSE miso

CanArrive ==
    /\ Autonomous => readout_active
    /\ IF Paced THEN miso = <<>> /\ protocol_state \in {"WAIT_FRAME", "RECEIVE"}
                ELSE Len(miso) < MisoDepth

Arrive ==
    /\ CanArrive
    /\ \E send \in Sendable : /\ miso' = Append(Remaining, send.byte)
                              /\ sensor' = send.after

Quiet ==
    /\ miso' = Remaining
    /\ UNCHANGED sensor

(* The words the sink accepts.                                             *)
Observe(tready) ==
    /\ SinkMayStall \/ tready
    /\ frame' = IF Accepted(tready)
                THEN IF frame # <<>> /\ frame[Len(frame)].kind = "stamp"
                        /\ frame[Len(frame)].pos = 3
                     THEN <<m_axis_tdata>>
                     ELSE Append(frame, m_axis_tdata)
                ELSE frame

-----------------------------------------------------------------------------

Edge(interruptn, cfg_disable_autoread, tready) ==
    /\ Autonomous => ~cfg_disable_autoread /\ (InFrame => ~interruptn)
    /\ Readout(interruptn, cfg_disable_autoread)
    /\ \/ WaitFrame
       \/ HeaderLength(tready)
       \/ HeaderId(tready)
       \/ Forward(tready)
       \/ Receive(tready)
       \/ Timestamp(tready)
    /\ Observe(tready)
    /\ UNCHANGED setting

(* cfg_layer_reset: the decoder starts again.  The vendor FIFO before it   *)
(* is emptied too, but not the bytes already in its read cache.            *)
LayerReset ==
    /\ MayReset
    /\ s_axis_tready' = FALSE
    /\ readout_active' = FALSE
    /\ protocol_state' = "WAIT_FRAME"
    /\ m_axis_tvalid' = FALSE
    /\ m_axis_tlast' = FALSE
    /\ stat_frame_detected' = FALSE
    /\ stat_idle_detected' = FALSE
    /\ status_frame_decoding' = FALSE
    /\ \E n \in 0 .. Len(Remaining) : miso' = SubSeq(Remaining, 1, n)
    /\ sensor' = [length |-> 0, sent |-> 0]
    /\ frame' = <<>>
    /\ UNCHANGED <<m_axis_tdata, received, nodata_continue_counter, setting>>

Init ==
    /\ setting \in Settings
    /\ protocol_state = "WAIT_FRAME"
    /\ s_axis_tready = FALSE
    /\ m_axis_tdata = Out("none", 0, 0)
    /\ m_axis_tvalid = FALSE
    /\ m_axis_tlast = FALSE
    /\ receive_frame_length = 0
    /\ frame_buffer = Header(0)
    /\ forward_frozen_timestamp = 0
    /\ readout_active = FALSE
    /\ nodata_continue_counter = 0
    /\ stat_frame_detected = FALSE
    /\ stat_idle_detected = FALSE
    /\ status_frame_decoding = FALSE
    /\ miso = <<>>
    /\ sensor = [length |-> 0, sent |-> 0]
    /\ frame = <<>>

AnyEdge ==
    \E interruptn, cfg_disable_autoread, tready \in BOOLEAN :
        Edge(interruptn, cfg_disable_autoread, tready)

Next ==
    \/ AnyEdge /\ Quiet
    \/ AnyEdge /\ Arrive
    \/ LayerReset

Spec == Init /\ [][Next]_vars

-----------------------------------------------------------------------------

(* The registers stay within their ranges; in particular the eight-bit     *)
(* payload counter is never decremented below zero.                        *)
TypeOK ==
    /\ protocol_state \in State
    /\ m_axis_tdata \in Word
    /\ {s_axis_tready, m_axis_tvalid, m_axis_tlast, readout_active,
        stat_frame_detected, stat_idle_detected, status_frame_decoding}
           \subseteq BOOLEAN
    /\ receive_frame_length \in 0 .. MaxLength
    /\ frame_buffer \in Byte
    /\ forward_frozen_timestamp \in Tag
    /\ nodata_continue_counter \in 0 .. cfg_nodata_continue
    /\ miso \in Seq(Byte)

(* What the sink must have received when tlast comes: the length byte      *)
(* counts the bytes after it, the payload is as long as the header says,   *)
(* and the four timestamp bytes are of one counter value.                  *)
WellFormed(f) ==
    /\ Len(f) >= 7
    /\ f[1].kind = "length" /\ Len(f) = f[1].low + 1
    /\ f[2].kind = "id"
    /\ \A k \in 3 .. Len(f) - 4 : f[k].kind = "byte"
    /\ f[3].low = Len(f) - 7
    /\ \A k \in 0 .. 3 : f[Len(f) - 3 + k] = Out("stamp", f[Len(f)].low, k)

Taken == frame' # frame /\ frame' # <<>>

(* tlast comes with the fourth timestamp byte and no other word, and every *)
(* frame it ends is well formed, whatever the stalls of the sink, the      *)
(* bytes lost and the resets between frames.                               *)
FrameWellFormed ==
    [][Taken => /\ m_axis_tlast => WellFormed(frame')
                /\ m_axis_tlast <=> m_axis_tdata.kind = "stamp"
                                       /\ m_axis_tdata.pos = 3]_vars

(* A word offered on m_axis stays until the sink takes it, as AXI-Stream   *)
(* asks; only a layer reset withdraws one.                                 *)
OfferStays ==
    [][m_axis_tvalid /\ frame' = frame /\ ~LayerReset
          => UNCHANGED m_axis]_vars

(* Header and payload are forwarded in the order the sensor sent them,     *)
(* none missing, when no byte waits while the decoder is busy.  Without    *)
(* that the code loses bytes: see PayloadAlwaysInOrder.                    *)
PayloadInOrder ==
    Paced => \A k \in 3 .. Len(frame) : frame[k].kind = "byte" => frame[k].pos = k - 3

(* The same for every environment.  The code does not keep this: see       *)
(* AstropixProtocol_idle.cfg.                                              *)
PayloadAlwaysInOrder ==
    \A k \in 3 .. Len(frame) : frame[k].kind = "byte" => frame[k].pos = k - 3

(* The frame strobe is set for exactly one cycle per header, so that the   *)
(* frame counter of the register file counts frames.                       *)
FrameCounted ==
    [][stat_frame_detected' <=> HeaderAccepted /\ ~LayerReset]_vars

(* The idle strobe is set in the cycle after an idle byte and no other, so *)
(* that the idle counter counts idle bytes, when no byte waits while the   *)
(* decoder is busy.  Without that see IdleAlwaysCounted.                   *)
IdleCounted == [][Paced /\ stat_idle_detected' => IdleAccepted]_vars

(* The same for every environment.  The code does not keep this: see       *)
(* AstropixProtocol_idle.cfg.                                              *)
IdleAlwaysCounted == [][stat_idle_detected' => IdleAccepted]_vars

(* The counter that ends the readout counts idle bytes.  The code does not *)
(* keep this: see AstropixProtocol_idle.cfg.                               *)
NodataCountsBytes ==
    [][nodata_continue_counter' < nodata_continue_counter => IdleAccepted]_vars

(* A frame that has begun is forwarded to its end, when bytes go on        *)
(* arriving and the sink does not stall.                                   *)
FrameCompletes ==
    Paced /\ protocol_state # "WAIT_FRAME" ~> protocol_state = "WAIT_FRAME"

=============================================================================
