---------------------- MODULE AstropixProtocol_proofs ----------------------
(***************************************************************************)
(* Proofs, for every longest payload, every depth of the FIFO of received  *)
(* bytes, every readout counter and every environment, that the frame      *)
(* decoder keeps its types, that every frame it ends is well formed, and   *)
(* that in a Paced environment it forwards every payload byte in its place *)
(* and counts every idle byte once.                                        *)
(***************************************************************************)
EXTENDS AstropixProtocol, SequenceTheorems, TLAPS

-----------------------------------------------------------------------------
(* The inductive invariant.                                                *)

(* The words of the frame under way that the sink has accepted.            *)
Ended(f) == f # <<>> /\ f[Len(f)].kind = "stamp" /\ f[Len(f)].pos = 3
Current  == IF Ended(frame) THEN <<>> ELSE frame

(* The i-th word of a frame whose header announces n payload bytes.        *)
Fits(w, i, n) ==
    /\ i = 1 => w.kind = "length" /\ w.low = n + 6
    /\ i = 2 => w.kind = "id"
    /\ i \in 3 .. n + 3 => w.kind = "byte"
    /\ i = 3 => w.low = n
    /\ \A k \in 0 .. 3 : i = n + 4 + k => w = Out("stamp", forward_frozen_timestamp, k)

Beginning(f, n) == \A i \in 1 .. Len(f) : Fits(f[i], i, n)

(* Where each state is in the frame: what it offers and how many words are *)
(* accepted already.                                                       *)
AtWait ==
    /\ protocol_state = "WAIT_FRAME"
    /\ m_axis_tvalid = FALSE /\ m_axis_tlast = FALSE
    /\ Current = <<>>

AtLength(n) ==
    /\ protocol_state = "HEADER_LENGTH"
    /\ m_axis_tvalid = TRUE /\ m_axis_tlast = FALSE
    /\ Len(Current) = 0
    /\ m_axis_tdata = Out("length", n + 6, 0)
    /\ receive_frame_length = n /\ frame_buffer.low = n

AtId(n) ==
    /\ protocol_state = "HEADER_ID"
    /\ m_axis_tvalid = TRUE /\ m_axis_tlast = FALSE
    /\ Len(Current) = 1
    /\ m_axis_tdata = Out("id", 0, 0)
    /\ receive_frame_length = n /\ frame_buffer.low = n

AtForward(n) ==
    /\ protocol_state = "FORWARD"
    /\ m_axis_tvalid = TRUE /\ m_axis_tlast = FALSE
    /\ Len(Current) >= 2
    /\ Len(Current) + receive_frame_length = n + 2
    /\ m_axis_tdata.kind = "byte"
    /\ Len(Current) = 2 => m_axis_tdata.low = n

AtReceive(n) ==
    /\ protocol_state = "RECEIVE"
    /\ m_axis_tvalid = FALSE /\ m_axis_tlast = FALSE
    /\ Len(Current) >= 3
    /\ receive_frame_length >= 1
    /\ Len(Current) + receive_frame_length = n + 3

Stamps == [k \in 0 .. 3 |-> CASE k = 0 -> "TIMESTAMP0" [] k = 1 -> "TIMESTAMP1"
                              [] k = 2 -> "TIMESTAMP2" [] OTHER -> "TIMESTAMP3"]

AtStamp(n, k) ==
    /\ protocol_state = Stamps[k]
    /\ m_axis_tvalid = TRUE
    /\ m_axis_tlast = (k = 3)
    /\ Len(Current) = n + 3 + k
    /\ m_axis_tdata = Out("stamp", forward_frozen_timestamp, k)

InFrameAt(n) ==
    /\ Beginning(Current, n)
    /\ \/ AtLength(n) \/ AtId(n) \/ AtForward(n) \/ AtReceive(n)
       \/ \E k \in 0 .. 3 : AtStamp(n, k)

Progress == AtWait \/ \E n \in 0 .. MaxLength : InFrameAt(n)

(* The types of the registers the protocol states assign.                  *)
DecoderOK ==
    /\ protocol_state \in State
    /\ m_axis_tdata \in Word
    /\ s_axis_tready \in BOOLEAN
    /\ m_axis_tvalid \in BOOLEAN /\ m_axis_tlast \in BOOLEAN
    /\ stat_frame_detected \in BOOLEAN /\ stat_idle_detected \in BOOLEAN
    /\ status_frame_decoding \in BOOLEAN
    /\ receive_frame_length \in 0 .. MaxLength
    /\ frame_buffer \in Byte
    /\ forward_frozen_timestamp \in Tag

EnvironmentOK ==
    /\ readout_active \in BOOLEAN
    /\ nodata_continue_counter \in 0 .. cfg_nodata_continue
    /\ miso \in Seq(Byte)
    /\ sensor \in [length : 0 .. MaxLength, sent : 0 .. MaxLength]

FrameOK == frame \in Seq(Word)

IInv == DecoderOK /\ EnvironmentOK /\ FrameOK /\ Progress

-----------------------------------------------------------------------------

(* What the sink sees of an edge.                                          *)
LEMMA ObserveStep ==
    ASSUME FrameOK, DecoderOK, NEW tready \in BOOLEAN, Observe(tready)
    PROVE  /\ FrameOK'
           /\ Current \in Seq(Word)
           /\ Accepted(tready) => frame' = Append(Current, m_axis_tdata)
           /\ ~Accepted(tready) => frame' = frame /\ Current' = Current
<1>1. <<>> \in Seq(Word) /\ m_axis_tdata \in Word /\ frame \in Seq(Word)
  BY DEF FrameOK, DecoderOK
<1>2. Current \in Seq(Word)
  BY <1>1 DEF Current
<1>3. ASSUME Accepted(tready)
      PROVE  frame' = Append(Current, m_axis_tdata)
  <2>1. CASE Ended(frame)
    BY <1>3, <2>1 DEF Observe, Ended, Current
  <2>2. CASE ~Ended(frame)
    BY <1>3, <2>2 DEF Observe, Ended, Current
  <2> QED
    BY <2>1, <2>2
<1>4. ASSUME ~Accepted(tready)
      PROVE  frame' = frame /\ Current' = Current
  BY <1>4 DEF Observe, Current, Ended
<1>5. frame' \in Seq(Word)
  BY <1>1, <1>2, <1>3, <1>4, AppendProperties
<1> QED
  BY <1>2, <1>3, <1>4, <1>5 DEF FrameOK

(* A word that is not the last one extends the frame; the last one ends it.*)
LEMMA CurrentStep ==
    ASSUME Current \in Seq(Word), m_axis_tdata \in Word,
           frame' = Append(Current, m_axis_tdata)
    PROVE  /\ m_axis_tdata.kind # "stamp" \/ m_axis_tdata.pos # 3
                 => Current' = Append(Current, m_axis_tdata)
           /\ m_axis_tdata.kind = "stamp" /\ m_axis_tdata.pos = 3
                 => Current' = <<>>
<1>1. /\ Append(Current, m_axis_tdata) # <<>>
      /\ Append(Current, m_axis_tdata)[Len(Append(Current, m_axis_tdata))] = m_axis_tdata
  BY AppendProperties
<1> QED
  BY <1>1 DEF Current, Ended

LEMMA BeginningAppend ==
    ASSUME NEW c \in Seq(Word), NEW w \in Word, NEW n \in Nat,
           Beginning(c, n), Fits(w, Len(c) + 1, n)
    PROVE  Beginning(Append(c, w), n) /\ Len(Append(c, w)) = Len(c) + 1
<1>1. /\ Len(c) \in Nat
      /\ Len(Append(c, w)) = Len(c) + 1
      /\ \A i \in 1 .. Len(c) : Append(c, w)[i] = c[i]
      /\ Append(c, w)[Len(c) + 1] = w
  BY AppendProperties, LenProperties
<1>2. ASSUME NEW i \in 1 .. Len(Append(c, w))
      PROVE  Fits(Append(c, w)[i], i, n)
  <2>1. CASE i = Len(c) + 1
    BY <1>1, <2>1
  <2>2. CASE i # Len(c) + 1
    <3>1. i \in 1 .. Len(c)
      BY <1>1, <2>2
    <3> QED
      BY <1>1, <3>1 DEF Beginning
  <2> QED
    BY <2>1, <2>2
<1> QED
  BY <1>1, <1>2 DEF Beginning

(* What an edge within a frame leaves of the frame: the offered word is    *)
(* added, or nothing.                                                      *)
LEMMA Advance ==
    ASSUME FrameOK, DecoderOK, NEW tready \in BOOLEAN, Observe(tready),
           Accepted(tready), NEW n \in Nat, Beginning(Current, n),
           Fits(m_axis_tdata, Len(Current) + 1, n),
           m_axis_tdata.kind # "stamp" \/ m_axis_tdata.pos # 3,
           forward_frozen_timestamp' = forward_frozen_timestamp
    PROVE  Beginning(Current, n)' /\ Len(Current)' = Len(Current) + 1
<1>1. Current \in Seq(Word) /\ m_axis_tdata \in Word
  BY ObserveStep DEF DecoderOK
<1>2. frame' = Append(Current, m_axis_tdata)
  BY ObserveStep
<1>3. Current' = Append(Current, m_axis_tdata)
  BY <1>1, <1>2, CurrentStep
<1>4. Beginning(Append(Current, m_axis_tdata), n)
      /\ Len(Append(Current, m_axis_tdata)) = Len(Current) + 1
  BY <1>1, BeginningAppend
<1> QED
  BY <1>3, <1>4 DEF Beginning, Fits

LEMMA Hold ==
    ASSUME FrameOK, DecoderOK, NEW tready \in BOOLEAN, Observe(tready),
           ~Accepted(tready), NEW n \in Nat, Beginning(Current, n),
           forward_frozen_timestamp' = forward_frozen_timestamp
    PROVE  Beginning(Current, n)' /\ Len(Current)' = Len(Current)
<1>1. Current' = Current
  BY ObserveStep
<1> QED
  BY <1>1 DEF Beginning, Fits

-----------------------------------------------------------------------------
(* One lemma per protocol state.                                           *)

LEMMA ReceivedByte ==
    ASSUME EnvironmentOK, slave_byte_valid
    PROVE  s_axis_tdata \in Byte
BY HeadTailProperties DEF EnvironmentOK, slave_byte_valid, s_axis_tdata

LEMMA WaitFrameStep ==
    ASSUME ProtocolAssumption, IInv, NEW tready \in BOOLEAN, WaitFrame, Observe(tready)
    PROVE  DecoderOK' /\ Progress'
<1>1. AtWait
  BY DEF IInv, Progress, InFrameAt, AtWait, AtLength, AtId, AtForward, AtReceive,
         AtStamp, Stamps, WaitFrame
<1>2. ~Accepted(tready) /\ m_axis_tlast' = FALSE
  BY <1>1 DEF AtWait, Accepted, WaitFrame
<1>3. Current' = <<>>
  BY <1>1, <1>2, ObserveStep DEF AtWait, IInv
<1>4. CASE HeaderAccepted
  <2>1. s_axis_tdata \in Byte
    BY <1>4, ReceivedByte DEF HeaderAccepted, IInv
  <2>2. PICK n \in 0 .. MaxLength : n = s_axis_tdata.low
    BY <2>1 DEF Byte
  <2> MaxLength \in Nat
    BY DEF ProtocolAssumption
  <2>3. /\ protocol_state' = "HEADER_LENGTH" /\ receive_frame_length' = n
        /\ frame_buffer' = s_axis_tdata /\ m_axis_tdata' = Out("length", n + 6, 0)
        /\ m_axis_tvalid' = TRUE /\ stat_frame_detected' = TRUE
        /\ forward_frozen_timestamp' \in Tag
        /\ stat_idle_detected' = stat_idle_detected
        /\ s_axis_tready' = FALSE /\ status_frame_decoding' = TRUE
    BY <1>4, <2>2 DEF WaitFrame
  <2>4. Out("length", n + 6, 0) \in Word
    BY <2>2 DEF Out, Word
  <2>5. DecoderOK'
    BY <1>2, <2>1, <2>2, <2>3, <2>4 DEF DecoderOK, State, IInv
  <2>6. Beginning(Current, n)' /\ Len(Current)' = 0
    BY <1>3 DEF Beginning
  <2>7. frame_buffer'.low = n
    BY <2>2, <2>3
  <2>8. AtLength(n)'
    BY <1>2, <2>3, <2>6, <2>7 DEF AtLength
  <2> QED
    BY <2>5, <2>6, <2>8 DEF Progress, InFrameAt
<1>5. CASE ~HeaderAccepted
  <2>1. UNCHANGED <<protocol_state, m_axis_tdata, m_axis_tvalid, received,
                    stat_frame_detected>>
    BY <1>5 DEF WaitFrame
  <2>2. stat_idle_detected' \in BOOLEAN
    BY <1>5 DEF WaitFrame, IdleAccepted
  <2>3. s_axis_tready' \in BOOLEAN /\ status_frame_decoding' \in BOOLEAN
    BY DEF WaitFrame, HeaderAccepted
  <2>4. DecoderOK'
    BY <1>2, <2>1, <2>2, <2>3 DEF DecoderOK, IInv, received
  <2>5. AtWait'
    BY <1>1, <1>2, <1>3, <2>1 DEF AtWait
  <2> QED
    BY <2>4, <2>5 DEF Progress
<1> QED
  BY <1>4, <1>5

LEMMA HeaderLengthStep ==
    ASSUME ProtocolAssumption, IInv, NEW tready \in BOOLEAN,
           HeaderLength(tready), Observe(tready)
    PROVE  DecoderOK' /\ Progress'
<1> MaxLength \in Nat
  BY DEF ProtocolAssumption
<1>1. PICK n \in 0 .. MaxLength : Beginning(Current, n) /\ AtLength(n)
  BY DEF IInv, Progress, InFrameAt, AtWait, AtId, AtForward, AtReceive,
         AtStamp, Stamps, HeaderLength
<1>2. n \in Nat
  OBVIOUS
<1>3. UNCHANGED <<s_axis_tready, m_axis_tvalid, m_axis_tlast, receive_frame_length,
                  frame_buffer, forward_frozen_timestamp, stat_idle_detected,
                  status_frame_decoding>>
      /\ stat_frame_detected' = FALSE
  BY DEF HeaderLength, received
<1>4. CASE Accepted(tready)
  <2>1. protocol_state' = "HEADER_ID" /\ m_axis_tdata' = Out("id", 0, 0)
    BY <1>4 DEF HeaderLength
  <2>2. Out("id", 0, 0) \in Word
    BY DEF Out, Word
  <2>3. DecoderOK'
    BY <1>3, <2>1, <2>2 DEF DecoderOK, IInv, State
  <2>4. Fits(m_axis_tdata, Len(Current) + 1, n)
        /\ m_axis_tdata.kind # "stamp"
    BY <1>1, <1>2 DEF AtLength, Fits, Out
  <2>5. Beginning(Current, n)' /\ Len(Current)' = 1
    BY <1>1, <1>2, <1>3, <1>4, <2>4, Advance DEF IInv, AtLength
  <2>6. AtId(n)'
    BY <1>1, <1>3, <2>1, <2>5 DEF AtId, AtLength
  <2> QED
    BY <2>3, <2>5, <2>6 DEF Progress, InFrameAt
<1>5. CASE ~Accepted(tready)
  <2>1. UNCHANGED <<protocol_state, m_axis_tdata>>
    BY <1>5 DEF HeaderLength
  <2>2. DecoderOK'
    BY <1>3, <2>1 DEF DecoderOK, IInv
  <2>3. Beginning(Current, n)' /\ Len(Current)' = Len(Current)
    BY <1>1, <1>2, <1>3, <1>5, Hold DEF IInv
  <2>4. AtLength(n)'
    BY <1>1, <1>3, <2>1, <2>3 DEF AtLength
  <2> QED
    BY <2>2, <2>3, <2>4 DEF Progress, InFrameAt
<1> QED
  BY <1>4, <1>5

LEMMA HeaderIdStep ==
    ASSUME ProtocolAssumption, IInv, NEW tready \in BOOLEAN,
           HeaderId(tready), Observe(tready)
    PROVE  DecoderOK' /\ Progress'
<1> MaxLength \in Nat
  BY DEF ProtocolAssumption
<1>1. PICK n \in 0 .. MaxLength : Beginning(Current, n) /\ AtId(n)
  BY DEF IInv, Progress, InFrameAt, AtWait, AtLength, AtForward, AtReceive,
         AtStamp, Stamps, HeaderId
<1>2. n \in Nat
  OBVIOUS
<1>3. UNCHANGED <<s_axis_tready, m_axis_tvalid, m_axis_tlast, receive_frame_length,
                  frame_buffer, forward_frozen_timestamp, stat_frame_detected,
                  stat_idle_detected, status_frame_decoding>>
  BY DEF HeaderId, received, stats
<1>4. CASE Accepted(tready)
  <2>1. protocol_state' = "FORWARD"
        /\ m_axis_tdata' = Out("byte", frame_buffer.low, frame_buffer.pos)
    BY <1>4 DEF HeaderId
  <2>2. Out("byte", frame_buffer.low, frame_buffer.pos) \in Word
    BY DEF Out, Word, Byte, IInv, DecoderOK
  <2>3. DecoderOK'
    BY <1>3, <2>1, <2>2 DEF DecoderOK, IInv, State
  <2>4. Fits(m_axis_tdata, Len(Current) + 1, n)
        /\ m_axis_tdata.kind # "stamp"
    BY <1>1, <1>2 DEF AtId, Fits, Out
  <2>5. Beginning(Current, n)' /\ Len(Current)' = 2
    BY <1>1, <1>2, <1>3, <1>4, <2>4, Advance DEF IInv, AtId
  <2>6. /\ m_axis_tdata'.kind = "byte" /\ m_axis_tdata'.low = n
        /\ receive_frame_length' = n
        /\ m_axis_tvalid' = TRUE /\ m_axis_tlast' = FALSE
    BY <1>1, <1>3, <2>1 DEF AtId, Out
  <2>7. AtForward(n)'
    BY <1>2, <2>1, <2>5, <2>6 DEF AtForward
  <2> QED
    BY <2>3, <2>5, <2>7 DEF Progress, InFrameAt
<1>5. CASE ~Accepted(tready)
  <2>1. UNCHANGED <<protocol_state, m_axis_tdata>>
    BY <1>5 DEF HeaderId
  <2>2. DecoderOK'
    BY <1>3, <2>1 DEF DecoderOK, IInv
  <2>3. Beginning(Current, n)' /\ Len(Current)' = Len(Current)
    BY <1>1, <1>2, <1>3, <1>5, Hold DEF IInv
  <2>4. AtId(n)'
    BY <1>1, <1>3, <2>1, <2>3 DEF AtId
  <2> QED
    BY <2>2, <2>3, <2>4 DEF Progress, InFrameAt
<1> QED
  BY <1>4, <1>5

LEMMA ForwardStep ==
    ASSUME ProtocolAssumption, IInv, NEW tready \in BOOLEAN,
           Forward(tready), Observe(tready)
    PROVE  DecoderOK' /\ Progress'
<1> MaxLength \in Nat
  BY DEF ProtocolAssumption
<1>1. PICK n \in 0 .. MaxLength : Beginning(Current, n) /\ AtForward(n)
  BY DEF IInv, Progress, InFrameAt, AtWait, AtLength, AtId, AtReceive,
         AtStamp, Stamps, Forward
<1>2. n \in Nat /\ Len(Current) \in Nat /\ receive_frame_length \in 0 .. MaxLength
  BY ObserveStep, LenProperties DEF IInv, DecoderOK
<1>3. UNCHANGED <<receive_frame_length, frame_buffer, forward_frozen_timestamp,
                  stat_idle_detected, status_frame_decoding>>
      /\ stat_frame_detected' = FALSE
  BY DEF Forward, received
<1>4. CASE Accepted(tready)
  <2>0. /\ Len(Current) >= 2 /\ Len(Current) + receive_frame_length = n + 2
        /\ Len(Current) = 2 => m_axis_tdata.low = n
    BY <1>1 DEF AtForward
  <2> DEFINE c == Len(Current)
  <2> HIDE DEF c
  <2>a. c \in Nat /\ c >= 2 /\ c + receive_frame_length = n + 2
    BY <1>2, <2>0 DEF c
  <2>b. c \in 2 .. n + 2
    BY <1>2, <2>a
  <2>1. /\ Len(Current) + 1 \in 3 .. n + 3
        /\ Len(Current) + 1 # 1 /\ Len(Current) + 1 # 2
        /\ \A k \in 0 .. 3 : Len(Current) + 1 # n + 4 + k
        /\ Len(Current) + 1 = 3 => m_axis_tdata.low = n
    <3>1. /\ c + 1 \in 3 .. n + 3 /\ c + 1 # 1 /\ c + 1 # 2
          /\ \A k \in 0 .. 3 : c + 1 # n + 4 + k
          /\ c + 1 = 3 => c = 2
      BY <1>2, <2>b
    <3> QED
      BY <2>0, <3>1 DEF c
  <2>2. Fits(m_axis_tdata, Len(Current) + 1, n)
        /\ m_axis_tdata.kind # "stamp"
    BY <1>1, <2>1 DEF AtForward, Fits
  <2>3. Beginning(Current, n)' /\ Len(Current)' = Len(Current) + 1
    BY <1>1, <1>2, <1>3, <1>4, <2>2, Advance DEF IInv
  <2>4. m_axis_tlast' = FALSE
    BY <1>4 DEF Forward
  <2>5. CASE receive_frame_length = 0
    <3>1. /\ protocol_state' = "TIMESTAMP0" /\ m_axis_tvalid' = TRUE
          /\ m_axis_tdata' = Out("stamp", forward_frozen_timestamp, 0)
          /\ s_axis_tready' = FALSE
      BY <1>4, <2>5 DEF Forward
    <3>2. Out("stamp", forward_frozen_timestamp, 0) \in Word
      BY DEF Out, Word, Tag, IInv, DecoderOK
    <3>3. DecoderOK'
      BY <1>3, <2>4, <3>1, <3>2 DEF DecoderOK, IInv, State
    <3>4. Len(Current)' = n + 3 + 0
      BY <1>1, <1>2, <2>3, <2>5 DEF AtForward
    <3>a. Stamps[0] = "TIMESTAMP0"
      BY DEF Stamps
    <3>b. (0 = 3) = FALSE
      OBVIOUS
    <3>5. protocol_state' = Stamps[0] /\ m_axis_tlast' = (0 = 3)
      BY <2>4, <3>1, <3>a, <3>b
    <3>6. m_axis_tdata' = Out("stamp", forward_frozen_timestamp', 0)
      BY <1>3, <3>1
    <3>7. Stamps[0]' = Stamps[0]
      BY DEF Stamps
    <3>8. AtStamp(n, 0)'
      BY <3>1, <3>4, <3>5, <3>6, <3>7 DEF AtStamp, Out
    <3> QED
      BY <2>3, <3>3, <3>8 DEF Progress, InFrameAt
  <2>6. CASE receive_frame_length # 0
    <3>1. /\ protocol_state' = "RECEIVE" /\ m_axis_tvalid' = FALSE
          /\ m_axis_tdata' = m_axis_tdata
          /\ s_axis_tready' = TRUE
      BY <1>4, <2>6 DEF Forward
    <3>2. DecoderOK'
      BY <1>3, <2>4, <3>1 DEF DecoderOK, IInv, State
    <3>3. /\ Len(Current)' >= 3 /\ receive_frame_length' >= 1
          /\ Len(Current)' + receive_frame_length' = n + 3
      BY <1>1, <1>2, <1>3, <2>3, <2>6 DEF AtForward
    <3>4. AtReceive(n)'
      BY <2>4, <3>1, <3>3 DEF AtReceive
    <3> QED
      BY <2>3, <3>2, <3>4 DEF Progress, InFrameAt
  <2> QED
    BY <2>5, <2>6
<1>5. CASE ~Accepted(tready)
  <2>1. UNCHANGED <<protocol_state, m_axis_tdata, m_axis_tvalid, m_axis_tlast,
                    s_axis_tready>>
    BY <1>5 DEF Forward, m_axis
  <2>2. DecoderOK'
    BY <1>3, <2>1 DEF DecoderOK, IInv
  <2>3. Beginning(Current, n)' /\ Len(Current)' = Len(Current)
    BY <1>1, <1>2, <1>3, <1>5, Hold DEF IInv
  <2>4. AtForward(n)'
    BY <1>1, <1>3, <2>1, <2>3 DEF AtForward
  <2> QED
    BY <2>2, <2>3, <2>4 DEF Progress, InFrameAt
<1> QED
  BY <1>4, <1>5

LEMMA ReceiveStep ==
    ASSUME ProtocolAssumption, IInv, NEW tready \in BOOLEAN,
           Receive(tready), Observe(tready)
    PROVE  DecoderOK' /\ Progress'
<1> MaxLength \in Nat
  BY DEF ProtocolAssumption
<1>1. PICK n \in 0 .. MaxLength : Beginning(Current, n) /\ AtReceive(n)
  BY DEF IInv, Progress, InFrameAt, AtWait, AtLength, AtId, AtForward,
         AtStamp, Stamps, Receive
<1>2. n \in Nat /\ Len(Current) \in Nat /\ receive_frame_length \in 0 .. MaxLength
  BY ObserveStep, LenProperties DEF IInv, DecoderOK
<1>3. UNCHANGED <<m_axis_tlast, frame_buffer, forward_frozen_timestamp,
                  stat_frame_detected, stat_idle_detected, status_frame_decoding>>
  BY DEF Receive, stats
<1>4. ~Accepted(tready)
  BY <1>1 DEF AtReceive, Accepted
<1>5. Beginning(Current, n)' /\ Len(Current)' = Len(Current)
  BY <1>1, <1>2, <1>3, <1>4, Hold DEF IInv
<1>6. CASE slave_byte_valid
  <2>1. s_axis_tdata \in Byte
    BY <1>6, ReceivedByte DEF IInv
  <2>2. /\ protocol_state' = "FORWARD"
        /\ receive_frame_length' = receive_frame_length - 1
        /\ s_axis_tready' = tready
        /\ m_axis_tdata' = ReceivedWord
        /\ m_axis_tvalid' = TRUE
    BY <1>6 DEF Receive
  <2>3. ReceivedWord \in Word /\ ReceivedWord.kind = "byte"
    BY <2>1 DEF ReceivedWord, Out, Word, Byte
  <2>4. /\ receive_frame_length' \in 0 .. MaxLength
        /\ Len(Current)' + receive_frame_length' = n + 2
        /\ Len(Current)' >= 2 /\ Len(Current)' # 2
    BY <1>1, <1>2, <1>5, <2>2 DEF AtReceive
  <2>5. DecoderOK'
    BY <1>3, <2>2, <2>3, <2>4 DEF DecoderOK, IInv, State
  <2>6. AtForward(n)'
    BY <1>1, <1>3, <2>2, <2>3, <2>4 DEF AtForward, AtReceive
  <2> QED
    BY <1>5, <2>5, <2>6 DEF Progress, InFrameAt
<1>7. CASE ~slave_byte_valid
  <2>1. UNCHANGED <<protocol_state, receive_frame_length, s_axis_tready,
                    m_axis_tdata, m_axis_tvalid>>
    BY <1>7 DEF Receive
  <2>2. DecoderOK'
    BY <1>3, <2>1 DEF DecoderOK, IInv
  <2>3. AtReceive(n)'
    BY <1>1, <1>3, <1>5, <2>1 DEF AtReceive
  <2> QED
    BY <1>5, <2>2, <2>3 DEF Progress, InFrameAt
<1> QED
  BY <1>6, <1>7

LEMMA TimestampStep ==
    ASSUME ProtocolAssumption, IInv, NEW tready \in BOOLEAN,
           Timestamp(tready), Observe(tready)
    PROVE  DecoderOK' /\ Progress'
<1> MaxLength \in Nat
  BY DEF ProtocolAssumption
<1>1. PICK n \in 0 .. MaxLength, k \in 0 .. 3 : Beginning(Current, n) /\ AtStamp(n, k)
  BY DEF IInv, Progress, InFrameAt, AtWait, AtLength, AtId, AtForward, AtReceive,
         Timestamp, After
<1>2. n \in Nat /\ k \in Nat /\ Len(Current) \in Nat
  BY ObserveStep, LenProperties DEF IInv
<1>3. UNCHANGED <<s_axis_tready, receive_frame_length, frame_buffer,
                  forward_frozen_timestamp, stat_frame_detected,
                  stat_idle_detected, status_frame_decoding>>
  BY DEF Timestamp, received, stats
<1>4. CASE Accepted(tready) /\ k \in 0 .. 2
  <2>1. /\ protocol_state = Stamps[k] /\ protocol_state # "TIMESTAMP3"
        /\ After[protocol_state] = Stamps[k + 1]
        /\ protocol_state = "TIMESTAMP2" <=> k + 1 = 3
    BY <1>1, <1>4 DEF AtStamp, Stamps, After
  <2>2. /\ protocol_state' = Stamps[k + 1]
        /\ m_axis_tvalid' = TRUE
        /\ m_axis_tdata' = [m_axis_tdata EXCEPT !.pos = m_axis_tdata.pos + 1]
    BY <1>4, <2>1 DEF Timestamp
  <2>3. m_axis_tlast' = (k + 1 = 3)
    BY <1>4, <2>1 DEF Timestamp
  <2>4. m_axis_tdata' = Out("stamp", forward_frozen_timestamp, k + 1)
    BY <1>1, <2>2 DEF AtStamp, Out
  <2>5. Out("stamp", forward_frozen_timestamp, k + 1) \in Word
    BY <1>4 DEF Out, Word, Tag, IInv, DecoderOK
  <2>6. Stamps[k + 1] \in State /\ k + 1 \in 0 .. 3
    BY <1>4 DEF Stamps, State
  <2>7. DecoderOK'
    BY <1>3, <2>2, <2>3, <2>4, <2>5, <2>6 DEF DecoderOK, IInv
  <2>8. Fits(m_axis_tdata, Len(Current) + 1, n)
    BY <1>1, <1>2 DEF AtStamp, Fits
  <2>9. m_axis_tdata.pos # 3
    BY <1>1, <1>4 DEF AtStamp, Out
  <2>10. Beginning(Current, n)' /\ Len(Current)' = Len(Current) + 1
    BY <1>1, <1>2, <1>3, <1>4, <2>8, <2>9, Advance DEF IInv
  <2>11. Len(Current)' = n + 3 + (k + 1)
    BY <1>1, <1>2, <2>10 DEF AtStamp
  <2>12. AtStamp(n, k + 1)'
    BY <1>3, <2>2, <2>3, <2>4, <2>11 DEF AtStamp, Stamps
  <2> QED
    BY <2>6, <2>7, <2>10, <2>12 DEF Progress, InFrameAt
<1>5. CASE Accepted(tready) /\ k = 3
  <2>1. protocol_state = "TIMESTAMP3" /\ After[protocol_state] = "WAIT_FRAME"
    BY <1>1, <1>5 DEF AtStamp, Stamps, After
  <2>2. /\ protocol_state' = "WAIT_FRAME" /\ m_axis_tvalid' = FALSE
        /\ m_axis_tlast' = FALSE /\ m_axis_tdata' = m_axis_tdata
    BY <1>5, <2>1 DEF Timestamp
  <2>3. DecoderOK'
    BY <1>3, <2>2 DEF DecoderOK, IInv, State
  <2>4. m_axis_tdata.kind = "stamp" /\ m_axis_tdata.pos = 3
    BY <1>1, <1>5 DEF AtStamp, Out
  <2>5. Current' = <<>>
    BY <1>5, <2>4, ObserveStep, CurrentStep DEF IInv, DecoderOK
  <2>6. AtWait'
    BY <2>2, <2>5 DEF AtWait
  <2> QED
    BY <2>3, <2>6 DEF Progress
<1>6. CASE ~Accepted(tready)
  <2>1. UNCHANGED <<protocol_state, m_axis_tdata, m_axis_tvalid, m_axis_tlast>>
    BY <1>6 DEF Timestamp, m_axis
  <2>2. DecoderOK'
    BY <1>3, <2>1 DEF DecoderOK, IInv
  <2>3. Beginning(Current, n)' /\ Len(Current)' = Len(Current)
    BY <1>1, <1>2, <1>3, <1>6, Hold DEF IInv
  <2>4. AtStamp(n, k)'
    BY <1>1, <1>3, <2>1, <2>3 DEF AtStamp, Stamps
  <2> QED
    BY <2>2, <2>3, <2>4 DEF Progress, InFrameAt
<1> QED
  BY <1>4, <1>5, <1>6

-----------------------------------------------------------------------------
(* The invariant holds of every behaviour.                                 *)

LEMMA ReadoutStep ==
    ASSUME ProtocolAssumption, EnvironmentOK, NEW interruptn \in BOOLEAN,
           NEW cfg_disable_autoread \in BOOLEAN,
           Readout(interruptn, cfg_disable_autoread)
    PROVE  readout_active' \in BOOLEAN
           /\ nodata_continue_counter' \in 0 .. cfg_nodata_continue
<1> cfg_nodata_continue \in Nat /\ readout_active \in BOOLEAN
    /\ nodata_continue_counter \in 0 .. cfg_nodata_continue
  BY DEF ProtocolAssumption, EnvironmentOK
<1>1. readout_active' \in BOOLEAN
  BY DEF Readout, readout
<1>2. \/ nodata_continue_counter' = cfg_nodata_continue
      \/ nodata_continue_counter' = nodata_continue_counter
      \/ /\ nodata_continue_counter # 0
         /\ nodata_continue_counter' = nodata_continue_counter - 1
  BY DEF Readout, readout
<1>3. nodata_continue_counter' \in 0 .. cfg_nodata_continue
  BY <1>2
<1> QED
  BY <1>1, <1>3

LEMMA RemainingType ==
    ASSUME EnvironmentOK
    PROVE  Remaining \in Seq(Byte)
BY HeadTailProperties DEF EnvironmentOK, Remaining, slave_byte_valid

LEMMA ArrivalStep ==
    ASSUME ProtocolAssumption, EnvironmentOK, Quiet \/ Arrive
    PROVE  miso' \in Seq(Byte)
           /\ sensor' \in [length : 0 .. MaxLength, sent : 0 .. MaxLength]
<1> MaxLength \in Nat /\ MaxLength >= 1
  BY DEF ProtocolAssumption
<1> DEFINE Sensor == [length : 0 .. MaxLength, sent : 0 .. MaxLength]
<1>1. CASE Quiet
  BY <1>1, RemainingType DEF Quiet, EnvironmentOK
<1>2. CASE Arrive
  <2>1. ASSUME NEW send \in Sendable
        PROVE  send.byte \in Byte /\ send.after \in Sensor
    <3>1. sensor \in Sensor
      BY DEF EnvironmentOK
    <3>2. CASE InFrame
      <4>1. sensor.sent + 1 \in 0 .. MaxLength
        BY <3>1, <3>2 DEF InFrame
      <4>2. PICK i \in BOOLEAN :
              send = [byte |-> [idle |-> i, low |-> IF i THEN 0 ELSE 1,
                                pos |-> sensor.sent + 1],
                      after |-> [sensor EXCEPT !.sent = sensor.sent + 1]]
        BY <3>2 DEF Sendable
      <4>3. (IF i THEN 0 ELSE 1) \in 0 .. MaxLength
        OBVIOUS
      <4>4. send.byte = [idle |-> i, low |-> IF i THEN 0 ELSE 1,
                         pos |-> sensor.sent + 1]
            /\ send.after = [sensor EXCEPT !.sent = sensor.sent + 1]
        BY <4>2
      <4>5. send.byte \in Byte
        BY <4>1, <4>3, <4>4 DEF Byte
      <4>6. send.after \in Sensor
        BY <3>1, <4>1, <4>4
      <4> QED
        BY <4>5, <4>6
    <3>3. CASE ~InFrame
      <4>1. send = [byte |-> IDLE, after |-> sensor]
            \/ \E n \in 0 .. MaxLength :
                  send = [byte |-> Header(n), after |-> [length |-> n, sent |-> 0]]
        BY <3>3 DEF Sendable
      <4>2. CASE send = [byte |-> IDLE, after |-> sensor]
        <5>1. IDLE \in Byte
          BY DEF IDLE, Byte
        <5> QED
          BY <3>1, <4>2, <5>1
      <4>3. ASSUME NEW n \in 0 .. MaxLength,
                   send = [byte |-> Header(n), after |-> [length |-> n, sent |-> 0]]
            PROVE  send.byte \in Byte /\ send.after \in Sensor
        <5>1. Header(n) \in Byte
          BY DEF Header, Byte
        <5>2. [length |-> n, sent |-> 0] \in Sensor
          OBVIOUS
        <5> QED
          BY <4>3, <5>1, <5>2
      <4> QED
        BY <4>1, <4>2, <4>3
    <3> QED
      BY <3>2, <3>3
  <2> QED
    BY <1>2, <2>1, RemainingType, AppendProperties DEF Arrive
<1> QED
  BY <1>1, <1>2

LEMMA EdgeStep ==
    ASSUME ProtocolAssumption, IInv, AnyEdge, Quiet \/ Arrive
    PROVE  IInv'
<1>1. PICK interruptn \in BOOLEAN, cfg_disable_autoread \in BOOLEAN,
           tready \in BOOLEAN : Edge(interruptn, cfg_disable_autoread, tready)
  BY DEF AnyEdge
<1>2. Observe(tready) /\ Readout(interruptn, cfg_disable_autoread)
  BY <1>1 DEF Edge
<1>3. DecoderOK' /\ Progress'
  <2>1. CASE WaitFrame
    BY <1>2, <2>1, WaitFrameStep
  <2>2. CASE HeaderLength(tready)
    BY <1>2, <2>2, HeaderLengthStep
  <2>3. CASE HeaderId(tready)
    BY <1>2, <2>3, HeaderIdStep
  <2>4. CASE Forward(tready)
    BY <1>2, <2>4, ForwardStep
  <2>5. CASE Receive(tready)
    BY <1>2, <2>5, ReceiveStep
  <2>6. CASE Timestamp(tready)
    BY <1>2, <2>6, TimestampStep
  <2> QED
    BY <1>1, <2>1, <2>2, <2>3, <2>4, <2>5, <2>6 DEF Edge
<1>4. FrameOK'
  BY <1>2, ObserveStep DEF IInv
<1>5. EnvironmentOK'
  BY <1>2, ReadoutStep, ArrivalStep DEF IInv, EnvironmentOK
<1> QED
  BY <1>3, <1>4, <1>5 DEF IInv

LEMMA ResetStep ==
    ASSUME ProtocolAssumption, IInv, LayerReset
    PROVE  IInv'
<1> MaxLength \in Nat
  BY DEF ProtocolAssumption
<1>1. DecoderOK'
  BY DEF LayerReset, IInv, DecoderOK, State, received
<1>2. miso' \in Seq(Byte)
  <2>1. PICK n \in 0 .. Len(Remaining) : miso' = SubSeq(Remaining, 1, n)
    BY DEF LayerReset
  <2>2. Remaining \in Seq(Byte) /\ Len(Remaining) \in Nat
    BY RemainingType, LenProperties DEF IInv
  <2>3. \A i \in 1 .. n : Remaining[i] \in Byte
    BY <2>2, ElementOfSeq
  <2> QED
    BY <2>1, <2>2, <2>3, SubSeqProperties
<1>3. EnvironmentOK'
  <2>1. /\ sensor' = [length |-> 0, sent |-> 0] /\ readout_active' = FALSE
        /\ nodata_continue_counter' = nodata_continue_counter
    BY DEF LayerReset
  <2>2. [length |-> 0, sent |-> 0] \in [length : 0 .. MaxLength, sent : 0 .. MaxLength]
    OBVIOUS
  <2> QED
    BY <1>2, <2>1, <2>2 DEF IInv, EnvironmentOK
<1>4. FrameOK'
  BY DEF LayerReset, FrameOK
<1>5. Current' = <<>>
  BY DEF LayerReset, Current, Ended
<1>6. AtWait'
  BY <1>5 DEF LayerReset, AtWait
<1> QED
  BY <1>1, <1>3, <1>4, <1>6 DEF IInv, Progress

LEMMA Initially ==
    ASSUME ProtocolAssumption, Init
    PROVE  IInv
<1> MaxLength \in Nat /\ cfg_nodata_continue \in Nat
  BY DEF ProtocolAssumption
<1>1. m_axis_tdata \in Word /\ frame_buffer \in Byte
  BY DEF Init, Word, Byte, Out, Header
<1>2. DecoderOK
  <2>1. /\ protocol_state = "WAIT_FRAME" /\ s_axis_tready = FALSE
        /\ m_axis_tvalid = FALSE /\ m_axis_tlast = FALSE
        /\ receive_frame_length = 0 /\ forward_frozen_timestamp = 0
        /\ stat_frame_detected = FALSE /\ stat_idle_detected = FALSE
        /\ status_frame_decoding = FALSE
    BY DEF Init
  <2>2. 0 \in 0 .. MaxLength
    OBVIOUS
  <2> QED
    BY <1>1, <2>1, <2>2 DEF DecoderOK, State, Tag
<1>3. EnvironmentOK /\ FrameOK
  <2>1. /\ readout_active = FALSE /\ nodata_continue_counter = 0
        /\ miso = <<>> /\ frame = <<>> /\ sensor = [length |-> 0, sent |-> 0]
    BY DEF Init
  <2>2. [length |-> 0, sent |-> 0] \in [length : 0 .. MaxLength, sent : 0 .. MaxLength]
    OBVIOUS
  <2>3. 0 \in 0 .. cfg_nodata_continue /\ <<>> \in Seq(Byte) /\ <<>> \in Seq(Word)
    OBVIOUS
  <2> QED
    BY <2>1, <2>2, <2>3 DEF EnvironmentOK, FrameOK
<1>4. AtWait
  BY DEF Init, AtWait, Current, Ended
<1> QED
  BY <1>2, <1>3, <1>4 DEF IInv, Progress

LEMMA Stutter ==
    ASSUME IInv, UNCHANGED vars
    PROVE  IInv'
<1>1. DecoderOK' /\ EnvironmentOK' /\ FrameOK'
  BY DEF IInv, vars, m_axis, received, readout, stats, DecoderOK, EnvironmentOK, FrameOK
<1>2. Current' = Current
  BY DEF Current, Ended, vars
<1>3. Progress'
  BY <1>2 DEF IInv, vars, m_axis, received, Progress, InFrameAt, Beginning, Fits,
     AtWait, AtLength, AtId, AtForward, AtReceive, AtStamp, Stamps
<1> QED
  BY <1>1, <1>3 DEF IInv

LEMMA Invariant == Spec => []IInv
<1>1. Init => IInv
  BY ProtocolAssumption, Initially
<1>2. IInv /\ [Next]_vars => IInv'
  BY ProtocolAssumption, EdgeStep, ResetStep, Stutter DEF Next
<1> QED
  BY <1>1, <1>2, PTL DEF Spec

(* Every register keeps its type; in particular the payload counter of the *)
(* decoder is never decremented below zero and its answer words stay in    *)
(* range.                                                                  *)
THEOREM TypeCorrect == Spec => []TypeOK
<1>1. IInv => TypeOK
  BY DEF IInv, DecoderOK, EnvironmentOK, TypeOK
<1> QED
  BY <1>1, Invariant, PTL

-----------------------------------------------------------------------------
(* What the sink is given.                                                 *)

LEMMA WholeFrame ==
    ASSUME NEW f \in Seq(Word), NEW n \in Nat, Beginning(f, n), Len(f) = n + 7
    PROVE  WellFormed(f)
<1>1. ASSUME NEW i \in 1 .. n + 7
      PROVE  Fits(f[i], i, n)
  BY <1>1 DEF Beginning
<1>2. f[1].kind = "length" /\ f[1].low = n + 6
  BY <1>1 DEF Fits
<1>3. f[2].kind = "id"
  BY <1>1 DEF Fits
<1>4. \A k \in 3 .. n + 3 : f[k].kind = "byte"
  BY <1>1 DEF Fits
<1>5. f[3].low = n
  BY <1>1 DEF Fits
<1>6. \A k \in 0 .. 3 : f[n + 4 + k] = Out("stamp", forward_frozen_timestamp, k)
  BY <1>1 DEF Fits
<1>7. f[n + 7].low = forward_frozen_timestamp
  <2>1. f[n + 4 + 3] = Out("stamp", forward_frozen_timestamp, 3)
    BY <1>6
  <2> QED
    BY <2>1 DEF Out
<1>8. /\ Len(f) >= 7 /\ Len(f) = f[1].low + 1 /\ Len(f) - 4 = n + 3
      /\ Len(f) - 7 = n /\ \A k \in 0 .. 3 : Len(f) - 3 + k = n + 4 + k
  BY <1>2
<1> QED
  BY <1>2, <1>3, <1>4, <1>5, <1>6, <1>7, <1>8 DEF WellFormed

(* The frame is as long as the position of the offered word says.          *)
LEMMA OfferedWord ==
    ASSUME ProtocolAssumption, IInv, m_axis_tvalid
    PROVE  \E n \in 0 .. MaxLength :
              /\ Beginning(Current, n)
              /\ \/ AtLength(n) \/ AtId(n) \/ AtForward(n)
                 \/ \E k \in 0 .. 3 : AtStamp(n, k)
BY DEF IInv, Progress, InFrameAt, AtWait, AtReceive

LEMMA TakenWord ==
    ASSUME ProtocolAssumption, IInv, NEW tready \in BOOLEAN, Observe(tready),
           Accepted(tready)
    PROVE  /\ m_axis_tlast => WellFormed(frame')
           /\ m_axis_tlast <=> m_axis_tdata.kind = "stamp" /\ m_axis_tdata.pos = 3
           /\ frame' # frame
<1> MaxLength \in Nat
  BY DEF ProtocolAssumption
<1>1. /\ Current \in Seq(Word) /\ m_axis_tdata \in Word
      /\ frame' = Append(Current, m_axis_tdata)
  BY ObserveStep DEF IInv, DecoderOK
<1>2. PICK n \in 0 .. MaxLength :
         /\ Beginning(Current, n)
         /\ \/ AtLength(n) \/ AtId(n) \/ AtForward(n)
            \/ \E k \in 0 .. 3 : AtStamp(n, k)
  BY OfferedWord DEF Accepted
<1>3. CASE \E k \in 0 .. 3 : AtStamp(n, k)
  <2>1. PICK k \in 0 .. 3 : AtStamp(n, k)
    BY <1>3
  <2>2. /\ m_axis_tlast = (k = 3)
        /\ m_axis_tdata = Out("stamp", forward_frozen_timestamp, k)
        /\ Len(Current) = n + 3 + k
    BY <2>1 DEF AtStamp
  <2>3. m_axis_tdata.kind = "stamp" /\ m_axis_tdata.pos = k
    BY <2>2 DEF Out
  <2>4. ASSUME m_axis_tlast
        PROVE  WellFormed(frame')
    <3>a. k = 3
      BY <2>2, <2>4, Zenon
    <3>1. k = 3 /\ n \in Nat /\ Len(Current) = n + 6
      BY <2>2, <3>a
    <3>2. Fits(m_axis_tdata, Len(Current) + 1, n)
      BY <2>2, <3>1 DEF Fits
    <3>3. Beginning(frame', n) /\ Len(frame') = n + 7
      BY <1>1, <1>2, <3>1, <3>2, BeginningAppend
    <3>4. frame' \in Seq(Word)
      BY <1>1, AppendProperties
    <3> QED
      BY <3>1, <3>3, <3>4, WholeFrame
  <2>5. Current = frame
    BY <2>2 DEF Current
  <2>6. frame' # frame
    <3>1. Len(frame') = Len(frame) + 1 /\ Len(frame) \in Nat
      BY <1>1, <2>5, AppendProperties, LenProperties
    <3> QED
      BY <3>1
  <2>7. m_axis_tlast <=> k = 3
    BY <2>2, Zenon
  <2> QED
    BY <2>3, <2>4, <2>6, <2>7
<1>4. CASE AtLength(n) \/ AtId(n) \/ AtForward(n)
  <2>1. m_axis_tlast = FALSE /\ m_axis_tdata.kind # "stamp"
    BY <1>4 DEF AtLength, AtId, AtForward, Out
  <2>2. frame' # frame
    <3>1. CASE Ended(frame)
      <4>1. /\ frame'[Len(frame')] = m_axis_tdata
        BY <1>1, AppendProperties, LenProperties
      <4> QED
        BY <2>1, <3>1, <4>1 DEF Ended
    <3>2. CASE ~Ended(frame)
      <4>1. Current = frame
        BY <3>2 DEF Current
      <4>2. Len(frame') = Len(frame) + 1 /\ Len(frame) \in Nat
        BY <1>1, <4>1, AppendProperties, LenProperties
      <4> QED
        BY <4>2
    <3> QED
      BY <3>1, <3>2
  <2> QED
    BY <2>1, <2>2
<1> QED
  BY <1>2, <1>3, <1>4

(* tlast comes with the fourth timestamp byte and no other word, and every *)
(* frame it ends has the length its first byte announces, header and       *)
(* payload as many as the header says, and four timestamp bytes of one     *)
(* counter value: whatever arrives, and whenever the sink stalls or the    *)
(* layer is reset.                                                         *)
THEOREM FramesWellFormed == Spec => FrameWellFormed
<1>1. ASSUME IInv, [Next]_vars
      PROVE  [Taken => /\ m_axis_tlast => WellFormed(frame')
                       /\ m_axis_tlast <=> m_axis_tdata.kind = "stamp"
                                              /\ m_axis_tdata.pos = 3]_vars
  <2>1. CASE AnyEdge
    <3>1. PICK tready \in BOOLEAN : Observe(tready)
      BY <2>1 DEF AnyEdge, Edge
    <3>2. CASE Accepted(tready)
      BY <1>1, <3>1, <3>2, ProtocolAssumption, TakenWord
    <3>3. CASE ~Accepted(tready)
      BY <3>1, <3>3 DEF Observe, Taken
    <3> QED
      BY <3>2, <3>3
  <2>2. CASE LayerReset
    BY <2>2 DEF LayerReset, Taken
  <2>3. CASE UNCHANGED vars
    BY <2>3
  <2> QED
    BY <1>1, <2>1, <2>2, <2>3 DEF Next
<1> QED
  BY <1>1, Invariant, PTL DEF Spec, FrameWellFormed

(* An offered word stays on m_axis until the sink takes it or the layer is *)
(* reset.                                                                  *)
THEOREM OffersStay == Spec => OfferStays
<1>1. ASSUME IInv, [Next]_vars
      PROVE  [m_axis_tvalid /\ frame' = frame /\ ~LayerReset => UNCHANGED m_axis]_vars
  <2>1. ASSUME AnyEdge, m_axis_tvalid, frame' = frame
        PROVE  UNCHANGED m_axis
    <3>1. PICK tready \in BOOLEAN :
             /\ Observe(tready)
             /\ \/ WaitFrame \/ HeaderLength(tready) \/ HeaderId(tready)
                \/ Forward(tready) \/ Receive(tready) \/ Timestamp(tready)
      BY <2>1 DEF AnyEdge, Edge
    <3>2. ~Accepted(tready)
      BY <1>1, <2>1, <3>1, ProtocolAssumption, TakenWord
    <3>3. protocol_state # "WAIT_FRAME" /\ protocol_state # "RECEIVE"
      BY <1>1, <2>1, ProtocolAssumption, OfferedWord
         DEF AtLength, AtId, AtForward, AtStamp, Stamps
    <3> QED
      BY <3>1, <3>2, <3>3
         DEF WaitFrame, HeaderLength, HeaderId, Forward, Receive, Timestamp, m_axis
  <2> QED
    BY <1>1, <2>1 DEF Next
<1> QED
  BY <1>1, Invariant, PTL DEF Spec, OfferStays

-----------------------------------------------------------------------------
(* The strobe of the frame counter.                                        *)

StrobeOK == stat_frame_detected \in BOOLEAN
            /\ (stat_frame_detected => protocol_state = "HEADER_LENGTH")

LEMMA StrobeStep ==
    ASSUME StrobeOK, AnyEdge
    PROVE  StrobeOK' /\ (stat_frame_detected' <=> HeaderAccepted)
<1>1. PICK tready \in BOOLEAN :
         \/ WaitFrame \/ HeaderLength(tready) \/ HeaderId(tready)
         \/ Forward(tready) \/ Receive(tready) \/ Timestamp(tready)
  BY DEF AnyEdge, Edge
<1>2. CASE WaitFrame
  <2>1. CASE HeaderAccepted
    BY <1>2, <2>1 DEF WaitFrame, StrobeOK
  <2>2. CASE ~HeaderAccepted
    BY <1>2, <2>2 DEF WaitFrame, StrobeOK
  <2> QED
    BY <2>1, <2>2
<1>3. CASE HeaderLength(tready)
  BY <1>3 DEF HeaderLength, HeaderAccepted, StrobeOK
<1>4. CASE HeaderId(tready)
  BY <1>4 DEF HeaderId, HeaderAccepted, StrobeOK, stats
<1>5. CASE Forward(tready)
  BY <1>5 DEF Forward, HeaderAccepted, StrobeOK
<1>6. CASE Receive(tready)
  BY <1>6 DEF Receive, HeaderAccepted, StrobeOK, stats
<1>7. CASE Timestamp(tready)
  BY <1>7 DEF Timestamp, After, HeaderAccepted, StrobeOK, stats
<1> QED
  BY <1>1, <1>2, <1>3, <1>4, <1>5, <1>6, <1>7

(* The strobe that counts frames is set after every accepted header, for   *)
(* one cycle, and after nothing else.                                      *)
THEOREM FramesCounted == Spec => FrameCounted
<1>1. Init => StrobeOK
  BY DEF Init, StrobeOK
<1>2. ASSUME StrobeOK, [Next]_vars
      PROVE  StrobeOK' /\ [stat_frame_detected' <=> HeaderAccepted /\ ~LayerReset]_vars
  <2>1. CASE AnyEdge
    <3>1. StrobeOK' /\ (stat_frame_detected' <=> HeaderAccepted)
      BY <1>2, <2>1, StrobeStep
    <3>2. LayerReset => stat_frame_detected' = FALSE
      BY DEF LayerReset
    <3> QED
      BY <3>1, <3>2
  <2>2. CASE LayerReset
    BY <2>2 DEF LayerReset, StrobeOK
  <2>3. CASE UNCHANGED vars
    BY <1>2, <2>3 DEF vars, stats, StrobeOK
  <2> QED
    BY <1>2, <2>1, <2>2, <2>3 DEF Next
<1> QED
  BY <1>1, <1>2, PTL DEF Spec, FrameCounted


-----------------------------------------------------------------------------
(* The payload of a Paced link: no byte waits while the decoder is busy,   *)
(* so the decoder is always at the byte the sensor has sent last.          *)

InOrder(f) == \A k \in 3 .. Len(f) : f[k].kind = "byte" => f[k].pos = k - 3

NothingLeft == sensor.sent = sensor.length

(* Between frames a waiting byte is idle, or the header of a new frame.    *)
InStepWait ==
    protocol_state = "WAIT_FRAME" =>
        /\ miso = <<>> => NothingLeft
        /\ miso # <<>> =>
              \/ s_axis_tdata.idle /\ NothingLeft
              \/ /\ ~s_axis_tdata.idle /\ s_axis_tdata.pos = 0
                 /\ s_axis_tdata.low = sensor.length /\ sensor.sent = 0

InStepHeader ==
    protocol_state \in {"HEADER_LENGTH", "HEADER_ID"} =>
        /\ frame_buffer.pos = 0
        /\ sensor.sent = 0 /\ sensor.length = receive_frame_length

(* The byte that is forwarded is the last one sent, and the one after it   *)
(* in the frame.                                                           *)
InStepForward ==
    protocol_state = "FORWARD" =>
        /\ sensor.sent + receive_frame_length = sensor.length
        /\ m_axis_tdata.pos = sensor.sent
        /\ Len(Current) = sensor.sent + 2

InStepReceive ==
    protocol_state = "RECEIVE" =>
        /\ s_axis_tready = TRUE
        /\ miso = <<>> =>
              /\ sensor.sent + receive_frame_length = sensor.length
              /\ Len(Current) = sensor.sent + 3
        /\ miso # <<>> =>
              /\ sensor.sent + receive_frame_length = sensor.length + 1
              /\ s_axis_tdata.pos = sensor.sent
              /\ Len(Current) = sensor.sent + 2

InStepStamp == protocol_state \in DOMAIN After => NothingLeft

(* A byte that waits is taken by the next edge.                            *)
TakenAtOnce ==
    miso # <<>> => /\ s_axis_tready = TRUE /\ Tail(miso) = <<>>
                   /\ protocol_state \in {"WAIT_FRAME", "RECEIVE"}

InStep ==
    /\ TakenAtOnce
    /\ InStepWait /\ InStepHeader /\ InStepForward /\ InStepReceive /\ InStepStamp
    /\ InOrder(frame)

PacedInStep == Paced => InStep

LEMMA InOrderAppend ==
    ASSUME NEW c \in Seq(Word), NEW w \in Word, InOrder(c),
           w.kind = "byte" => w.pos = Len(c) - 2
    PROVE  InOrder(Append(c, w))
<1>1. /\ Len(c) \in Nat
      /\ Len(Append(c, w)) = Len(c) + 1
      /\ \A i \in 1 .. Len(c) : Append(c, w)[i] = c[i]
      /\ Append(c, w)[Len(c) + 1] = w
  BY AppendProperties, LenProperties
<1>2. ASSUME NEW k \in 3 .. Len(c) + 1, Append(c, w)[k].kind = "byte"
      PROVE  Append(c, w)[k].pos = k - 3
  <2>1. CASE k = Len(c) + 1
    <3>1. w.pos = Len(c) - 2
      BY <1>1, <1>2, <2>1
    <3> QED
      BY <1>1, <2>1, <3>1
  <2>2. CASE k # Len(c) + 1
    <3>1. k \in 3 .. Len(c) /\ Append(c, w)[k] = c[k]
      BY <1>1, <2>2
    <3> QED
      BY <1>2, <3>1 DEF InOrder
  <2> QED
    BY <2>1, <2>2
<1> QED
  BY <1>1, <1>2 DEF InOrder

(* What the sink is given keeps the order of the sensor.                   *)
LEMMA InOrderStep ==
    ASSUME ProtocolAssumption, IInv, InStep, NEW tready \in BOOLEAN, Observe(tready)
    PROVE  InOrder(frame')
<1>1. InOrder(frame)
  BY DEF InStep
<1>2. CASE Accepted(tready)
  <2>1. /\ Current \in Seq(Word) /\ m_axis_tdata \in Word
        /\ frame' = Append(Current, m_axis_tdata)
    BY <1>2, ObserveStep DEF IInv, DecoderOK
  <2>2. InOrder(Current)
    BY <1>1 DEF Current, InOrder
  <2>3. PICK n \in 0 .. MaxLength :
          AtLength(n) \/ AtId(n) \/ AtForward(n) \/ \E k \in 0 .. 3 : AtStamp(n, k)
    BY <1>2, OfferedWord DEF Accepted
  <2>4. m_axis_tdata.kind = "byte" => protocol_state = "FORWARD"
    BY <2>3 DEF AtLength, AtId, AtForward, AtStamp, Out
  <2>5. protocol_state = "FORWARD" =>
          m_axis_tdata.pos = sensor.sent /\ Len(Current) = sensor.sent + 2
    BY DEF InStep, InStepForward
  <2>6. sensor.sent \in Nat
    BY DEF IInv, EnvironmentOK
  <2>7. m_axis_tdata.kind = "byte" => m_axis_tdata.pos = Len(Current) - 2
    BY <2>4, <2>5, <2>6
  <2> QED
    BY <2>1, <2>2, <2>7, InOrderAppend
<1>3. CASE ~Accepted(tready)
  BY <1>1, <1>3, ObserveStep DEF IInv
<1> QED
  BY <1>2, <1>3

LEMMA OneByte ==
    ASSUME NEW b
    PROVE  /\ Append(<<>>, b) # <<>>
           /\ Head(Append(<<>>, b)) = b /\ Tail(Append(<<>>, b)) = <<>>
OBVIOUS

(* A waiting byte is taken and no other comes; when none waits, one may    *)
(* come where the decoder can take it.                                     *)
Came(b) == miso' # <<>> /\ s_axis_tdata' = b /\ Tail(miso') = <<>>

LEMMA PacedArrival ==
    ASSUME ProtocolAssumption, Paced, EnvironmentOK, TakenAtOnce, Quiet \/ Arrive
    PROVE  /\ miso # <<>> => slave_byte_valid /\ miso' = <<>> /\ sensor' = sensor
           /\ miso = <<>> =>
                 /\ ~slave_byte_valid
                 /\ \/ miso' = <<>> /\ sensor' = sensor
                    \/ /\ protocol_state \in {"WAIT_FRAME", "RECEIVE"}
                       /\ \/ /\ sensor.sent < sensor.length
                             /\ \E b \in Byte : Came(b) /\ b.pos = sensor.sent + 1
                             /\ sensor'.length = sensor.length
                             /\ sensor'.sent = sensor.sent + 1
                          \/ /\ ~(sensor.sent < sensor.length)
                             /\ \/ Came(IDLE) /\ sensor' = sensor
                                \/ \E n \in 0 .. MaxLength :
                                      /\ Came(Header(n))
                                      /\ sensor'.length = n /\ sensor'.sent = 0
<1> MaxLength \in Nat
  BY DEF ProtocolAssumption
<1>1. CASE miso # <<>>
  <2>1. slave_byte_valid /\ Remaining = <<>>
    BY <1>1 DEF TakenAtOnce, slave_byte_valid, Remaining
  <2>2. Quiet
    BY <1>1 DEF Arrive, CanArrive
  <2> QED
    BY <1>1, <2>1, <2>2 DEF Quiet
<1>2. CASE miso = <<>>
  <2>1. ~slave_byte_valid /\ Remaining = <<>>
    BY <1>2 DEF slave_byte_valid, Remaining
  <2>2. CASE Quiet
    BY <1>2, <2>1, <2>2 DEF Quiet
  <2>3. CASE Arrive
    <3>1. PICK send \in Sendable : miso' = Append(<<>>, send.byte) /\ sensor' = send.after
      BY <2>1, <2>3 DEF Arrive
    <3>2. protocol_state \in {"WAIT_FRAME", "RECEIVE"}
      BY <2>3 DEF Arrive, CanArrive
    <3>3. Came(send.byte)
      BY <3>1, OneByte DEF Came, s_axis_tdata
    <3>4. CASE InFrame
      <4>1. PICK i \in BOOLEAN :
              send = [byte |-> [idle |-> i, low |-> IF i THEN 0 ELSE 1,
                                pos |-> sensor.sent + 1],
                      after |-> [sensor EXCEPT !.sent = sensor.sent + 1]]
        BY <3>4 DEF Sendable
      <4>2. /\ send.byte = [idle |-> i, low |-> IF i THEN 0 ELSE 1,
                            pos |-> sensor.sent + 1]
            /\ send.after = [sensor EXCEPT !.sent = sensor.sent + 1]
        BY <4>1
      <4>3. sensor \in [length : 0 .. MaxLength, sent : 0 .. MaxLength]
        BY DEF EnvironmentOK
      <4>4. sensor.sent < sensor.length
        BY <3>4 DEF InFrame
      <4>5. sensor.sent + 1 \in 0 .. MaxLength /\ (IF i THEN 0 ELSE 1) \in 0 .. MaxLength
        BY <4>3, <4>4 DEF ProtocolAssumption
      <4>6. send.byte \in Byte
        BY <4>2, <4>5 DEF Byte
      <4>7. send.byte.pos = sensor.sent + 1
        BY <4>2
      <4>8. sensor'.length = sensor.length /\ sensor'.sent = sensor.sent + 1
        BY <3>1, <4>2, <4>3
      <4> QED
        BY <1>2, <2>1, <3>2, <3>3, <4>4, <4>6, <4>7, <4>8
    <3>5. CASE ~InFrame
      <4>1. send = [byte |-> IDLE, after |-> sensor]
            \/ \E n \in 0 .. MaxLength :
                  send = [byte |-> Header(n), after |-> [length |-> n, sent |-> 0]]
        BY <3>5 DEF Sendable
      <4>2. CASE send = [byte |-> IDLE, after |-> sensor]
        <5>1. Came(IDLE) /\ sensor' = sensor
          BY <3>1, <3>3, <4>2
        <5> QED
          BY <1>2, <2>1, <3>2, <3>5, <5>1 DEF InFrame
      <4>3. CASE \E n \in 0 .. MaxLength :
                    send = [byte |-> Header(n), after |-> [length |-> n, sent |-> 0]]
        <5>1. PICK n \in 0 .. MaxLength :
                    send = [byte |-> Header(n), after |-> [length |-> n, sent |-> 0]]
          BY <4>3
        <5>2. Came(Header(n)) /\ sensor'.length = n /\ sensor'.sent = 0
          BY <3>1, <3>3, <5>1
        <5> QED
          BY <1>2, <2>1, <3>2, <3>5, <5>2 DEF InFrame
      <4> QED
        BY <4>1, <4>2, <4>3
    <3> QED
      BY <3>4, <3>5
  <2> QED
    BY <2>2, <2>3
<1> QED
  BY <1>1, <1>2

LEMMA SensorType ==
    ASSUME ProtocolAssumption, IInv
    PROVE  /\ sensor.sent \in Nat /\ sensor.length \in Nat
           /\ receive_frame_length \in Nat /\ Len(Current) \in Nat
           /\ Current \in Seq(Word)
<1>1. Current \in Seq(Word)
  BY DEF IInv, FrameOK, Current
<1> QED
  BY <1>1, LenProperties DEF IInv, DecoderOK, EnvironmentOK, ProtocolAssumption

(* One lemma per protocol state, as above.                                 *)

LEMMA WaitFrameInStep ==
    ASSUME ProtocolAssumption, Paced, IInv, InStep, WaitFrame, Quiet \/ Arrive
    PROVE  TakenAtOnce' /\ InStepWait' /\ InStepHeader'
           /\ protocol_state' \in {"WAIT_FRAME", "HEADER_LENGTH"}
<1>0. TakenAtOnce /\ InStepWait /\ protocol_state = "WAIT_FRAME"
  BY DEF InStep, WaitFrame
<1>1. CASE HeaderAccepted
  <2>1. miso # <<>> /\ ~s_axis_tdata.idle
    BY <1>1 DEF HeaderAccepted, slave_byte_valid
  <2>2. miso' = <<>> /\ sensor' = sensor
    BY <1>0, <2>1, PacedArrival DEF IInv
  <2>3. protocol_state' = "HEADER_LENGTH" /\ frame_buffer' = s_axis_tdata
        /\ receive_frame_length' = s_axis_tdata.low
    BY <1>1 DEF WaitFrame
  <2>4. s_axis_tdata.pos = 0 /\ s_axis_tdata.low = sensor.length /\ sensor.sent = 0
    BY <1>0, <2>1 DEF InStepWait
  <2> QED
    BY <2>2, <2>3, <2>4 DEF TakenAtOnce, InStepWait, InStepHeader
<1>2. CASE ~HeaderAccepted
  <2>1. protocol_state' = "WAIT_FRAME" /\ s_axis_tready' = TRUE
    BY <1>0, <1>2 DEF WaitFrame
  <2>2. CASE miso # <<>>
    <3>1. slave_byte_valid /\ miso' = <<>> /\ sensor' = sensor
      BY <1>0, <2>2, PacedArrival DEF IInv
    <3>2. s_axis_tdata.idle
      BY <1>0, <1>2, <3>1 DEF HeaderAccepted
    <3>3. NothingLeft
      BY <1>0, <2>2, <3>2 DEF InStepWait
    <3> QED
      BY <2>1, <3>1, <3>3 DEF TakenAtOnce, InStepWait, InStepHeader, NothingLeft
  <2>3. CASE miso = <<>>
    <3>1. NothingLeft /\ ~(sensor.sent < sensor.length)
      BY <1>0, <2>3, SensorType DEF InStepWait, NothingLeft
    <3>2. CASE miso' = <<>> /\ sensor' = sensor
      BY <2>1, <3>1, <3>2 DEF TakenAtOnce, InStepWait, InStepHeader, NothingLeft
    <3>3. CASE Came(IDLE) /\ sensor' = sensor
      <4>1. IDLE.idle
        BY DEF IDLE
      <4>2. miso' # <<>> /\ Tail(miso') = <<>> /\ s_axis_tdata'.idle
        BY <3>3, <4>1 DEF Came
      <4>3. NothingLeft'
        BY <3>1, <3>3 DEF NothingLeft
      <4>4. TakenAtOnce'
        BY <2>1, <4>2 DEF TakenAtOnce
      <4>5. InStepWait'
        BY <2>1, <4>2, <4>3 DEF InStepWait
      <4> QED
        BY <2>1, <4>4, <4>5 DEF InStepHeader
    <3>4. CASE \E n \in 0 .. MaxLength :
                  Came(Header(n)) /\ sensor'.length = n /\ sensor'.sent = 0
      <4>1. PICK n \in 0 .. MaxLength :
                  Came(Header(n)) /\ sensor'.length = n /\ sensor'.sent = 0
        BY <3>4
      <4>2. ~Header(n).idle /\ Header(n).pos = 0 /\ Header(n).low = n
        BY DEF Header
      <4>3. /\ miso' # <<>> /\ Tail(miso') = <<>>
            /\ ~s_axis_tdata'.idle /\ s_axis_tdata'.pos = 0 /\ s_axis_tdata'.low = n
        BY <4>1, <4>2 DEF Came
      <4>4. TakenAtOnce'
        BY <2>1, <4>3 DEF TakenAtOnce
      <4>5. InStepWait'
        BY <2>1, <4>1, <4>3 DEF InStepWait
      <4> QED
        BY <2>1, <4>4, <4>5 DEF InStepHeader
    <3> QED
      BY <1>0, <2>3, <3>1, <3>2, <3>3, <3>4, PacedArrival DEF IInv
  <2> QED
    BY <2>1, <2>2, <2>3
<1> QED
  BY <1>1, <1>2 DEF WaitFrame

(* In a frame nothing comes but where RECEIVE waits for it.                *)
LEMMA NothingComes ==
    ASSUME ProtocolAssumption, Paced, IInv, TakenAtOnce, Quiet \/ Arrive,
           protocol_state \notin {"WAIT_FRAME", "RECEIVE"}
    PROVE  miso' = <<>> /\ sensor' = sensor
BY PacedArrival DEF IInv, TakenAtOnce

LEMMA HeaderInStep ==
    ASSUME ProtocolAssumption, Paced, IInv, InStep, NEW tready \in BOOLEAN,
           HeaderLength(tready) \/ HeaderId(tready), Observe(tready), Quiet \/ Arrive
    PROVE  TakenAtOnce' /\ InStepHeader' /\ InStepForward'
           /\ protocol_state' \in {"HEADER_LENGTH", "HEADER_ID", "FORWARD"}
<1>0. /\ TakenAtOnce /\ InStepHeader
      /\ protocol_state \in {"HEADER_LENGTH", "HEADER_ID"}
  BY DEF InStep, HeaderLength, HeaderId
<1>1. miso' = <<>> /\ sensor' = sensor
  BY <1>0, NothingComes
<1>2. /\ frame_buffer' = frame_buffer /\ receive_frame_length' = receive_frame_length
  BY DEF HeaderLength, HeaderId, received
<1>3. frame_buffer.pos = 0 /\ sensor.sent = 0 /\ sensor.length = receive_frame_length
  BY <1>0 DEF InStepHeader
<1>4. TakenAtOnce' /\ InStepHeader'
  BY <1>1, <1>2, <1>3 DEF TakenAtOnce, InStepHeader
<1>5. CASE protocol_state = "HEADER_ID" /\ Accepted(tready)
  <2>1. HeaderId(tready)
    BY <1>5 DEF HeaderLength
  <2>2. protocol_state' = "FORWARD" /\ m_axis_tdata' = Out("byte", frame_buffer.low, frame_buffer.pos)
    BY <1>5, <2>1 DEF HeaderId
  <2>3. m_axis_tdata'.pos = 0
    BY <1>3, <2>2 DEF Out
  <2>4. PICK n \in 0 .. MaxLength : AtId(n)
    BY <1>5 DEF IInv, Progress, InFrameAt, AtWait, AtLength, AtForward, AtReceive,
       AtStamp, Stamps
  <2>5. Len(Current) = 1 /\ m_axis_tdata.kind # "stamp"
    BY <2>4 DEF AtId, Out
  <2>6. Current \in Seq(Word) /\ m_axis_tdata \in Word /\ frame' = Append(Current, m_axis_tdata)
    BY <1>5, ObserveStep DEF IInv, DecoderOK
  <2>7. Current' = Append(Current, m_axis_tdata)
    BY <2>5, <2>6, CurrentStep
  <2>8. Len(Current)' = 2
    <3>1. Len(Append(Current, m_axis_tdata)) = Len(Current) + 1
      BY <2>6, AppendProperties
    <3> QED
      BY <2>5, <2>7, <3>1
  <2>9. sensor'.sent + receive_frame_length' = sensor'.length
    BY <1>1, <1>2, <1>3, SensorType
  <2>10. InStepForward'
    BY <1>1, <1>3, <2>3, <2>8, <2>9 DEF InStepForward
  <2> QED
    BY <1>4, <2>2, <2>10
<1>6. CASE ~(protocol_state = "HEADER_ID" /\ Accepted(tready))
  <2>1. protocol_state' \in {"HEADER_LENGTH", "HEADER_ID"}
    BY <1>6 DEF HeaderLength, HeaderId
  <2> QED
    BY <1>4, <2>1 DEF InStepForward
<1> QED
  BY <1>5, <1>6

LEMMA ForwardInStep ==
    ASSUME ProtocolAssumption, Paced, IInv, InStep, NEW tready \in BOOLEAN,
           Forward(tready), Observe(tready), Quiet \/ Arrive
    PROVE  TakenAtOnce' /\ InStepForward' /\ InStepReceive' /\ InStepStamp'
           /\ protocol_state' \in {"FORWARD", "RECEIVE", "TIMESTAMP0"}
<1>0. TakenAtOnce /\ InStepForward /\ protocol_state = "FORWARD"
  BY DEF InStep, Forward
<1>1. miso' = <<>> /\ sensor' = sensor
  BY <1>0, NothingComes
<1>2. receive_frame_length' = receive_frame_length
  BY DEF Forward, received
<1>3. /\ sensor.sent + receive_frame_length = sensor.length
      /\ m_axis_tdata.pos = sensor.sent /\ Len(Current) = sensor.sent + 2
  BY <1>0 DEF InStepForward
<1>4. TakenAtOnce'
  BY <1>1 DEF TakenAtOnce
<1>5. CASE ~Accepted(tready)
  <2>1. protocol_state' = "FORWARD" /\ m_axis_tdata' = m_axis_tdata
    BY <1>0, <1>5 DEF Forward, m_axis
  <2>2. Current' = Current
    BY <1>5, ObserveStep DEF IInv
  <2>3. InStepForward'
    BY <1>1, <1>2, <1>3, <2>1, <2>2 DEF InStepForward
  <2> QED
    BY <1>4, <2>1, <2>3 DEF InStepReceive, InStepStamp, After
<1>6. CASE Accepted(tready) /\ receive_frame_length = 0
  <2>1. protocol_state' = "TIMESTAMP0"
    BY <1>6 DEF Forward
  <2>2. sensor.sent = sensor.length
    BY <1>3, <1>6, SensorType
  <2> QED
    BY <1>1, <1>4, <2>1, <2>2 DEF InStepForward, InStepReceive, InStepStamp, NothingLeft
<1>7. CASE Accepted(tready) /\ receive_frame_length # 0
  <2>1. protocol_state' = "RECEIVE" /\ s_axis_tready' = TRUE
    BY <1>7 DEF Forward
  <2>2. PICK n \in 0 .. MaxLength : AtForward(n)
    BY <1>0 DEF IInv, Progress, InFrameAt, AtWait, AtLength, AtId, AtReceive,
       AtStamp, Stamps
  <2>3. m_axis_tdata.kind # "stamp"
    BY <2>2 DEF AtForward
  <2>4. Current \in Seq(Word) /\ m_axis_tdata \in Word /\ frame' = Append(Current, m_axis_tdata)
    BY <1>7, ObserveStep DEF IInv, DecoderOK
  <2>5. Current' = Append(Current, m_axis_tdata)
    BY <2>3, <2>4, CurrentStep
  <2>6. Len(Current)' = Len(Current) + 1
    BY <2>4, <2>5, AppendProperties
  <2>7. Len(Current)' = sensor.sent + 3
    BY <1>3, <2>6, SensorType
  <2>8. InStepReceive'
    BY <1>1, <1>2, <1>3, <2>1, <2>7 DEF InStepReceive
  <2> QED
    BY <1>4, <2>1, <2>8 DEF InStepForward, InStepStamp, After
<1> QED
  BY <1>5, <1>6, <1>7

LEMMA ReceiveInStep ==
    ASSUME ProtocolAssumption, Paced, IInv, InStep, NEW tready \in BOOLEAN,
           Receive(tready), Observe(tready), Quiet \/ Arrive
    PROVE  TakenAtOnce' /\ InStepForward' /\ InStepReceive'
           /\ protocol_state' \in {"FORWARD", "RECEIVE"}
<1>0. TakenAtOnce /\ InStepReceive /\ protocol_state = "RECEIVE" /\ s_axis_tready = TRUE
  BY DEF InStep, InStepReceive, Receive
<1>1. PICK n \in 0 .. MaxLength : AtReceive(n)
  BY <1>0 DEF IInv, Progress, InFrameAt, AtWait, AtLength, AtId, AtForward,
     AtStamp, Stamps
<1>2. Current' = Current
  BY <1>1, ObserveStep DEF IInv, AtReceive, Accepted
<1>3. CASE miso # <<>>
  <2>1. slave_byte_valid /\ miso' = <<>> /\ sensor' = sensor
    BY <1>0, <1>3, PacedArrival DEF IInv
  <2>2. /\ protocol_state' = "FORWARD" /\ m_axis_tdata' = ReceivedWord
        /\ receive_frame_length' = receive_frame_length - 1
    BY <2>1 DEF Receive
  <2>3. /\ sensor.sent + receive_frame_length = sensor.length + 1
        /\ s_axis_tdata.pos = sensor.sent /\ Len(Current) = sensor.sent + 2
    BY <1>0, <1>3 DEF InStepReceive
  <2>4. m_axis_tdata'.pos = sensor.sent
    BY <2>2, <2>3 DEF ReceivedWord, Out
  <2>5. sensor.sent + receive_frame_length' = sensor.length
    BY <2>2, <2>3, SensorType
  <2>6. InStepForward'
    BY <1>2, <2>1, <2>3, <2>4, <2>5 DEF InStepForward
  <2> QED
    BY <2>1, <2>2, <2>6 DEF TakenAtOnce, InStepReceive
<1>4. CASE miso = <<>>
  <2>1. ~slave_byte_valid
    BY <1>4 DEF slave_byte_valid
  <2>2. /\ protocol_state' = "RECEIVE" /\ s_axis_tready' = TRUE
        /\ receive_frame_length' = receive_frame_length
    BY <1>0, <2>1 DEF Receive
  <2>3. /\ sensor.sent + receive_frame_length = sensor.length
        /\ Len(Current) = sensor.sent + 3
    BY <1>0, <1>4 DEF InStepReceive
  <2>4. receive_frame_length >= 1
    BY <1>1 DEF AtReceive
  <2>5. sensor.sent < sensor.length
    BY <2>3, <2>4, SensorType
  <2>6. CASE miso' = <<>> /\ sensor' = sensor
    <3>1. InStepReceive'
      BY <1>2, <2>2, <2>3, <2>6 DEF InStepReceive
    <3> QED
      BY <2>2, <2>6, <3>1 DEF TakenAtOnce, InStepForward
  <2>7. CASE /\ \E b \in Byte : Came(b) /\ b.pos = sensor.sent + 1
             /\ sensor'.length = sensor.length /\ sensor'.sent = sensor.sent + 1
    <3>1. miso' # <<>> /\ Tail(miso') = <<>> /\ s_axis_tdata'.pos = sensor'.sent
      BY <2>7 DEF Came
    <3>2. sensor'.sent + receive_frame_length' = sensor'.length + 1
          /\ Len(Current)' = sensor'.sent + 2
      BY <1>2, <2>2, <2>3, <2>7, SensorType
    <3>3. InStepReceive'
      BY <2>2, <3>1, <3>2 DEF InStepReceive
    <3> QED
      BY <2>2, <3>1, <3>3 DEF TakenAtOnce, InStepForward
  <2> QED
    BY <1>0, <1>4, <2>5, <2>6, <2>7, PacedArrival DEF IInv
<1> QED
  BY <1>3, <1>4

LEMMA TimestampInStep ==
    ASSUME ProtocolAssumption, Paced, IInv, InStep, NEW tready \in BOOLEAN,
           Timestamp(tready), Quiet \/ Arrive
    PROVE  TakenAtOnce' /\ InStepWait' /\ InStepStamp'
           /\ protocol_state' \in {"WAIT_FRAME", "TIMESTAMP0", "TIMESTAMP1",
                                   "TIMESTAMP2", "TIMESTAMP3"}
<1>0. TakenAtOnce /\ InStepStamp /\ protocol_state \in DOMAIN After
  BY DEF InStep, Timestamp
<1>1. protocol_state \in {"TIMESTAMP0", "TIMESTAMP1", "TIMESTAMP2", "TIMESTAMP3"}
  BY <1>0 DEF After
<1>2. miso' = <<>> /\ sensor' = sensor
  BY <1>0, <1>1, NothingComes
<1>3. protocol_state' \in {"WAIT_FRAME", "TIMESTAMP0", "TIMESTAMP1", "TIMESTAMP2", "TIMESTAMP3"}
  BY <1>1 DEF Timestamp, After
<1>4. NothingLeft'
  BY <1>0, <1>2 DEF InStepStamp, NothingLeft
<1> QED
  BY <1>2, <1>3, <1>4 DEF TakenAtOnce, InStepWait, InStepStamp

LEMMA EdgeInStep ==
    ASSUME ProtocolAssumption, Paced, IInv, InStep, AnyEdge, Quiet \/ Arrive
    PROVE  InStep'
<1>1. PICK tready \in BOOLEAN :
         /\ Observe(tready)
         /\ \/ WaitFrame \/ HeaderLength(tready) \/ HeaderId(tready)
            \/ Forward(tready) \/ Receive(tready) \/ Timestamp(tready)
  BY DEF AnyEdge, Edge
<1>2. InOrder(frame)'
  BY <1>1, InOrderStep DEF InOrder
<1> USE DEF InStep, After
<1>3. CASE WaitFrame
  BY <1>2, <1>3, WaitFrameInStep DEF InStepForward, InStepReceive, InStepStamp
<1>4. CASE HeaderLength(tready) \/ HeaderId(tready)
  BY <1>1, <1>2, <1>4, HeaderInStep DEF InStepWait, InStepReceive, InStepStamp
<1>5. CASE Forward(tready)
  BY <1>1, <1>2, <1>5, ForwardInStep DEF InStepWait, InStepHeader
<1>6. CASE Receive(tready)
  BY <1>1, <1>2, <1>6, ReceiveInStep DEF InStepWait, InStepHeader, InStepStamp
<1>7. CASE Timestamp(tready)
  BY <1>2, <1>7, TimestampInStep DEF InStepHeader, InStepForward, InStepReceive
<1> QED
  BY <1>1, <1>3, <1>4, <1>5, <1>6, <1>7

LEMMA ResetInStep ==
    ASSUME InStep, LayerReset
    PROVE  InStep'
<1>1. Remaining = <<>>
  BY DEF InStep, TakenAtOnce, Remaining, slave_byte_valid
<1>2. miso' = <<>>
  <2>1. PICK n \in 0 .. 0 : miso' = SubSeq(<<>>, 1, n)
    BY <1>1 DEF LayerReset
  <2> QED
    BY <2>1
<1>3. protocol_state' = "WAIT_FRAME" /\ frame' = <<>> /\ sensor' = [length |-> 0, sent |-> 0]
  BY DEF LayerReset
<1>4. NothingLeft'
  BY <1>3 DEF NothingLeft
<1>5. InOrder(frame)'
  BY <1>3 DEF InOrder
<1> QED
  BY <1>2, <1>3, <1>4, <1>5 DEF InStep, TakenAtOnce, InStepWait, InStepHeader,
     InStepForward, InStepReceive, InStepStamp, After

LEMMA PacedAlways == Spec => []PacedInStep
<1>1. Init => PacedInStep
  BY DEF Init, PacedInStep, InStep, TakenAtOnce, InStepWait, InStepHeader, NothingLeft,
     InStepForward, InStepReceive, InStepStamp, After, InOrder
<1>2. ASSUME IInv, PacedInStep, [Next]_vars
      PROVE  PacedInStep'
  <2>1. CASE AnyEdge /\ (Quiet \/ Arrive)
    <3>1. Paced' <=> Paced
      BY <2>1 DEF AnyEdge, Edge, Paced
    <3> QED
      BY <1>2, <2>1, <3>1, ProtocolAssumption, EdgeInStep DEF PacedInStep
  <2>2. CASE LayerReset
    <3>1. Paced' <=> Paced
      BY <2>2 DEF LayerReset, Paced
    <3> QED
      BY <1>2, <2>2, <3>1, ResetInStep DEF PacedInStep
  <2>3. CASE UNCHANGED vars
    <3>1. Current' = Current /\ s_axis_tdata' = s_axis_tdata
      BY <2>3 DEF Current, Ended, vars, s_axis_tdata
    <3> QED
      BY <1>2, <2>3, <3>1 DEF vars, m_axis, received, PacedInStep, Paced, InStep, TakenAtOnce,
         InStepWait, InStepHeader, NothingLeft, InStepForward, InStepReceive,
         InStepStamp, InOrder
  <2> QED
    BY <1>2, <2>1, <2>2, <2>3 DEF Next
<1> QED
  BY <1>1, <1>2, Invariant, PTL DEF Spec

(* In a Paced environment the words the sink has accepted are header and   *)
(* payload in the order in which the sensor sent them, none missing, for   *)
(* every length of frame, every stall of the sink and every reset.         *)
THEOREM PayloadStaysInOrder == Spec => []PayloadInOrder
<1>1. PacedInStep => PayloadInOrder
  BY DEF PacedInStep, InStep, InOrder, PayloadInOrder
<1> QED
  BY <1>1, PacedAlways, PTL

-----------------------------------------------------------------------------
(* The strobe of the idle counter: after it is set no byte waits, so that  *)
(* the next edge clears it.                                                *)

IdleOnce ==
    Paced => (stat_idle_detected => protocol_state = "WAIT_FRAME" /\ miso = <<>>)

LEMMA IdleStep ==
    ASSUME ProtocolAssumption, IInv, InStep, Paced, IdleOnce, AnyEdge, Quiet \/ Arrive
    PROVE  stat_idle_detected' => /\ IdleAccepted
                                  /\ protocol_state' = "WAIT_FRAME" /\ miso' = <<>>
<1>1. PICK tready \in BOOLEAN :
         \/ WaitFrame \/ HeaderLength(tready) \/ HeaderId(tready)
         \/ Forward(tready) \/ Receive(tready) \/ Timestamp(tready)
  BY DEF AnyEdge, Edge
<1>2. stat_idle_detected => protocol_state = "WAIT_FRAME" /\ ~slave_byte_valid
  BY DEF IdleOnce, slave_byte_valid
<1>3. CASE WaitFrame
  <2>1. CASE HeaderAccepted
    <3>1. ~stat_idle_detected
      BY <1>2, <2>1 DEF HeaderAccepted
    <3> QED
      BY <1>3, <2>1, <3>1 DEF WaitFrame
  <2>2. CASE ~HeaderAccepted
    <3>1. stat_idle_detected' = IdleAccepted /\ protocol_state' = "WAIT_FRAME"
      BY <1>3, <2>2 DEF WaitFrame
    <3>2. IdleAccepted => miso # <<>>
      BY DEF IdleAccepted, slave_byte_valid
    <3>3. IdleAccepted => miso' = <<>>
      BY <3>2, PacedArrival DEF IInv, InStep
    <3> QED
      BY <3>1, <3>3
  <2> QED
    BY <2>1, <2>2
<1>4. CASE \/ HeaderLength(tready) \/ HeaderId(tready)
           \/ Forward(tready) \/ Receive(tready) \/ Timestamp(tready)
  <2>1. protocol_state # "WAIT_FRAME" /\ stat_idle_detected' = stat_idle_detected
    BY <1>4 DEF HeaderLength, HeaderId, Forward, Receive, Timestamp, After, stats
  <2> QED
    BY <1>2, <2>1
<1> QED
  BY <1>1, <1>3, <1>4

(* In a Paced environment the strobe that counts idle bytes is set after   *)
(* an accepted idle byte, for one cycle, and after nothing else.           *)
THEOREM IdleBytesCounted == Spec => IdleCounted
<1>1. Init => IdleOnce
  BY DEF Init, IdleOnce
<1>2. ASSUME IInv, PacedInStep, IdleOnce, [Next]_vars
      PROVE  IdleOnce' /\ [Paced /\ stat_idle_detected' => IdleAccepted]_vars
  <2>1. CASE AnyEdge /\ (Quiet \/ Arrive)
    <3>1. Paced' <=> Paced
      BY <2>1 DEF AnyEdge, Edge, Paced
    <3>2. Paced => InStep
      BY <1>2 DEF PacedInStep
    <3>3. Paced /\ stat_idle_detected' =>
             IdleAccepted /\ protocol_state' = "WAIT_FRAME" /\ miso' = <<>>
      BY <1>2, <2>1, <3>2, ProtocolAssumption, IdleStep
    <3> QED
      BY <3>1, <3>3 DEF IdleOnce
  <2>2. CASE LayerReset
    BY <2>2 DEF LayerReset, IdleOnce
  <2>3. CASE UNCHANGED vars
    BY <1>2, <2>3 DEF vars, stats, IdleOnce, Paced
  <2> QED
    BY <1>2, <2>1, <2>2, <2>3 DEF Next
<1> QED
  BY <1>1, <1>2, PacedAlways, Invariant, PTL DEF Spec, IdleCounted

=============================================================================
