-------------------------- MODULE HostScripts_proofs --------------------------
(***************************************************************************)
(* Proofs about the host: the registers of the generated driver, the calls *)
(* of the board driver, and a run of main.py that makes them.              *)
(*                                                                         *)
(* Registers and commands: the registers of the driver do not overlap, for *)
(* any number of lanes the address map has room for, so that a write of as *)
(* many bytes as a register has changes no other, and no sequence of calls *)
(* collects a longer write.                                                *)
(*                                                                         *)
(* Folds: what a call over a list of lanes does, one lane after the other, *)
(* as the only function that goes from the session before to the one after *)
(* it.                                                                     *)
(*                                                                         *)
(* Sessions: which registers of the board each call may change.            *)
(*                                                                         *)
(* The run: SessionInv, LinkInv, StreamInv, KeepInv and ChipInv, each an   *)
(* invariant of the script with its lanes, chips and readout buffer.       *)
(***************************************************************************)
EXTENDS MainScript, DriverCalls, SequenceTheorems, WellFoundedInduction, TLAPS

(* Where the registers of a lane lie.                                      *)
LEMMA LaneEntries ==
    \A n \in Lanes :
        /\ layer_cfg_ctrl(n).address = 29 + n /\ layer_cfg_ctrl(n).width = 1
        /\ layer_status(n).address = 49 + n /\ layer_status(n).width = 1
        /\ layer_stat_frame_counter(n).address = 69 + 4 * n /\ layer_stat_frame_counter(n).width = 4
        /\ layer_stat_idle_counter(n).address = 149 + 4 * n /\ layer_stat_idle_counter(n).width = 4
        /\ layer_mosi(n).address = 229 + 5 * n /\ layer_mosi(n).width = 1
        /\ layer_mosi_write_size(n).address = 230 + 5 * n /\ layer_mosi_write_size(n).width = 4
        /\ layer_loopback_miso(n).address = 329 + 5 * n /\ layer_loopback_miso(n).width = 1
        /\ layer_loopback_miso_write_size(n).address = 330 + 5 * n /\ layer_loopback_miso_write_size(n).width = 4
        /\ layer_loopback_mosi(n).address = 429 + 5 * n /\ layer_loopback_mosi(n).width = 1
        /\ layer_loopback_mosi_read_size(n).address = 430 + 5 * n /\ layer_loopback_mosi_read_size(n).width = 4
  BY DEF ReadWrite, ReadOnly, ToFifo, FromFifo,
         layer_cfg_ctrl, layer_status, layer_stat_frame_counter,
         layer_stat_idle_counter, layer_mosi, layer_mosi_write_size,
         layer_loopback_miso, layer_loopback_miso_write_size,
         layer_loopback_mosi, layer_loopback_mosi_read_size

LEMMA LaneBounds == \A n \in Lanes : n \in Int /\ 0 <= n /\ n <= 19
  BY LaneAssumption DEF Lanes

(* Overlapping registers of lanes are one register of one lane.            *)
LEMMA LaneRegistersApart ==
    \A m, n \in Lanes : \A r \in OfLane(m), q \in OfLane(n) :
        (\E x \in Span(r) : x \in Span(q)) => r = q
<1> SUFFICES ASSUME NEW m \in Lanes, NEW n \in Lanes, NEW r \in OfLane(m),
                    NEW q \in OfLane(n), NEW x \in Span(r), x \in Span(q)
             PROVE  r = q
  OBVIOUS
<1> USE LaneEntries, LaneBounds DEF OfLane, Span
<1>1. CASE r = layer_cfg_ctrl(m)
  BY <1>1
<1>2. CASE r = layer_status(m)
  BY <1>2
<1>3. CASE r = layer_stat_frame_counter(m)
  BY <1>3
<1>4. CASE r = layer_stat_idle_counter(m)
  BY <1>4
<1>5. CASE r = layer_mosi(m)
  BY <1>5
<1>6. CASE r = layer_mosi_write_size(m)
  BY <1>6
<1>7. CASE r = layer_loopback_miso(m)
  BY <1>7
<1>8. CASE r = layer_loopback_miso_write_size(m)
  BY <1>8
<1>9. CASE r = layer_loopback_mosi(m)
  BY <1>9
<1>10. CASE r = layer_loopback_mosi_read_size(m)
  BY <1>10
<1> QED
  BY <1>1, <1>2, <1>3, <1>4, <1>5, <1>6, <1>7, <1>8, <1>9, <1>10

LEMMA LaneRegistersBetween ==
    \A n \in Lanes : \A r \in OfLane(n) : Span(r) \subseteq 29 .. 528
  BY LaneEntries, LaneBounds DEF OfLane, Span

(* Where the others lie.                                                   *)
LEMMA SingleEntries ==
    /\ hk_firmware_id.address = 0 /\ hk_firmware_id.width = 4
    /\ hk_firmware_version.address = 4 /\ hk_firmware_version.width = 4
    /\ hk_xadc_temperature.address = 8 /\ hk_xadc_temperature.width = 2
    /\ hk_xadc_vccint.address = 10 /\ hk_xadc_vccint.width = 2
    /\ hk_conversion_trigger.address = 12 /\ hk_conversion_trigger.width = 4
    /\ hk_stat_conversions_counter.address = 16 /\ hk_stat_conversions_counter.width = 4
    /\ hk_ctrl.address = 20 /\ hk_ctrl.width = 1
    /\ hk_adcdac_mosi_fifo.address = 21 /\ hk_adcdac_mosi_fifo.width = 1
    /\ hk_adc_miso_fifo.address = 22 /\ hk_adc_miso_fifo.width = 1
    /\ hk_adc_miso_fifo_read_size.address = 23 /\ hk_adc_miso_fifo_read_size.width = 4
    /\ hk_conversion_trigger_match.address = 552 /\ hk_conversion_trigger_match.width = 4
    /\ spi_layers_ckdivider.address = 27 /\ spi_layers_ckdivider.width = 1
    /\ spi_hk_ckdivider.address = 28 /\ spi_hk_ckdivider.width = 1
    /\ layers_cfg_frame_tag_counter_ctrl.address = 529 /\ layers_cfg_frame_tag_counter_ctrl.width = 1
    /\ layers_cfg_frame_tag_counter_trigger.address = 530 /\ layers_cfg_frame_tag_counter_trigger.width = 4
    /\ layers_cfg_frame_tag_counter.address = 534 /\ layers_cfg_frame_tag_counter.width = 4
    /\ layers_cfg_frame_tag_counter_trigger_match.address = 556 /\ layers_cfg_frame_tag_counter_trigger_match.width = 4
    /\ layers_cfg_nodata_continue.address = 538 /\ layers_cfg_nodata_continue.width = 1
    /\ layers_sr_out.address = 539 /\ layers_sr_out.width = 1
    /\ layers_sr_in.address = 540 /\ layers_sr_in.width = 1
    /\ layers_inj_ctrl.address = 541 /\ layers_inj_ctrl.width = 1
    /\ layers_inj_waddr.address = 542 /\ layers_inj_waddr.width = 1
    /\ layers_inj_wdata.address = 543 /\ layers_inj_wdata.width = 1
    /\ layers_readout.address = 544 /\ layers_readout.width = 1
    /\ layers_readout_read_size.address = 545 /\ layers_readout_read_size.width = 4
    /\ io_ctrl.address = 549 /\ io_ctrl.width = 1
    /\ io_led.address = 550 /\ io_led.width = 1
    /\ gecco_sr_ctrl.address = 551 /\ gecco_sr_ctrl.width = 1
  BY DEF ReadWrite, ReadOnly, ToFifo, FromFifo,
         hk_firmware_id, hk_firmware_version, hk_xadc_temperature,
         hk_xadc_vccint, hk_conversion_trigger,
         hk_stat_conversions_counter, hk_ctrl, hk_adcdac_mosi_fifo,
         hk_adc_miso_fifo, hk_adc_miso_fifo_read_size,
         hk_conversion_trigger_match, spi_layers_ckdivider,
         spi_hk_ckdivider, layers_cfg_frame_tag_counter_ctrl,
         layers_cfg_frame_tag_counter_trigger,
         layers_cfg_frame_tag_counter,
         layers_cfg_frame_tag_counter_trigger_match,
         layers_cfg_nodata_continue, layers_sr_out, layers_sr_in,
         layers_inj_ctrl, layers_inj_waddr, layers_inj_wdata,
         layers_readout, layers_readout_read_size, io_ctrl, io_led,
         gecco_sr_ctrl

LEMMA SingleRegistersApart ==
    \A r, q \in Single : (\E x \in Span(r) : x \in Span(q)) => r = q
<1> SUFFICES ASSUME NEW r \in Single, NEW q \in Single,
                    NEW x \in Span(r), x \in Span(q)
             PROVE  r = q
  OBVIOUS
<1> USE SingleEntries DEF Single, Span
<1>1. CASE r = hk_firmware_id
  BY <1>1
<1>2. CASE r = hk_firmware_version
  BY <1>2
<1>3. CASE r = hk_xadc_temperature
  BY <1>3
<1>4. CASE r = hk_xadc_vccint
  BY <1>4
<1>5. CASE r = hk_conversion_trigger
  BY <1>5
<1>6. CASE r = hk_stat_conversions_counter
  BY <1>6
<1>7. CASE r = hk_ctrl
  BY <1>7
<1>8. CASE r = hk_adcdac_mosi_fifo
  BY <1>8
<1>9. CASE r = hk_adc_miso_fifo
  BY <1>9
<1>10. CASE r = hk_adc_miso_fifo_read_size
  BY <1>10
<1>11. CASE r = hk_conversion_trigger_match
  BY <1>11
<1>12. CASE r = spi_layers_ckdivider
  BY <1>12
<1>13. CASE r = spi_hk_ckdivider
  BY <1>13
<1>14. CASE r = layers_cfg_frame_tag_counter_ctrl
  BY <1>14
<1>15. CASE r = layers_cfg_frame_tag_counter_trigger
  BY <1>15
<1>16. CASE r = layers_cfg_frame_tag_counter
  BY <1>16
<1>17. CASE r = layers_cfg_frame_tag_counter_trigger_match
  BY <1>17
<1>18. CASE r = layers_cfg_nodata_continue
  BY <1>18
<1>19. CASE r = layers_sr_out
  BY <1>19
<1>20. CASE r = layers_sr_in
  BY <1>20
<1>21. CASE r = layers_inj_ctrl
  BY <1>21
<1>22. CASE r = layers_inj_waddr
  BY <1>22
<1>23. CASE r = layers_inj_wdata
  BY <1>23
<1>24. CASE r = layers_readout
  BY <1>24
<1>25. CASE r = layers_readout_read_size
  BY <1>25
<1>26. CASE r = io_ctrl
  BY <1>26
<1>27. CASE r = io_led
  BY <1>27
<1>28. CASE r = gecco_sr_ctrl
  BY <1>28
<1> QED
  BY <1>1, <1>2, <1>3, <1>4, <1>5, <1>6, <1>7, <1>8, <1>9, <1>10, <1>11,
     <1>12, <1>13, <1>14, <1>15, <1>16, <1>17, <1>18, <1>19, <1>20,
     <1>21, <1>22, <1>23, <1>24, <1>25, <1>26, <1>27, <1>28

LEMMA SingleRegistersAround ==
    \A r \in Single : Span(r) \subseteq 0 .. 28 \/ Span(r) \subseteq 529 .. 559
  BY SingleEntries DEF Single, Span

(* Two registers of the table have no address in common, however many      *)
(* lanes there are: the addresses of __init__.py and the strides between   *)
(* its lanes leave room for the widest write to each register.             *)
THEOREM SpansDisjoint ==
    \A r, q \in Registers : r # q => Span(r) \cap Span(q) = {}
<1> SUFFICES ASSUME NEW r \in Registers, NEW q \in Registers,
                    NEW x \in Span(r), x \in Span(q)
             PROVE  r = q
  OBVIOUS
<1>1. CASE r \in Single /\ q \in Single
  BY <1>1, SingleRegistersApart
<1>2. CASE \E m, n \in Lanes : r \in OfLane(m) /\ q \in OfLane(n)
  BY <1>2, LaneRegistersApart
<1>3. ASSUME NEW a \in Single, NEW n \in Lanes, NEW b \in OfLane(n),
             x \in Span(a), x \in Span(b)
      PROVE  FALSE
  <2>1. x \in 0 .. 28 \/ x \in 529 .. 559
    BY <1>3, SingleRegistersAround
  <2>2. x \in 29 .. 528
    BY <1>3, LaneRegistersBetween
  <2> QED
    BY <2>1, <2>2
<1> QED
  BY <1>1, <1>2, <1>3 DEF Registers

-----------------------------------------------------------------------------
(* The registers of four bytes and of one byte that the calls write.       *)
WideRegisters ==
    {layers_cfg_frame_tag_counter_trigger, layers_cfg_frame_tag_counter_trigger_match}
    \cup {layer_stat_frame_counter(n) : n \in Lanes}
    \cup {layer_stat_idle_counter(n) : n \in Lanes}

ByteRegisters ==
    {hk_ctrl, spi_layers_ckdivider, spi_hk_ckdivider, io_ctrl,
     layers_cfg_frame_tag_counter_ctrl, layers_inj_ctrl, layers_inj_waddr,
     layers_inj_wdata}
    \cup {layer_cfg_ctrl(n) : n \in Lanes}

(* A command of an address that counts up is one write of a register of    *)
(* four bytes; the others are of registers of one byte, of any length.     *)
Collectable(c) ==
    /\ c \in [address : Int, increment : BOOLEAN, values : {c.values}]
    /\ c.increment => /\ \E r \in WideRegisters : c.address = r.address
                      /\ Len(c.values) = 4
    /\ ~c.increment => \E r \in ByteRegisters : c.address = r.address

Collected(s) ==
    /\ s \in [board : {s.board}, commands : {s.commands}]
    /\ s.commands \in Seq({s.commands[k] : k \in DOMAIN s.commands})
    /\ \A k \in DOMAIN s.commands : Collectable(s.commands[k])

(* The last write is not of register r, which is to be written.            *)
NotLast(s, r) == s.commands = <<>> \/ Last(s.commands).address # r.address

(* Nor of any register of four bytes but r.                                *)
OnlyLast(s, r) == \A q \in WideRegisters : q.address # r.address => NotLast(s, q)

(* What the table says of them.                                            *)
LEMMA WideEntries ==
    \A r \in WideRegisters :
        r \in Registers /\ r.address \in Int /\ r.width = 4
<1>1. \A a \in Int : ReadWrite(a, 4).address = a /\ ReadWrite(a, 4).width = 4
  BY DEF ReadWrite
<1>2. \A n \in Lanes : 69 + 4 * n \in Int /\ 149 + 4 * n \in Int
  BY LaneBounds
<1>3. WideRegisters \subseteq Registers
  BY DEF WideRegisters, Registers, Single, OfLane
<1>4. \A r \in WideRegisters : \E a \in Int : r = ReadWrite(a, 4)
  BY <1>2 DEF WideRegisters, layer_stat_frame_counter, layer_stat_idle_counter,
     layers_cfg_frame_tag_counter_trigger, layers_cfg_frame_tag_counter_trigger_match
<1> QED
  BY <1>1, <1>3, <1>4

LEMMA WideFlags ==
    \A r \in WideRegisters : r.increment = TRUE /\ r.readonly = FALSE
<1>1. (4 > 1) = TRUE
  OBVIOUS
<1>2. \A r \in WideRegisters : \E a : r = ReadWrite(a, 4)
  BY DEF WideRegisters, layer_stat_frame_counter, layer_stat_idle_counter,
     layers_cfg_frame_tag_counter_trigger, layers_cfg_frame_tag_counter_trigger_match
<1>3. \A a : ReadWrite(a, 4).increment = (4 > 1) /\ ReadWrite(a, 4).readonly = FALSE
  BY Zenon DEF ReadWrite
<1> QED
  BY <1>1, <1>2, <1>3, Zenon

LEMMA ByteFlags ==
    \A r \in ByteRegisters : r.increment = FALSE
<1>1. (1 > 1) = FALSE
  OBVIOUS
<1>2. \A r \in ByteRegisters : \E a : r = ReadWrite(a, 1)
  BY DEF ByteRegisters, layer_cfg_ctrl, hk_ctrl, spi_layers_ckdivider,
     spi_hk_ckdivider, io_ctrl, layers_cfg_frame_tag_counter_ctrl, layers_inj_ctrl,
     layers_inj_waddr, layers_inj_wdata
<1>3. \A a : ReadWrite(a, 1).increment = (1 > 1)
  BY Zenon DEF ReadWrite
<1> QED
  BY <1>1, <1>2, <1>3, Zenon

LEMMA ByteEntries ==
    \A r \in ByteRegisters :
        r \in Registers /\ r.address \in Int /\ r.width = 1
<1>1. \A a \in Int : ReadWrite(a, 1).address = a /\ ReadWrite(a, 1).width = 1
  BY DEF ReadWrite
<1>2. \A n \in Lanes : 29 + n \in Int
  BY LaneBounds
<1>3. ByteRegisters \subseteq Registers
  BY DEF ByteRegisters, Registers, Single, OfLane
<1>4. \A r \in ByteRegisters : \E a \in Int : r = ReadWrite(a, 1)
  BY <1>2 DEF ByteRegisters, layer_cfg_ctrl, hk_ctrl, spi_layers_ckdivider,
     spi_hk_ckdivider, io_ctrl, layers_cfg_frame_tag_counter_ctrl, layers_inj_ctrl,
     layers_inj_waddr, layers_inj_wdata
<1> QED
  BY <1>1, <1>3, <1>4

(* Registers of the table are told apart by their addresses.               *)
LEMMA AddressesDiffer ==
    ASSUME NEW r \in Registers, NEW q \in Registers, r.address \in Int,
           r.width \in Nat \ {0}, q.width \in Nat \ {0}, r.address = q.address
    PROVE  r = q
<1>1. r.address \in Span(r) /\ r.address \in Span(q)
  BY DEF Span
<1> QED
  BY <1>1, SpansDisjoint

(* So a command of one kind is never extended by a write of the other.     *)
LEMMA WideAreNotBytes ==
    \A r \in ByteRegisters, q \in WideRegisters : r.address # q.address
  BY AddressesDiffer, WideEntries, ByteEntries

(* A flush leaves no commands, whatever was collected.                     *)
LEMMA FlushedIsEmpty ==
    ASSUME NEW s
    PROVE  flushed(s) = [board |-> flushed(s).board, commands |-> <<>>]
  BY DEF flushed

LEMMA EmptyCollected ==
    ASSUME NEW s, s = [board |-> s.board, commands |-> <<>>]
    PROVE  Collected(s)
<1>1. s.commands = <<>> /\ DOMAIN s.commands = {}
  OBVIOUS
<1>2. <<>> \in Seq({s.commands[k] : k \in DOMAIN s.commands})
  OBVIOUS
<1> QED
  BY <1>1, <1>2 DEF Collected

LEMMA FlushedCollected ==
    ASSUME NEW s
    PROVE  Collected(flushed(s)) /\ flushed(s).commands = <<>>
  BY FlushedIsEmpty, EmptyCollected

(* Sequences.                                                              *)
LEMMA SeqSubset ==
    ASSUME NEW A, NEW B, A \subseteq B, NEW u \in Seq(A)
    PROVE  u \in Seq(B)
<1>1. \A k \in 1 .. Len(u) : u[k] \in B
  OBVIOUS
<1> QED
  BY <1>1

LEMMA FunctionIsSeq ==
    ASSUME NEW B, NEW n \in Nat, NEW f, f = [k \in 1 .. n |-> f[k]],
           \A k \in 1 .. n : f[k] \in B
    PROVE  f \in Seq(B)
<1>1. f \in [1 .. n -> B]
  OBVIOUS
<1> QED
  BY <1>1

(* A command is appended.                                                  *)
LEMMA Appended ==
    ASSUME NEW s, Collected(s), NEW c, Collectable(c),
           NEW t, t = [s EXCEPT !.commands = Append(@, c)]
    PROVE  Collected(t) /\ t.commands # <<>> /\ Last(t.commands) = c
<1> DEFINE S == {s.commands[k] : k \in DOMAIN s.commands} \cup {c}
<1>1. s.commands \in Seq(S)
  BY SeqSubset DEF Collected
<1>2. t = [board |-> s.board, commands |-> Append(s.commands, c)]
  BY DEF Collected
<1>3. /\ t.commands \in Seq(S) /\ Len(t.commands) = Len(s.commands) + 1
      /\ DOMAIN t.commands = 1 .. Len(s.commands) + 1
      /\ \A k \in 1 .. Len(s.commands) : t.commands[k] = s.commands[k]
      /\ t.commands[Len(s.commands) + 1] = c
  BY <1>1, <1>2
<1>4. t.commands \in Seq({t.commands[k] : k \in DOMAIN t.commands})
  BY <1>3
<1>5. \A k \in DOMAIN t.commands : Collectable(t.commands[k])
  <2> TAKE k \in DOMAIN t.commands
  <2>1. CASE k = Len(s.commands) + 1
    BY <2>1, <1>3
  <2>2. CASE k \in 1 .. Len(s.commands)
    BY <2>2, <1>1, <1>3 DEF Collected
  <2> QED
    BY <2>1, <2>2, <1>1, <1>3
<1>6. t \in [board : {t.board}, commands : {t.commands}]
  BY <1>2
<1>7. Len(t.commands) = Len(s.commands) + 1 /\ Len(s.commands) + 1 \in DOMAIN t.commands
  BY <1>1, <1>3
<1>8. t.commands # <<>>
  BY <1>7
<1>9. Last(t.commands) = c
  BY <1>3, <1>7 DEF Last
<1> QED
  BY <1>4, <1>5, <1>6, <1>8, <1>9 DEF Collected

(* The last command is replaced.                                           *)
LEMMA Replaced ==
    ASSUME NEW s, Collected(s), s.commands # <<>>, NEW c, Collectable(c),
           NEW t, t = [s EXCEPT !.commands = [@ EXCEPT ![Len(s.commands)] = c]]
    PROVE  Collected(t) /\ Last(t.commands) = c
<1> DEFINE S == {s.commands[k] : k \in DOMAIN s.commands} \cup {c}
<1>1. s.commands \in Seq(S)
  BY SeqSubset DEF Collected
<1>2. t = [board |-> s.board, commands |-> [s.commands EXCEPT ![Len(s.commands)] = c]]
  BY DEF Collected
<1>3. /\ DOMAIN t.commands = DOMAIN s.commands
      /\ \A k \in DOMAIN s.commands :
            t.commands[k] = IF k = Len(s.commands) THEN c ELSE s.commands[k]
  BY <1>1, <1>2
<1>4. t.commands \in Seq({t.commands[k] : k \in DOMAIN t.commands})
  <2>1. Len(s.commands) \in Nat /\ DOMAIN s.commands = 1 .. Len(s.commands)
    BY <1>1
  <2>2. t.commands = [k \in 1 .. Len(s.commands) |-> t.commands[k]]
    BY <1>2, <1>3, <2>1
  <2> DEFINE V == {t.commands[k] : k \in DOMAIN t.commands}
  <2>3. \A k \in 1 .. Len(s.commands) : t.commands[k] \in V
    BY <1>3, <2>1
  <2> HIDE DEF V
  <2>4. t.commands \in Seq(V)
    BY <2>1, <2>2, <2>3, FunctionIsSeq
  <2> QED
    BY <2>4 DEF V
<1>5. \A k \in DOMAIN t.commands : Collectable(t.commands[k])
  BY <1>3 DEF Collected
<1>6. Last(t.commands) = c
  <2>1. Len(s.commands) \in DOMAIN s.commands /\ Len(t.commands) = Len(s.commands)
    BY <1>1, <1>2
  <2> QED
    BY <1>3, <2>1 DEF Last
<1> QED
  BY <1>2, <1>4, <1>5, <1>6 DEF Collected

(* A write of a register of one byte, of any number of bytes.              *)
LEMMA ByteAdded ==
    ASSUME NEW s, Collected(s), NEW r \in ByteRegisters, NEW bytes
    PROVE  /\ Collected(addWrite(s, r, bytes))
           /\ Last(addWrite(s, r, bytes).commands).address = r.address
<1>1. CASE NotLast(s, r)
  <2> DEFINE c == [address |-> r.address, increment |-> r.increment, values |-> bytes]
  <2>1. Collectable(c)
    BY ByteEntries, ByteFlags DEF Collectable
  <2>2. addWrite(s, r, bytes) = [s EXCEPT !.commands = Append(@, c)]
    BY <1>1 DEF addWrite, NotLast
  <2>3. c.address = r.address
    OBVIOUS
  <2> HIDE DEF c
  <2>4. Collected(addWrite(s, r, bytes)) /\ Last(addWrite(s, r, bytes).commands) = c
    BY <2>1, <2>2, Appended
  <2> QED
    BY <2>3, <2>4
<1>2. CASE ~NotLast(s, r)
  <2> DEFINE L == Len(s.commands)
             c == [s.commands[L] EXCEPT !.values = @ \o bytes]
  <2>1. s.commands # <<>> /\ s.commands[L].address = r.address
    BY <1>2 DEF NotLast, Last
  <2>2. L \in DOMAIN s.commands
    BY <2>1 DEF Collected
  <2>3. Collectable(s.commands[L])
    BY <2>2 DEF Collected
  <2>4. ~s.commands[L].increment
    <3> SUFFICES ASSUME s.commands[L].increment PROVE FALSE
      OBVIOUS
    <3>1. PICK q \in WideRegisters : s.commands[L].address = q.address
      BY <2>3 DEF Collectable
    <3> QED
      BY <3>1, <2>1, WideAreNotBytes
  <2>5. /\ c \in [address : Int, increment : BOOLEAN, values : {c.values}]
        /\ c.address = r.address /\ c.increment = s.commands[L].increment
    BY <2>1, <2>3 DEF Collectable
  <2>6. Collectable(c)
    <3> HIDE DEF c
    <3> QED
      BY <2>4, <2>5 DEF Collectable
  <2>7. addWrite(s, r, bytes) = [s EXCEPT !.commands = [@ EXCEPT ![L] = c]]
    BY <1>2 DEF addWrite, NotLast, Collected
  <2> HIDE DEF c
  <2>8. Collected(addWrite(s, r, bytes)) /\ Last(addWrite(s, r, bytes).commands) = c
    BY <2>1, <2>6, <2>7, Replaced
  <2> QED
    BY <2>5, <2>8
<1> QED
  BY <1>1, <1>2

(* A write of a register of four bytes that is not the last one written.   *)
LEMMA WideAdded ==
    ASSUME NEW s, Collected(s), NEW r \in WideRegisters, NotLast(s, r),
           NEW bytes, Len(bytes) = 4
    PROVE  /\ Collected(addWrite(s, r, bytes))
           /\ Last(addWrite(s, r, bytes).commands).address = r.address
<1> DEFINE c == [address |-> r.address, increment |-> r.increment, values |-> bytes]
<1>1. Collectable(c) /\ c.address = r.address
  <2>1. r.increment \in BOOLEAN /\ r.increment
    BY WideFlags
  <2>2. c \in [address : Int, increment : BOOLEAN, values : {c.values}]
    BY <2>1, WideEntries
  <2>3. c.address = r.address /\ c.increment = r.increment /\ c.values = bytes
    OBVIOUS
  <2> HIDE DEF c
  <2> QED
    BY <2>1, <2>2, <2>3 DEF Collectable
<1>2. addWrite(s, r, bytes) = [s EXCEPT !.commands = Append(@, c)]
  BY DEF addWrite, NotLast
<1> HIDE DEF c
<1>3. Collected(addWrite(s, r, bytes)) /\ Last(addWrite(s, r, bytes).commands) = c
  BY <1>1, <1>2, Appended
<1> QED
  BY <1>1, <1>3

(* The functions of the driver that write a register, flushed or not.      *)
LEMMA ByteWritten ==
    ASSUME NEW s, Collected(s), NEW r \in ByteRegisters, NEW v, NEW flush
    PROVE  /\ Collected(write(s, r, v, flush))
           /\ \A q \in WideRegisters : NotLast(write(s, r, v, flush), q)
<1> DEFINE t == addWrite(s, r, <<v>>)
<1>1. Collected(t) /\ \A q \in WideRegisters : NotLast(t, q)
  BY ByteAdded, WideAreNotBytes DEF NotLast
<1>2. write(s, r, v, flush) = IF flush THEN flushed(t) ELSE t
  BY ByteEntries DEF write
<1> HIDE DEF t
<1> QED
  BY <1>1, <1>2, FlushedCollected DEF NotLast

LEMMA WideWritten ==
    ASSUME NEW s, Collected(s), NEW r \in WideRegisters, NotLast(s, r), NEW v, NEW flush
    PROVE  Collected(write(s, r, v, flush)) /\ OnlyLast(write(s, r, v, flush), r)
<1> DEFINE bytes == BytesOf(v)
           t == addWrite(s, r, bytes)
<1>1. Len(bytes) = 4
  BY DEF BytesOf
<1>2. write(s, r, v, flush) = IF flush THEN flushed(t) ELSE t
  BY WideEntries DEF write
<1> HIDE DEF bytes
<1>3. Collected(t) /\ OnlyLast(t, r)
  BY <1>1, WideAdded DEF NotLast, OnlyLast
<1> HIDE DEF t
<1> QED
  BY <1>2, <1>3, FlushedCollected DEF NotLast, OnlyLast

LEMMA Modified ==
    ASSUME NEW s, NEW r \in ByteRegisters, NEW v, NEW flush
    PROVE  /\ Collected(modify(s, r, v, flush))
           /\ \A q \in WideRegisters : NotLast(modify(s, r, v, flush), q)
  BY FlushedCollected, ByteWritten DEF modify

(* Two registers of four bytes one after the other.                        *)
LEMMA TwoWritten ==
    ASSUME NEW s, Collected(s), NEW r \in WideRegisters, NEW q \in WideRegisters,
           NotLast(s, r), r.address # q.address, NEW v, NEW w, NEW flush
    PROVE  /\ Collected(write(write(s, r, v, FALSE), q, w, flush))
           /\ OnlyLast(write(write(s, r, v, FALSE), q, w, flush), q)
<1>1. PICK t : t = write(s, r, v, FALSE)
  OBVIOUS
<1>2. Collected(t) /\ NotLast(t, q)
  BY <1>1, WideWritten DEF OnlyLast
<1> QED
  BY <1>1, <1>2, WideWritten

(***************************************************************************)
(* What the calls leave: commands as above, the last one never the write   *)
(* of a frame counter, which resetLaneStatCounters lets the write of the   *)
(* idle counter follow.                                                    *)
(***************************************************************************)
Callable(s) ==
    /\ Collected(s)
    /\ \A n \in Lanes : NotLast(s, layer_stat_frame_counter(n))

(* The frame counters are none of the other registers of four bytes.       *)
LEMMA OtherAddresses ==
    \A n \in Lanes :
        /\ layer_stat_frame_counter(n) \in WideRegisters
        /\ layer_stat_idle_counter(n) \in WideRegisters
        /\ \A m \in Lanes : layer_stat_frame_counter(m).address
                               # layer_stat_idle_counter(n).address
        /\ layer_stat_frame_counter(n).address
              # layers_cfg_frame_tag_counter_trigger_match.address
        /\ layer_stat_frame_counter(n).address
              # layers_cfg_frame_tag_counter_trigger.address
  BY LaneEntries, LaneBounds, SingleEntries DEF WideRegisters

(* After a flush, a write or a modification of one byte.                   *)
LEMMA FlushedCallable ==
    ASSUME NEW s
    PROVE  Callable(flushed(s))
  BY FlushedCollected DEF Callable, NotLast

LEMMA WriteByteCallable ==
    ASSUME NEW s, Callable(s), NEW r \in ByteRegisters, NEW v, NEW flush
    PROVE  Callable(write(s, r, v, flush))
  BY ByteWritten, OtherAddresses DEF Callable

LEMMA ModifyCallable ==
    ASSUME NEW s, NEW r \in ByteRegisters, NEW v, NEW flush
    PROVE  Callable(modify(s, r, v, flush))
  BY Modified, OtherAddresses DEF Callable

(* The calls of one lane.                                                  *)
LEMMA LaneCallable ==
    ASSUME NEW s, Callable(s), NEW ln \in Lanes, NEW flush
    PROVE  /\ \A c : Callable(setLaneConfig(s, ln, c, flush))
           /\ \A on : Callable(holdLane(s, ln, on, flush))
                     /\ Callable(setLaneCS(s, ln, on, flush))
           /\ Callable(resetLaneStatCounters(s, ln, flush))
<1>1. layer_cfg_ctrl(ln) \in ByteRegisters
  BY DEF ByteRegisters
<1>2. /\ \A c : Callable(setLaneConfig(s, ln, c, flush))
      /\ \A on : Callable(holdLane(s, ln, on, flush))
                /\ Callable(setLaneCS(s, ln, on, flush))
  BY <1>1, ModifyCallable DEF setLaneConfig, holdLane, setLaneCS
<1>3. Callable(resetLaneStatCounters(s, ln, flush))
  <2> DEFINE t == resetLaneStatCounters(s, ln, flush)
  <2>1. Collected(s) /\ NotLast(s, layer_stat_frame_counter(ln))
    BY DEF Callable
  <2>2. /\ layer_stat_frame_counter(ln) \in WideRegisters
        /\ layer_stat_idle_counter(ln) \in WideRegisters
        /\ layer_stat_frame_counter(ln).address # layer_stat_idle_counter(ln).address
    BY OtherAddresses
  <2>3. Collected(t) /\ OnlyLast(t, layer_stat_idle_counter(ln))
    BY <2>1, <2>2, TwoWritten, Zenon DEF resetLaneStatCounters
  <2> HIDE DEF t
  <2>4. Callable(t)
    BY <2>3, OtherAddresses DEF Callable, OnlyLast
  <2> QED
    BY <2>4 DEF t
<1> QED
  BY <1>2, <1>3

(* The calls of the board.                                                 *)
LEMMA BoardCallable ==
    ASSUME NEW s, Callable(s), NEW flush
    PROVE  /\ \A a, b : Callable(enableSensorClocks(s, a, b, flush))
           /\ \A x : /\ Callable(ioSetInjectionToChip(s, x, flush))
                     /\ Callable(selectADC(s, x, flush))
                     /\ Callable(configureLaneSPIFrequency(s, x, flush))
                     /\ Callable(configureHKSPIFrequency(s, x, flush))
<1>1. /\ io_ctrl \in ByteRegisters /\ hk_ctrl \in ByteRegisters
      /\ spi_layers_ckdivider \in ByteRegisters /\ spi_hk_ckdivider \in ByteRegisters
  BY DEF ByteRegisters
<1>2. \A a, b : Callable(enableSensorClocks(s, a, b, flush))
  BY <1>1, ModifyCallable DEF enableSensorClocks
<1>3. \A x : Callable(ioSetInjectionToChip(s, x, flush))
  BY <1>1, ModifyCallable DEF ioSetInjectionToChip
<1>4. \A x : Callable(selectADC(s, x, flush))
  BY <1>1, WriteByteCallable DEF selectADC
<1>5. \A x : Callable(configureLaneSPIFrequency(s, x, flush))
  BY <1>1, WriteByteCallable DEF configureLaneSPIFrequency, configureLaneSPIDivider
<1>6. \A x : Callable(configureHKSPIFrequency(s, x, flush))
  BY <1>1, WriteByteCallable DEF configureHKSPIFrequency
<1> QED
  BY <1>2, <1>3, <1>4, <1>5, <1>6

(* The calls about the time stamps: those that write the match register    *)
(* need that it is not the last one written.                               *)
LEMMA TagCallable ==
    ASSUME NEW s, Callable(s), NEW x, NEW flush
    PROVE  /\ Callable(configureLanesFrameTag(s, x, flush))
           /\ Callable(lanesConfigFPGATimestamp(s, x, flush))
           /\ NotLast(s, layers_cfg_frame_tag_counter_trigger_match) =>
                 /\ Callable(configureLanesFrameTagFrequency(s, x, flush))
                 /\ Callable(lanesConfigFPGATimestampFrequency(s, x, flush))
<1>1. layers_cfg_frame_tag_counter_ctrl \in ByteRegisters
  BY DEF ByteRegisters
<1>2. /\ layers_cfg_frame_tag_counter_trigger \in WideRegisters
      /\ layers_cfg_frame_tag_counter_trigger_match \in WideRegisters
      /\ layers_cfg_frame_tag_counter_trigger_match.address
           # layers_cfg_frame_tag_counter_trigger.address
  BY SingleEntries DEF WideRegisters
<1>3. Callable(configureLanesFrameTag(s, x, flush))
  BY <1>1, WriteByteCallable DEF configureLanesFrameTag
<1>4. Callable(lanesConfigFPGATimestamp(s, x, flush))
  BY <1>1, WriteByteCallable DEF lanesConfigFPGATimestamp
<1>5. ASSUME NotLast(s, layers_cfg_frame_tag_counter_trigger_match)
      PROVE  Callable(configureLanesFrameTagFrequency(s, x, flush))
  <2>1. \A v : Callable(configureLanesFrameTagDivider(s, v, flush))
    <3> TAKE v
    <3> DEFINE t == configureLanesFrameTagDivider(s, v, flush)
    <3>1. Collected(s)
      BY DEF Callable
    <3>2. Collected(t) /\ OnlyLast(t, layers_cfg_frame_tag_counter_trigger)
      BY <1>2, <1>5, <3>1, TwoWritten, Zenon DEF configureLanesFrameTagDivider
    <3> HIDE DEF t
    <3>3. Callable(t)
      BY <3>2, OtherAddresses DEF Callable, OnlyLast
    <3> QED
      BY <3>3 DEF t
  <2> QED
    BY <2>1 DEF configureLanesFrameTagFrequency
<1>6. ASSUME NotLast(s, layers_cfg_frame_tag_counter_trigger_match)
      PROVE  Callable(lanesConfigFPGATimestampFrequency(s, x, flush))
  <2>1. \A v : Callable(write(s, layers_cfg_frame_tag_counter_trigger_match, v, flush))
    <3> TAKE v
    <3> DEFINE t == write(s, layers_cfg_frame_tag_counter_trigger_match, v, flush)
    <3>1. Collected(t) /\ OnlyLast(t, layers_cfg_frame_tag_counter_trigger_match)
      BY <1>2, <1>6, WideWritten DEF Callable
    <3> HIDE DEF t
    <3>2. Callable(t)
      BY <3>1, OtherAddresses DEF Callable, OnlyLast
    <3> QED
      BY <3>2 DEF t
  <2> QED
    BY <2>1 DEF lanesConfigFPGATimestampFrequency
<1> QED
  BY <1>3, <1>4, <1>5, <1>6

(* The calls that end with a flush.                                        *)
LEMMA FlushingCallable ==
    ASSUME NEW s
    PROVE  /\ Callable(disableLanesReadout(s))
           /\ \A l, a : Callable(enableLanesReadout(s, l, a))
           /\ \A p : Callable(start(s, p))
           /\ Callable(stop(s))
<1>1. Callable(disableLanesReadout(s))
  BY FlushedCallable DEF disableLanesReadout
<1>2. \A l, a : Callable(enableLanesReadout(s, l, a))
  BY FlushedCallable DEF enableLanesReadout
<1>3. \A p : Callable(start(s, p))
  BY FlushedCallable DEF start
<1>4. Callable(stop(s))
  BY FlushedCallable DEF stop
<1> QED
  BY <1>1, <1>2, <1>3, <1>4

(* A fresh board, or one that was left injecting.                          *)
LEMMA InitCallable == CallsInit => Callable(session)
<1>1. \A b : Callable(Opened(b))
  BY EmptyCollected DEF Callable, Opened, NotLast
<1> QED
  BY <1>1, FlushingCallable DEF CallsInit

(* Every call leaves the commands so.                                      *)
LEMMA NextCallable ==
    ASSUME ~Repeats, Callable(session), [CallsNext]_callVars
    PROVE  Callable(session')
<1>1. CASE \E ln \in Lanes, flush \in BOOLEAN : LaneCall(ln, flush)
  BY <1>1, LaneCallable DEF LaneCall, Called
<1>2. CASE \E flush \in BOOLEAN : BoardCall(flush)
  BY <1>2, BoardCallable DEF BoardCall, Called
<1>3. CASE \E flush \in BOOLEAN : TagCall(flush)
  BY <1>3, TagCallable DEF TagCall, Called, LastIsWide, NotLast
<1>4. CASE ReadoutCall
  BY <1>4, FlushingCallable DEF ReadoutCall, Called
<1>5. CASE ReadCall
  BY <1>5, FlushedCallable DEF ReadCall, Called
<1>6. CASE InjectorCall
  BY <1>6, FlushingCallable DEF InjectorCall, Called
<1>7. CASE PatternCall
  BY <1>7 DEF PatternCall
<1>8. CASE UNCHANGED callVars
  BY <1>8 DEF callVars
<1> QED
  BY <1>1, <1>2, <1>3, <1>4, <1>5, <1>6, <1>7, <1>8 DEF CallsNext

(* A command with increment carries the four bytes of one register.        *)
LEMMA CallableInside == Callable(session) => WritesStayInside
<1> SUFFICES ASSUME Callable(session), NEW k \in DOMAIN session.commands,
                    session.commands[k].increment
             PROVE  \E r \in Registers :
                       /\ session.commands[k].address = r.address /\ ~r.readonly
                       /\ Len(session.commands[k].values) <= r.width
  BY DEF WritesStayInside
<1>1. PICK r \in WideRegisters : session.commands[k].address = r.address
  BY DEF Callable, Collected, Collectable
<1>2. Len(session.commands[k].values) = 4
  BY DEF Callable, Collected, Collectable
<1>3. r \in Registers /\ r.width = 4
  BY WideEntries
<1>4. ~r.readonly
  BY WideFlags
<1> QED
  BY <1>1, <1>2, <1>3, <1>4

(* As long as a register of several bytes is not written twice without a   *)
(* flush in between, whatever the script calls, with whatever arguments,   *)
(* no command of addWrite writes past the end of its register.             *)
THEOREM CallsStayInside ==
    ASSUME ~Repeats
    PROVE  CallsSpec => []WritesStayInside
<1>1. CallsInit => Callable(session)
  BY InitCallable
<1>2. Callable(session) /\ [CallsNext]_callVars => Callable(session)'
  BY NextCallable
<1>3. Callable(session) => WritesStayInside
  BY CallableInside
<1> QED
  BY <1>1, <1>2, <1>3, PTL DEF CallsSpec

(* The same on the addresses: such a write reaches one register, which can *)
(* be written, and no address of any other register of the table.          *)
OneRegisterEach ==
    \A k \in DOMAIN session.commands :
        LET c == session.commands[k] IN
        c.increment => \E r \in Registers :
            /\ ~r.readonly
            /\ \A q \in Registers \ {r} :
                  Span(q) \cap (c.address .. c.address + Len(c.values) - 1) = {}

THEOREM CallsReachOneRegister ==
    ASSUME ~Repeats
    PROVE  CallsSpec => []OneRegisterEach
<1>1. CallsInit => Callable(session)
  BY InitCallable
<1>2. Callable(session) /\ [CallsNext]_callVars => Callable(session)'
  BY NextCallable
<1>3. Callable(session) => OneRegisterEach
  <2> SUFFICES ASSUME Callable(session), NEW k \in DOMAIN session.commands,
                      session.commands[k].increment
               PROVE  \E r \in Registers :
                         /\ ~r.readonly
                         /\ \A q \in Registers \ {r} :
                               Span(q) \cap (session.commands[k].address ..
                                   session.commands[k].address
                                     + Len(session.commands[k].values) - 1) = {}
    BY DEF OneRegisterEach
  <2>1. PICK r \in WideRegisters : session.commands[k].address = r.address
    BY DEF Callable, Collected, Collectable
  <2>2. Len(session.commands[k].values) = 4
    BY DEF Callable, Collected, Collectable
  <2>3. r \in Registers /\ r.address \in Int /\ r.width = 4 /\ ~r.readonly
    BY WideEntries, WideFlags
  <2>4. Span(r) = r.address .. r.address + 4 - 1
    BY <2>3 DEF Span
  <2>5. \A q \in Registers \ {r} : Span(q) \cap Span(r) = {}
    BY <2>3, SpansDisjoint
  <2> QED
    BY <2>1, <2>2, <2>3, <2>4, <2>5
<1> QED
  BY <1>1, <1>2, <1>3, PTL DEF CallsSpec

-----------------------------------------------------------------------------
(* The least-number principle for sets, and induction from it.             *)
LEMMA Smallest ==
    ASSUME NEW T, T \subseteq Nat, T # {}
    PROVE  \E n \in T : \A m \in T : n <= m
<1> DEFINE R == {ss \in Nat \X Nat : ss[1] < ss[2]}
<1>1. IsWellFoundedOn(R, Nat)
  BY NatLessThanWellFounded DEF OpToRel
<1> HIDE DEF R
<1>2. PICK x \in T : \A y \in T : ~ (<<y, x>> \in R)
  BY <1>1, WFMin
<1>3. \A y \in T : ~ (y < x)
  BY <1>2 DEF R
<1> QED
  BY <1>3

(* Induction over the numbers, for a set that holds 0 and every successor. *)
LEMMA Induction ==
    ASSUME NEW T, 0 \in T, \A n \in Nat : n \in T => n + 1 \in T
    PROVE  Nat \subseteq T
<1> DEFINE U == Nat \ T
<1> SUFFICES ASSUME U # {} PROVE FALSE
  OBVIOUS
<1>1. PICK n \in U : \A m \in U : n <= m
  BY Smallest
<1>2. n # 0 /\ n - 1 \in Nat /\ n - 1 \in T
  BY <1>1
<1> QED
  BY <1>2

(* The largest of some numbers up to n.                                    *)
LEMMA LargestIn ==
    ASSUME NEW n \in Nat, NEW s, s \subseteq 1 .. n, s # {}
    PROVE  Max(s) \in s /\ \A y \in s : Max(s) >= y
<1> DEFINE U == {m \in Nat : \A y \in s : m >= y}
<1>1. n \in U
  OBVIOUS
<1>2. PICK m \in U : \A k \in U : m <= k
  BY <1>1, Smallest
<1>3. m \in s
  <2> SUFFICES ASSUME m \notin s PROVE FALSE
    OBVIOUS
  <2>1. m # 0
    <3>1. PICK y \in s : y \in 1 .. n
      OBVIOUS
    <3> QED
      BY <3>1
  <2>2. m - 1 \in U
    BY <2>1
  <2> QED
    BY <1>2, <2>2
<1> QED
  BY <1>3 DEF Max

-----------------------------------------------------------------------------
(* Folds of the driver.  One operator stands for the steps of all of them, *)
(* so that what is proved by induction is proved once.                     *)
FoldStep(kind, a, x) ==
    CASE kind.what = "bytes" ->
           Arrive(a, IF kind.command.increment THEN kind.command.address + x - 1
                     ELSE kind.command.address, kind.command.values[x])
      [] kind.what = "commands" -> Execute(a, x)
      [] kind.what = "config" -> setLaneConfig(a, x, kind.config, FALSE)
      [] kind.what = "readback" ->
           modify(a, layer_cfg_ctrl(x),
                  ConfigBits(IF x = kind.bad THEN kind.value ELSE getLaneControl(a, x),
                             Disabled), FALSE)
      [] kind.what = "parameters" -> patgenwrite(a, x[1], x[2], kind.stick)

(* What the recursion of FoldLeft computes on the index sets up to n.      *)
Folds(kind, base, cs, n, g) ==
    g = [s \in SUBSET (1 .. n) |->
            IF s = {} THEN base ELSE FoldStep(kind, g[s \ {Max(s)}], cs[Max(s)])]

(* The values it takes after 0, 1 .. n elements.                           *)
Passes(kind, base, cs, n, h) ==
    h[0] = base /\ \A m \in 0 .. n - 1 : h[m + 1] = FoldStep(kind, h[m], cs[m + 1])

(* It begins with the base.                                                *)
LEMMA FoldsEmpty ==
    ASSUME NEW kind, NEW base, NEW cs, NEW n \in Nat, NEW g, Folds(kind, base, cs, n, g)
    PROVE  g[{}] = base
  BY DEF Folds

(* One command more.                                                       *)
LEMMA FoldsExtended ==
    ASSUME NEW kind, NEW base, NEW cs, NEW n \in Nat, NEW g, Folds(kind, base, cs, n, g)
    PROVE  \E h : Folds(kind, base, cs, n + 1, h)
<1> DEFINE h == [s \in SUBSET (1 .. n + 1) |->
                    IF n + 1 \in s THEN FoldStep(kind, g[s \ {n + 1}], cs[n + 1]) ELSE g[s]]
<1> SUFFICES Folds(kind, base, cs, n + 1, h)
  OBVIOUS
<1>1. ASSUME NEW s \in SUBSET (1 .. n + 1)
      PROVE  h[s] = IF s = {} THEN base ELSE FoldStep(kind, h[s \ {Max(s)}], cs[Max(s)])
  <2>1. CASE s = {}
    BY <2>1, FoldsEmpty
  <2>2. CASE n + 1 \in s
    <3>1. Max(s) = n + 1
      <4>1. n + 1 \in Nat /\ s \subseteq 1 .. n + 1 /\ s # {}
        BY <2>2
      <4>2. Max(s) \in s /\ \A y \in s : Max(s) >= y
        BY <4>1, LargestIn
      <4>3. Max(s) \in 1 .. n + 1 /\ Max(s) >= n + 1
        BY <2>2, <4>2
      <4> QED
        BY <4>3
    <3>2. s \ {n + 1} \in SUBSET (1 .. n + 1) /\ n + 1 \notin s \ {n + 1}
      OBVIOUS
    <3>3. h[s \ {n + 1}] = g[s \ {n + 1}]
      BY <3>2
    <3>4. h[s] = FoldStep(kind, g[s \ {n + 1}], cs[n + 1])
      BY <2>2
    <3> HIDE DEF h
    <3> QED
      BY <2>2, <3>1, <3>3, <3>4
  <2>3. CASE s # {} /\ n + 1 \notin s
    <3>1. s \subseteq 1 .. n
      BY <2>3
    <3>2. s \ {Max(s)} \in SUBSET (1 .. n + 1) /\ n + 1 \notin s \ {Max(s)}
      BY <2>3
    <3>3. h[s \ {Max(s)}] = g[s \ {Max(s)}]
      BY <3>2
    <3>4. h[s] = g[s]
      BY <2>3
    <3>5. g[s] = FoldStep(kind, g[s \ {Max(s)}], cs[Max(s)])
      <4>1. s \in SUBSET (1 .. n) /\ s # {}
        BY <2>3, <3>1
      <4> QED
        BY <4>1 DEF Folds
    <3> HIDE DEF h
    <3> QED
      BY <2>3, <3>3, <3>4, <3>5
  <2> QED
    BY <2>1, <2>2, <2>3
<1>2. h = [s \in SUBSET (1 .. n + 1) |-> h[s]]
  OBVIOUS
<1> HIDE DEF h
<1> QED
  BY <1>1, <1>2 DEF Folds

(* So there is such a function for every number of commands.               *)
LEMMA FoldsExist ==
    ASSUME NEW kind, NEW base, NEW cs, NEW n \in Nat
    PROVE  \E g : Folds(kind, base, cs, n, g)
<1> DEFINE T == {m \in Nat : \E g : Folds(kind, base, cs, m, g)}
<1>1. 0 \in T
  <2> DEFINE g == [s \in SUBSET (1 .. 0) |-> base]
  <2>1. \A s \in SUBSET (1 .. 0) : s = {}
    OBVIOUS
  <2>2. g = [s \in SUBSET (1 .. 0) |->
                 IF s = {} THEN base ELSE FoldStep(kind, g[s \ {Max(s)}], cs[Max(s)])]
    BY <2>1
  <2>3. Folds(kind, base, cs, 0, g)
    BY <2>2 DEF Folds
  <2> QED
    BY <2>3
<1>2. \A m \in Nat : m \in T => m + 1 \in T
  BY FoldsExtended
<1> HIDE DEF T
<1>3. n \in T
  BY <1>1, <1>2, Induction
<1> QED
  BY <1>3 DEF T

(* It passes through the values for the first elements.                    *)
LEMMA FoldsPass ==
    ASSUME NEW kind, NEW base, NEW cs, NEW n \in Nat, NEW g, Folds(kind, base, cs, n, g)
    PROVE  \E h : Passes(kind, base, cs, n, h) /\ h[n] = g[1 .. n]
<1> DEFINE h == [m \in 0 .. n |-> g[1 .. m]]
<1>1. h[n] = g[1 .. n]
  OBVIOUS
<1>2. h[0] = base
  <2>1. 1 .. 0 = {} /\ 0 \in 0 .. n
    OBVIOUS
  <2> QED
    BY <2>1, FoldsEmpty
<1>3. ASSUME NEW m \in 0 .. n - 1
      PROVE  h[m + 1] = FoldStep(kind, h[m], cs[m + 1])
  <2> DEFINE s == 1 .. m + 1
  <2>1. s \in SUBSET (1 .. n) /\ s # {} /\ s \ {m + 1} = 1 .. m /\ m + 1 \in Nat
    <3>1. m + 1 \in s /\ m \in Nat /\ m + 1 <= n
      OBVIOUS
    <3>2. \A x : x \in s /\ x # m + 1 <=> x \in 1 .. m
      BY <3>1
    <3> QED
      BY <3>1, <3>2
  <2>2. Max(s) = m + 1
    <3>0. m + 1 \in Nat /\ s \subseteq 1 .. m + 1 /\ s # {} /\ m + 1 \in s
      BY <2>1
    <3> HIDE DEF s
    <3>1. Max(s) \in s /\ Max(s) >= m + 1
      BY <3>0, LargestIn
    <3> USE DEF s
    <3> QED
      BY <3>1
  <2> HIDE DEF s
  <2>3. g[s] = FoldStep(kind, g[s \ {Max(s)}], cs[Max(s)])
    BY <2>1 DEF Folds
  <2>4. m \in 0 .. n /\ m + 1 \in 0 .. n
    OBVIOUS
  <2> QED
    BY <2>1, <2>2, <2>3, <2>4 DEF s
<1> HIDE DEF h
<1> QED
  BY <1>1, <1>2, <1>3 DEF Passes

(* The bytes of a command, one after the other.                            *)
LEMMA ExecutePasses ==
    ASSUME NEW b, NEW command, NEW n \in Nat, DOMAIN command.values = 1 .. n,
           NEW kind, kind = [what |-> "bytes", command |-> command],
           NEW seq, seq = [k \in DOMAIN command.values |-> k]
    PROVE  \E h : /\ Passes(kind, b, seq, n, h)
                  /\ Execute(b, command) = h[n]
<1> DEFINE kind0 == [what |-> "bytes", command |-> command]
           seq0 == [k \in DOMAIN command.values |-> k]
           Do(a, x) == Arrive(a, IF command.increment THEN command.address + x - 1
                               ELSE command.address, command.values[x])
           Is(g) == g = [part \in SUBSET (DOMAIN seq0) |->
                      IF part = {} THEN b
                      ELSE Do(g[part \ {Max(part)}], seq0[Max(part)])]
           it == CHOOSE g : Is(g)
<1>0. DOMAIN seq0 = 1 .. n
  OBVIOUS
<1>1. Execute(b, command) = it[DOMAIN seq0]
  BY DEF Execute, FoldLeft, MapThenFoldSet
<1>2. \A a, x : FoldStep(kind0, a, x) = Do(a, x)
  BY DEF FoldStep
<1> HIDE DEF kind0, seq0, Do
<1>3. PICK g : Folds(kind0, b, seq0, n, g)
  BY FoldsExist
<1>4. Is(g)
  BY <1>0, <1>2, <1>3 DEF Folds
<1>5. Is(it)
  BY <1>4
<1> HIDE DEF it
<1>6. Folds(kind0, b, seq0, n, it)
  BY <1>0, <1>2, <1>5 DEF Folds
<1>7. \E h : Passes(kind0, b, seq0, n, h) /\ h[n] = it[1 .. n]
  BY <1>6, FoldsPass
<1>8. kind = kind0 /\ seq = seq0
  BY DEF kind0, seq0
<1> QED
  BY <1>0, <1>1, <1>7, <1>8

(* The commands of a flush.                                                *)
LEMMA FlushPasses ==
    ASSUME NEW s, NEW n \in Nat, DOMAIN s.commands = 1 .. n,
           NEW kind, kind = [what |-> "commands"],
           NEW seq, seq = s.commands
    PROVE  \E h : /\ Passes(kind, s.board, seq, n, h)
                  /\ flushed(s).board = h[n]
<1> DEFINE kind0 == [what |-> "commands"]
           seq0 == s.commands
           Do(a, x) == Execute(a, x)
           Is(g) == g = [part \in SUBSET (DOMAIN seq0) |->
                      IF part = {} THEN s.board
                      ELSE Do(g[part \ {Max(part)}], seq0[Max(part)])]
           it == CHOOSE g : Is(g)
<1>0. DOMAIN seq0 = 1 .. n
  OBVIOUS
<1>1. flushed(s).board = it[DOMAIN seq0]
  BY DEF flushed, FoldLeft, MapThenFoldSet
<1>2. \A a, x : FoldStep(kind0, a, x) = Do(a, x)
  BY DEF FoldStep
<1> HIDE DEF kind0, seq0, Do
<1>3. PICK g : Folds(kind0, s.board, seq0, n, g)
  BY FoldsExist
<1>4. Is(g)
  BY <1>0, <1>2, <1>3 DEF Folds
<1>5. Is(it)
  BY <1>4
<1> HIDE DEF it
<1>6. Folds(kind0, s.board, seq0, n, it)
  BY <1>0, <1>2, <1>5 DEF Folds
<1>7. \E h : Passes(kind0, s.board, seq0, n, h) /\ h[n] = it[1 .. n]
  BY <1>6, FoldsPass
<1>8. kind = kind0 /\ seq = seq0
  BY DEF kind0, seq0
<1> QED
  BY <1>0, <1>1, <1>7, <1>8

(* The lanes that are disabled.                                            *)
LEMMA DisablePasses ==
    ASSUME NEW s, NEW n \in Nat, n = LaneCount,
           NEW kind, kind = [what |-> "config", config |-> Disabled],
           NEW seq, seq = [k \in 1 .. LaneCount |-> k - 1]
    PROVE  \E h : /\ Passes(kind, s, seq, n, h)
                  /\ disableLanesReadout(s) = flushed(h[n])
<1> DEFINE kind0 == [what |-> "config", config |-> Disabled]
           seq0 == [k \in 1 .. LaneCount |-> k - 1]
           Do(a, x) == setLaneConfig(a, x, Disabled, FALSE)
           Is(g) == g = [part \in SUBSET (DOMAIN seq0) |->
                      IF part = {} THEN s
                      ELSE Do(g[part \ {Max(part)}], seq0[Max(part)])]
           it == CHOOSE g : Is(g)
<1>0. DOMAIN seq0 = 1 .. n
  OBVIOUS
<1>1. disableLanesReadout(s) = flushed(it[DOMAIN seq0])
  BY DEF disableLanesReadout, FoldLeft, MapThenFoldSet
<1>2. \A a, x : FoldStep(kind0, a, x) = Do(a, x)
  BY DEF FoldStep
<1> HIDE DEF kind0, seq0, Do
<1>3. PICK g : Folds(kind0, s, seq0, n, g)
  BY FoldsExist
<1>4. Is(g)
  BY <1>0, <1>2, <1>3 DEF Folds
<1>5. Is(it)
  BY <1>4
<1> HIDE DEF it
<1>6. Folds(kind0, s, seq0, n, it)
  BY <1>0, <1>2, <1>5 DEF Folds
<1>7. \E h : Passes(kind0, s, seq0, n, h) /\ h[n] = it[1 .. n]
  BY <1>6, FoldsPass
<1>8. kind = kind0 /\ seq = seq0
  BY DEF kind0, seq0
<1> QED
  BY <1>0, <1>1, <1>7, <1>8

(* The lanes that are enabled.                                             *)
LEMMA EnablePasses ==
    ASSUME NEW s, NEW lanelst, NEW n \in Nat, DOMAIN lanelst = 1 .. n, NEW autoread,
           NEW kind, kind = [what |-> "config", config |-> Enabled(autoread)],
           NEW seq, seq = lanelst
    PROVE  \E h : /\ Passes(kind, disableLanesReadout(s), seq, n, h)
                  /\ enableLanesReadout(s, lanelst, autoread) = flushed(h[n])
<1> DEFINE kind0 == [what |-> "config", config |-> Enabled(autoread)]
           seq0 == lanelst
           Do(a, x) == setLaneConfig(a, x, Enabled(autoread), FALSE)
           Is(g) == g = [part \in SUBSET (DOMAIN seq0) |->
                      IF part = {} THEN disableLanesReadout(s)
                      ELSE Do(g[part \ {Max(part)}], seq0[Max(part)])]
           it == CHOOSE g : Is(g)
<1>0. DOMAIN seq0 = 1 .. n
  OBVIOUS
<1>1. enableLanesReadout(s, lanelst, autoread) = flushed(it[DOMAIN seq0])
  BY DEF enableLanesReadout, FoldLeft, MapThenFoldSet
<1>2. \A a, x : FoldStep(kind0, a, x) = Do(a, x)
  BY DEF FoldStep
<1> HIDE DEF kind0, seq0, Do
<1>3. PICK g : Folds(kind0, disableLanesReadout(s), seq0, n, g)
  BY FoldsExist
<1>4. Is(g)
  BY <1>0, <1>2, <1>3 DEF Folds
<1>5. Is(it)
  BY <1>4
<1> HIDE DEF it
<1>6. Folds(kind0, disableLanesReadout(s), seq0, n, it)
  BY <1>0, <1>2, <1>5 DEF Folds
<1>7. \E h : Passes(kind0, disableLanesReadout(s), seq0, n, h) /\ h[n] = it[1 .. n]
  BY <1>6, FoldsPass
<1>8. kind = kind0 /\ seq = seq0
  BY DEF kind0, seq0
<1> QED
  BY <1>0, <1>1, <1>7, <1>8

(* The lanes that are disabled with what was read back.                    *)
LEMMA ReadbackPasses ==
    ASSUME NEW s, NEW bad, NEW v, NEW n \in Nat, n = LaneCount,
           NEW kind, kind = [what |-> "readback", bad |-> bad, value |-> v],
           NEW seq, seq = [k \in 1 .. LaneCount |-> k - 1]
    PROVE  \E h : /\ Passes(kind, s, seq, n, h)
                  /\ disableMisread(s, bad, v) = flushed(h[n])
<1> DEFINE kind0 == [what |-> "readback", bad |-> bad, value |-> v]
           seq0 == [k \in 1 .. LaneCount |-> k - 1]
           Do(a, x) == modify(a, layer_cfg_ctrl(x), ConfigBits(IF x = bad THEN v
                                ELSE getLaneControl(a, x), Disabled), FALSE)
           Is(g) == g = [part \in SUBSET (DOMAIN seq0) |->
                      IF part = {} THEN s
                      ELSE Do(g[part \ {Max(part)}], seq0[Max(part)])]
           it == CHOOSE g : Is(g)
<1>0. DOMAIN seq0 = 1 .. n
  OBVIOUS
<1>1. disableMisread(s, bad, v) = flushed(it[DOMAIN seq0])
  BY DEF disableMisread, FoldLeft, MapThenFoldSet
<1>2. \A a, x : FoldStep(kind0, a, x) = Do(a, x)
  BY DEF FoldStep
<1> HIDE DEF kind0, seq0, Do
<1>3. PICK g : Folds(kind0, s, seq0, n, g)
  BY FoldsExist
<1>4. Is(g)
  BY <1>0, <1>2, <1>3 DEF Folds
<1>5. Is(it)
  BY <1>4
<1> HIDE DEF it
<1>6. Folds(kind0, s, seq0, n, it)
  BY <1>0, <1>2, <1>5 DEF Folds
<1>7. \E h : Passes(kind0, s, seq0, n, h) /\ h[n] = it[1 .. n]
  BY <1>6, FoldsPass
<1>8. kind = kind0 /\ seq = seq0
  BY DEF kind0, seq0
<1> QED
  BY <1>0, <1>1, <1>7, <1>8

(* The values of a pattern, by their registers.                            *)
Parameters(p) ==
    <<<<7, p.pulsesperset>>, <<8, p.period>>, <<9, 20>>,
      <<10, p.cycle \div 256>>, <<11, p.cycle % 256>>,
      <<12, p.initdelay \div 256>>, <<13, p.initdelay % 256>>,
      <<14, p.clkdiv \div 256>>, <<15, p.clkdiv % 256>>>>

(* The parameters of the pattern generator.                                *)
LEMMA PatternPasses ==
    ASSUME NEW s, NEW p, NEW stick, NEW n \in Nat, DOMAIN Parameters(p) = 1 .. n,
           NEW kind, kind = [what |-> "parameters", stick |-> stick],
           NEW seq, seq = Parameters(p)
    PROVE  \E h : /\ Passes(kind, s, seq, n, h)
                  /\ patgen(s, p, stick) = h[n]
<1> DEFINE kind0 == [what |-> "parameters", stick |-> stick]
           seq0 == Parameters(p)
           Do(a, x) == patgenwrite(a, x[1], x[2], stick)
           Is(g) == g = [part \in SUBSET (DOMAIN seq0) |->
                      IF part = {} THEN s
                      ELSE Do(g[part \ {Max(part)}], seq0[Max(part)])]
           it == CHOOSE g : Is(g)
<1>0. DOMAIN seq0 = 1 .. n
  OBVIOUS
<1>1. patgen(s, p, stick) = it[DOMAIN seq0]
  BY DEF patgen, Parameters, FoldLeft, MapThenFoldSet
<1>2. \A a, x : FoldStep(kind0, a, x) = Do(a, x)
  BY DEF FoldStep
<1> HIDE DEF kind0, seq0, Do
<1>3. PICK g : Folds(kind0, s, seq0, n, g)
  BY FoldsExist
<1>4. Is(g)
  BY <1>0, <1>2, <1>3 DEF Folds
<1>5. Is(it)
  BY <1>4
<1> HIDE DEF it
<1>6. Folds(kind0, s, seq0, n, it)
  BY <1>0, <1>2, <1>5 DEF Folds
<1>7. \E h : Passes(kind0, s, seq0, n, h) /\ h[n] = it[1 .. n]
  BY <1>6, FoldsPass
<1>8. kind = kind0 /\ seq = seq0
  BY DEF kind0, seq0
<1> QED
  BY <1>0, <1>1, <1>7, <1>8

-----------------------------------------------------------------------------
(* Writes that reach the board.                                            *)

(* The addresses a command covers.                                         *)
Reach(c) == IF c.increment THEN c.address .. c.address + Len(c.values) - 1 ELSE {c.address}

Regs(s) == s.board.registers

(* Registers b and c agree but for the addresses of A.                     *)
Apart(b, c, A) ==
    /\ DOMAIN c.registers = DOMAIN b.registers
    /\ \A x \in DOMAIN b.registers : x \notin A => c.registers[x] = b.registers[x]

LEMMA ArriveIs ==
    ASSUME NEW b, NEW a, NEW byte
    PROVE  Arrive(b, a, byte).registers =
               [x \in DOMAIN b.registers |-> IF x = a THEN byte ELSE b.registers[x]]
  BY DEF Arrive

LEMMA ArriveApart ==
    ASSUME NEW b, NEW c, NEW A, Apart(b, c, A), NEW a \in A, NEW byte
    PROVE  Apart(b, Arrive(c, a, byte), A)
  BY DEF Apart, Arrive

(* A command changes what it covers.                                       *)
LEMMA ExecuteApart ==
    ASSUME NEW b, NEW c, NEW A, Apart(b, c, A), NEW command,
           NEW S, command.values \in Seq(S), command.address \in Int,
           command.increment \in BOOLEAN, Reach(command) \subseteq A
    PROVE  Apart(b, Execute(c, command), A)
<1> DEFINE n == Len(command.values)
           seq == [k \in DOMAIN command.values |-> k]
           kind == [what |-> "bytes", command |-> command]
<1>1. n \in Nat /\ DOMAIN command.values = 1 .. n
  OBVIOUS
<1>2. PICK h : Passes(kind, c, seq, n, h) /\ Execute(c, command) = h[n]
  <2>1. kind = [what |-> "bytes", command |-> command] /\ seq = [k \in DOMAIN command.values |-> k]
    OBVIOUS
  <2> HIDE DEF kind, seq, n
  <2> QED
    BY <1>1, <2>1, ExecutePasses
<1> DEFINE T == {m \in Nat : m <= n => Apart(b, h[m], A)}
<1>3. 0 \in T
  BY <1>2 DEF Passes
<1>4. ASSUME NEW m \in Nat, m \in T PROVE m + 1 \in T
  <2> SUFFICES ASSUME m + 1 <= n PROVE Apart(b, h[m + 1], A)
    OBVIOUS
  <2>1. Apart(b, h[m], A) /\ m \in 0 .. n - 1 /\ m + 1 \in DOMAIN command.values
    BY <1>1, <1>4
  <2>2. seq[m + 1] = m + 1
    BY <2>1
  <2> DEFINE a == IF command.increment THEN command.address + (m + 1) - 1
                  ELSE command.address
  <2>3. h[m + 1] = FoldStep(kind, h[m], m + 1)
    BY <1>2, <2>1, <2>2 DEF Passes
  <2>4. h[m + 1] = Arrive(h[m], a, command.values[m + 1])
    BY <2>3 DEF FoldStep
  <2>5. a \in A
    BY <1>1, <2>1 DEF Reach
  <2> HIDE DEF a
  <2> QED
    BY <2>1, <2>4, <2>5, ArriveApart
<1> HIDE DEF T
<1>5. n \in T
  BY <1>1, <1>3, <1>4, Induction
<1> QED
  BY <1>1, <1>2, <1>5 DEF T

(* A flush changes what its commands cover.                                *)
LEMMA FlushApart ==
    ASSUME NEW s, NEW A, NEW S, s.commands \in Seq(S),
           \A k \in DOMAIN s.commands :
               LET c == s.commands[k] IN
               /\ \E V : c.values \in Seq(V)
               /\ c.address \in Int /\ c.increment \in BOOLEAN /\ Reach(c) \subseteq A
    PROVE  Apart(s.board, flushed(s).board, A)
<1> DEFINE n == Len(s.commands)
           kind == [what |-> "commands"]
<1>1. n \in Nat /\ DOMAIN s.commands = 1 .. n
  OBVIOUS
<1>2. PICK h : Passes(kind, s.board, s.commands, n, h) /\ flushed(s).board = h[n]
  BY <1>1, FlushPasses
<1> DEFINE T == {m \in Nat : m <= n => Apart(s.board, h[m], A)}
<1>3. 0 \in T
  BY <1>2 DEF Passes, Apart
<1>4. ASSUME NEW m \in Nat, m \in T PROVE m + 1 \in T
  <2> SUFFICES ASSUME m + 1 <= n PROVE Apart(s.board, h[m + 1], A)
    OBVIOUS
  <2>1. Apart(s.board, h[m], A) /\ m \in 0 .. n - 1 /\ m + 1 \in DOMAIN s.commands
    BY <1>1, <1>4
  <2>3. h[m + 1] = FoldStep(kind, h[m], s.commands[m + 1])
    BY <1>2, <2>1 DEF Passes
  <2>4. h[m + 1] = Execute(h[m], s.commands[m + 1])
    BY <2>3 DEF FoldStep
  <2> DEFINE c == s.commands[m + 1]
  <2>5. PICK V : c.values \in Seq(V)
    BY <2>1
  <2>6. c.address \in Int /\ c.increment \in BOOLEAN /\ Reach(c) \subseteq A
    BY <2>1
  <2> HIDE DEF c
  <2> QED
    BY <2>1, <2>4, <2>5, <2>6, ExecuteApart DEF c
<1> HIDE DEF T
<1>5. n \in T
  BY <1>1, <1>3, <1>4, Induction
<1> QED
  BY <1>1, <1>2, <1>5 DEF T

(* One command is carried out.                                             *)
LEMMA FlushOne ==
    ASSUME NEW s, NEW c, s.commands = <<c>>
    PROVE  flushed(s) = [board |-> Execute(s.board, c), commands |-> <<>>]
<1>1. DOMAIN s.commands = 1 .. 1 /\ s.commands[1] = c
  OBVIOUS
<1>2. PICK h : Passes([what |-> "commands"], s.board, s.commands, 1, h) /\ flushed(s).board = h[1]
  BY <1>1, FlushPasses
<1>3. h[1] = FoldStep([what |-> "commands"], s.board, c)
  <2>1. 0 \in 0 .. 1 - 1 /\ 0 + 1 = 1
    OBVIOUS
  <2> QED
    BY <1>1, <1>2, <2>1 DEF Passes
<1>4. h[1] = Execute(s.board, c)
  BY <1>3 DEF FoldStep
<1> QED
  BY <1>2, <1>4, FlushedIsEmpty

LEMMA FlushNone ==
    ASSUME NEW s, s.commands = <<>>
    PROVE  flushed(s) = [board |-> s.board, commands |-> <<>>]
<1>1. DOMAIN s.commands = 1 .. 0
  OBVIOUS
<1>2. PICK h : Passes([what |-> "commands"], s.board, s.commands, 0, h) /\ flushed(s).board = h[0]
  BY <1>1, FlushPasses
<1> QED
  BY <1>2, FlushedIsEmpty DEF Passes

LEMMA ExecuteOne ==
    ASSUME NEW b, NEW c, NEW v, c.values = <<v>>, ~c.increment
    PROVE  Execute(b, c) = Arrive(b, c.address, v)
<1> DEFINE kind == [what |-> "bytes", command |-> c]
           seq == [k \in DOMAIN c.values |-> k]
<1>1. DOMAIN c.values = 1 .. 1 /\ seq[1] = 1 /\ c.values[1] = v /\ 1 \in Nat
  OBVIOUS
<1>2. kind = [what |-> "bytes", command |-> c] /\ seq = [k \in DOMAIN c.values |-> k]
  OBVIOUS
<1>3. FoldStep(kind, b, 1) = Arrive(b, c.address, c.values[1])
  BY DEF FoldStep
<1> HIDE DEF kind, seq
<1>4. PICK h : Passes(kind, b, seq, 1, h) /\ Execute(b, c) = h[1]
  <2>1. \A n \in Nat : DOMAIN c.values = 1 .. n =>
           \E h : Passes(kind, b, seq, n, h) /\ Execute(b, c) = h[n]
    BY ONLY <1>2, ExecutePasses
  <2> QED
    BY <1>1, <2>1
<1>5. h[1] = FoldStep(kind, b, 1)
  <2>1. 0 \in 0 .. 1 - 1 /\ 0 + 1 = 1
    OBVIOUS
  <2> QED
    BY <1>1, <1>4, <2>1 DEF Passes
<1> QED
  BY <1>1, <1>3, <1>4, <1>5

-----------------------------------------------------------------------------
(* A session without collected writes.                                     *)
Idle(s) == s = [board |-> s.board, commands |-> <<>>]

LEMMA IdleFlushed ==
    ASSUME NEW s
    PROVE  Idle(flushed(s)) /\ (Idle(s) => flushed(s) = s)
<1>1. Idle(flushed(s))
  BY FlushedIsEmpty DEF Idle
<1>2. ASSUME Idle(s) PROVE flushed(s) = s
  <2>1. s.commands = <<>>
    BY <1>2 DEF Idle
  <2> QED
    BY <1>2, <2>1, FlushNone DEF Idle
<1> QED
  BY <1>1, <1>2

(* A register of one byte, written and sent.                               *)
Stored(s, t, a, v) ==
    /\ Idle(t)
    /\ Regs(t) = [x \in DOMAIN Regs(s) |-> IF x = a THEN v ELSE Regs(s)[x]]

LEMMA ByteStored ==
    ASSUME NEW s, Idle(s), NEW r, r.width = 1, r.increment = FALSE, NEW v
    PROVE  /\ Stored(s, write(s, r, v, TRUE), r.address, v)
           /\ flushed(write(s, r, v, FALSE)) = write(s, r, v, TRUE)
<1> DEFINE c == [address |-> r.address, increment |-> r.increment, values |-> <<v>>]
           t == addWrite(s, r, <<v>>)
<1>1. s.commands = <<>>
  BY DEF Idle
<1>2. t = [board |-> s.board, commands |-> <<c>>]
  <2>1. t = [s EXCEPT !.commands = Append(@, c)]
    BY <1>1 DEF addWrite
  <2>2. Append(<<>>, c) = <<c>>
    OBVIOUS
  <2> HIDE DEF c, t
  <2> QED
    BY <1>1, <2>1, <2>2 DEF Idle
<1>3. write(s, r, v, TRUE) = flushed(t) /\ write(s, r, v, FALSE) = t
  BY DEF write
<1> HIDE DEF t
<1>4. flushed(t) = [board |-> Execute(s.board, c), commands |-> <<>>]
  BY <1>2, FlushOne
<1>5. Execute(s.board, c) = Arrive(s.board, r.address, v)
  BY ExecuteOne
<1> HIDE DEF c
<1>6. Stored(s, flushed(t), r.address, v)
  <2>1. flushed(t).commands = <<>> /\ flushed(t).board = Arrive(s.board, r.address, v)
    BY <1>4, <1>5
  <2>2. flushed(t) = [board |-> flushed(t).board, commands |-> <<>>]
    BY FlushedIsEmpty
  <2>3. Regs(flushed(t)) = [x \in DOMAIN Regs(s) |-> IF x = r.address THEN v ELSE Regs(s)[x]]
    BY <2>1, ArriveIs DEF Regs
  <2> QED
    BY <2>2, <2>3 DEF Stored, Idle
<1> QED
  BY <1>3, <1>6

-----------------------------------------------------------------------------
(* The control registers of the lanes and of the injection.                *)
ControlOf(s, l) == Regs(s)[layer_cfg_ctrl(l).address]
InjectionOf(s)  == Regs(s)[layers_inj_ctrl.address]

Ready(s) ==
    /\ Idle(s)
    /\ \A l \in Lanes : layer_cfg_ctrl(l).address \in DOMAIN Regs(s)
    /\ layers_inj_ctrl.address \in DOMAIN Regs(s)

(* Nothing was changed but for registers a script need not look at.        *)
Alike(s, t) ==
    /\ Ready(t)
    /\ \A l \in Lanes : ControlOf(t, l) = ControlOf(s, l)
    /\ InjectionOf(t) = InjectionOf(s)

(* Nothing but the control register of one lane.                           *)
OnLane(s, t, l, v) ==
    /\ Ready(t)
    /\ \A m \in Lanes : ControlOf(t, m) = IF m = l THEN v ELSE ControlOf(s, m)
    /\ InjectionOf(t) = InjectionOf(s)

LEMMA ControlEntries ==
    /\ \A l \in Lanes : /\ layer_cfg_ctrl(l).address = 29 + l /\ 29 + l \in 29 .. 48
                        /\ layer_cfg_ctrl(l).width = 1 /\ layer_cfg_ctrl(l).increment = FALSE
    /\ layers_inj_ctrl.address = 541 /\ layers_inj_ctrl.width = 1
    /\ layers_inj_ctrl.increment = FALSE
<1>1. layers_inj_ctrl \in ByteRegisters /\ \A l \in Lanes : layer_cfg_ctrl(l) \in ByteRegisters
  BY DEF ByteRegisters
<1> QED
  BY <1>1, ByteFlags, LaneEntries, SingleEntries, LaneBounds

LEMMA Same == \A s : Ready(s) => Alike(s, s)
  BY DEF Alike

LEMMA AlikeTwice ==
    ASSUME NEW s, NEW t, NEW u, Alike(s, t), Alike(t, u)
    PROVE  Alike(s, u)
  BY DEF Alike

(* A lane is written.                                                      *)
LEMMA LaneStored ==
    ASSUME NEW s, Ready(s), NEW l \in Lanes, NEW v, NEW t,
           Stored(s, t, layer_cfg_ctrl(l).address, v)
    PROVE  OnLane(s, t, l, v)
<1>1. DOMAIN Regs(t) = DOMAIN Regs(s) /\ Idle(t)
  BY DEF Stored
<1>2. ASSUME NEW m \in Lanes PROVE ControlOf(t, m) = IF m = l THEN v ELSE ControlOf(s, m)
  <2>1. (layer_cfg_ctrl(m).address = layer_cfg_ctrl(l).address) <=> (m = l)
    BY ControlEntries, LaneBounds
  <2>2. layer_cfg_ctrl(m).address \in DOMAIN Regs(s)
    BY DEF Ready
  <2> QED
    BY <2>1, <2>2 DEF Stored, ControlOf
<1>3. InjectionOf(t) = InjectionOf(s)
  <2>1. layers_inj_ctrl.address # layer_cfg_ctrl(l).address
    BY ControlEntries, LaneBounds
  <2> QED
    BY <2>1 DEF Stored, InjectionOf, Ready
<1> QED
  BY <1>1, <1>2, <1>3 DEF OnLane, Ready

(* Another register is written.                                            *)
LEMMA ElsewhereStored ==
    ASSUME NEW s, Ready(s), NEW a, NEW v, NEW t, Stored(s, t, a, v),
           a \notin 29 .. 48, a # 541
    PROVE  Alike(s, t)
<1>1. DOMAIN Regs(t) = DOMAIN Regs(s) /\ Idle(t)
  BY DEF Stored
<1>2. ASSUME NEW m \in Lanes PROVE ControlOf(t, m) = ControlOf(s, m)
  <2>1. layer_cfg_ctrl(m).address # a
    BY ControlEntries, LaneBounds
  <2>2. layer_cfg_ctrl(m).address \in DOMAIN Regs(s)
    BY DEF Ready
  <2> QED
    BY <2>1, <2>2 DEF Stored, ControlOf
<1>3. InjectionOf(t) = InjectionOf(s)
  BY ControlEntries DEF Stored, InjectionOf, Ready
<1> QED
  BY <1>1, <1>2, <1>3 DEF Alike, Ready

(* Commands that do not cover these registers are flushed.                 *)
LEMMA ElsewhereFlushed ==
    ASSUME NEW s, NEW t, NEW A, Ready(s), Apart(s.board, flushed(t).board, A),
           A \cap (29 .. 48) = {}, 541 \notin A
    PROVE  Alike(s, flushed(t))
<1>1. DOMAIN Regs(flushed(t)) = DOMAIN Regs(s) /\ Idle(flushed(t))
  BY IdleFlushed DEF Apart, Regs
<1>2. ASSUME NEW m \in Lanes PROVE ControlOf(flushed(t), m) = ControlOf(s, m)
  <2>1. layer_cfg_ctrl(m).address \notin A
    BY ControlEntries
  <2>2. layer_cfg_ctrl(m).address \in DOMAIN Regs(s)
    BY DEF Ready
  <2> QED
    BY <2>1, <2>2 DEF Apart, ControlOf, Regs
<1>3. InjectionOf(flushed(t)) = InjectionOf(s)
  <2>1. layers_inj_ctrl.address \notin A /\ layers_inj_ctrl.address \in DOMAIN Regs(s)
    BY ControlEntries DEF Ready
  <2> QED
    BY <2>1 DEF Apart, InjectionOf, Regs
<1> QED
  BY <1>1, <1>2, <1>3 DEF Alike, Ready

-----------------------------------------------------------------------------
(* Modifications.                                                          *)
LEMMA ByteModified ==
    ASSUME NEW s, NEW r, r.width = 1, r.increment = FALSE, NEW v
    PROVE  /\ Idle(s) => Stored(s, modify(s, r, v, TRUE), r.address, v)
           /\ Stored(flushed(s), flushed(modify(s, r, v, FALSE)), r.address, v)
<1>1. Idle(flushed(s)) /\ (Idle(s) => flushed(s) = s)
  BY IdleFlushed
<1>2. /\ Stored(flushed(s), write(flushed(s), r, v, TRUE), r.address, v)
      /\ flushed(write(flushed(s), r, v, FALSE)) = write(flushed(s), r, v, TRUE)
  BY <1>1, ByteStored
<1> QED
  BY <1>1, <1>2 DEF modify

LEMMA LaneRead ==
    ASSUME NEW s, Idle(s), NEW l
    PROVE  getLaneControl(s, l) = ControlOf(s, l)
  BY IdleFlushed DEF getLaneControl, read, ControlOf, Regs

LEMMA LaneCalls ==
    ASSUME NEW s, Ready(s), NEW l \in Lanes
    PROVE  /\ \A c : OnLane(s, setLaneConfig(s, l, c, TRUE), l, ConfigBits(ControlOf(s, l), c))
           /\ \A b : /\ OnLane(s, holdLane(s, l, b, TRUE), l, Switched(ControlOf(s, l), 0, b))
                     /\ OnLane(s, setLaneCS(s, l, b, TRUE), l, Switched(ControlOf(s, l), 3, b))
<1>1. Idle(s) /\ getLaneControl(s, l) = ControlOf(s, l)
  BY LaneRead DEF Ready
<1>2. \A v : OnLane(s, modify(s, layer_cfg_ctrl(l), v, TRUE), l, v)
  BY <1>1, ByteModified, LaneStored, ControlEntries
<1> QED
  BY <1>1, <1>2 DEF setLaneConfig, holdLane, setLaneCS

(* A fold over lanes: those it passes get the bits of c.                   *)
Configures(kind, c) ==
    \A a : \A l \in Lanes :
        \E v : FoldStep(kind, a, l) = modify(a, layer_cfg_ctrl(l), ConfigBits(v, c), FALSE)

Passed(seq, n) == {seq[k] : k \in 1 .. n}

After(s, t, c, passed) ==
    /\ Ready(t)
    /\ InjectionOf(t) = InjectionOf(s)
    /\ \A l \in Lanes : IF l \in passed THEN \E v : ControlOf(t, l) = ConfigBits(v, c)
                        ELSE ControlOf(t, l) = ControlOf(s, l)

LEMMA LanesConfigure ==
    ASSUME NEW s, Ready(s), NEW kind, NEW c, Configures(kind, c), NEW n \in Nat,
           NEW seq, \A k \in 1 .. n : seq[k] \in Lanes,
           NEW h, Passes(kind, s, seq, n, h)
    PROVE  After(s, flushed(h[n]), c, Passed(seq, n))
<1> DEFINE T == {m \in Nat : m <= n => After(s, flushed(h[m]), c, Passed(seq, m))}
<1>1. 0 \in T
  <2>1. h[0] = s /\ flushed(s) = s
    BY IdleFlushed DEF Passes, Ready
  <2>2. Passed(seq, 0) = {}
    BY DEF Passed
  <2> QED
    BY <2>1, <2>2 DEF After
<1>2. ASSUME NEW m \in Nat, m \in T PROVE m + 1 \in T
  <2> SUFFICES ASSUME m + 1 <= n
               PROVE  After(s, flushed(h[m + 1]), c, Passed(seq, m + 1))
    OBVIOUS
  <2> DEFINE l == seq[m + 1]
             t == flushed(h[m])
             u == flushed(h[m + 1])
             old == Passed(seq, m)
             new == Passed(seq, m + 1)
  <2>1. After(s, t, c, old) /\ m \in 0 .. n - 1 /\ l \in Lanes
    BY <1>2
  <2>2. PICK v : h[m + 1] = modify(h[m], layer_cfg_ctrl(l), ConfigBits(v, c), FALSE)
    <3>1. h[m + 1] = FoldStep(kind, h[m], l)
      BY <2>1 DEF Passes
    <3> HIDE DEF l
    <3> QED
      BY <2>1, <3>1 DEF Configures
  <2>3. Stored(t, u, layer_cfg_ctrl(l).address, ConfigBits(v, c))
    BY <2>1, <2>2, ByteModified, ControlEntries
  <2>4. new = old \cup {l}
    <3>1. \A k : k \in 1 .. m + 1 <=> (k \in 1 .. m \/ k = m + 1)
      OBVIOUS
    <3> QED
      BY <3>1 DEF Passed
  <2> HIDE DEF l, t, u, old, new
  <2>5. OnLane(t, u, l, ConfigBits(v, c))
    BY <2>1, <2>3, LaneStored DEF After
  <2>6. After(s, u, c, new)
    <3>1. ASSUME NEW q \in Lanes
          PROVE  IF q \in new THEN \E w : ControlOf(u, q) = ConfigBits(w, c)
                 ELSE ControlOf(u, q) = ControlOf(s, q)
      <4>1. CASE q = l
        BY <2>4, <2>5, <4>1 DEF OnLane
      <4>2. CASE q # l
        <5>1. ControlOf(u, q) = ControlOf(t, q) /\ (q \in new <=> q \in old)
          BY <2>4, <2>5, <4>2 DEF OnLane
        <5> QED
          BY <2>1, <5>1 DEF After
      <4> QED
        BY <4>1, <4>2
    <3> QED
      BY <2>1, <2>5, <3>1 DEF After, OnLane
  <2> QED
    BY <2>6 DEF u, new
<1> HIDE DEF T
<1>3. n \in T
  BY <1>1, <1>2, Induction
<1> QED
  BY <1>3 DEF T

(* disableLanesReadout, and enableLanesReadout of some lanes.              *)
LEMMA SetLaneConfigures ==
    ASSUME NEW c
    PROVE  Configures([what |-> "config", config |-> c], c)
  BY DEF Configures, FoldStep, setLaneConfig

(* All lanes.                                                              *)
LEMMA Counting ==
    ASSUME NEW seq, seq = [k \in 1 .. LaneCount |-> k - 1]
    PROVE  LaneCount \in Nat /\ Passed(seq, LaneCount) = Lanes
<1>1. LaneCount \in Nat
  BY LaneAssumption
<1>2. ASSUME NEW l \in Lanes PROVE l + 1 \in 1 .. LaneCount /\ (l + 1) - 1 = l
  BY <1>1 DEF Lanes
<1>3. ASSUME NEW n \in 1 .. LaneCount PROVE n - 1 \in Lanes
  BY <1>1 DEF Lanes
<1> QED
  BY <1>1, <1>2, <1>3 DEF Passed

LEMMA LanesDisabled ==
    ASSUME NEW s, Ready(s)
    PROVE  After(s, disableLanesReadout(s), Disabled, Lanes)
<1> DEFINE kind == [what |-> "config", config |-> Disabled]
           seq == [k \in 1 .. LaneCount |-> k - 1]
           n == LaneCount
<1>0. kind = [what |-> "config", config |-> Disabled] /\ seq = [k \in 1 .. LaneCount |-> k - 1]
  OBVIOUS
<1> HIDE DEF kind, seq
<1>1. n \in Nat /\ Passed(seq, n) = Lanes
  BY <1>0, Counting
<1>2. PICK h : Passes(kind, s, seq, n, h) /\ disableLanesReadout(s) = flushed(h[n])
  BY ONLY <1>0, <1>1, DisablePasses
<1>3. Configures(kind, Disabled)
  BY <1>0, SetLaneConfigures
<1>4. \A k \in 1 .. n : seq[k] \in Lanes
  BY <1>1 DEF Passed
<1> QED
  BY <1>1, <1>2, <1>3, <1>4, LanesConfigure

LEMMA LanesEnabled ==
    ASSUME NEW s, Ready(s), NEW lst \in Seq(Lanes), NEW autoread
    PROVE  \E d : /\ After(s, d, Disabled, Lanes)
                  /\ After(d, enableLanesReadout(s, lst, autoread), Enabled(autoread),
                           Passed(lst, Len(lst)))
<1> DEFINE kind == [what |-> "config", config |-> Enabled(autoread)]
           n == Len(lst)
           d == disableLanesReadout(s)
<1>1. n \in Nat /\ DOMAIN lst = 1 .. n /\ \A k \in 1 .. n : lst[k] \in Lanes
  OBVIOUS
<1>2. After(s, d, Disabled, Lanes)
  BY LanesDisabled
<1> HIDE DEF n
<1>0. kind = [what |-> "config", config |-> Enabled(autoread)]
  OBVIOUS
<1> HIDE DEF kind
<1>3. PICK h : /\ Passes(kind, d, lst, n, h)
               /\ enableLanesReadout(s, lst, autoread) = flushed(h[n])
  BY ONLY <1>0, <1>1, EnablePasses
<1>4. Configures(kind, Enabled(autoread))
  BY <1>0, SetLaneConfigures
<1> HIDE DEF d
<1>5. After(d, flushed(h[n]), Enabled(autoread), Passed(lst, n))
  BY <1>1, <1>2, <1>3, <1>4, LanesConfigure DEF After
<1> QED
  BY <1>2, <1>3, <1>5 DEF n

(* The same with anything read back from a lane.                           *)
LEMMA LanesMisread ==
    ASSUME NEW s, Ready(s), NEW bad, NEW v
    PROVE  After(s, disableMisread(s, bad, v), Disabled, Lanes)
<1> DEFINE kind == [what |-> "readback", bad |-> bad, value |-> v]
           seq == [k \in 1 .. LaneCount |-> k - 1]
           n == LaneCount
<1>0. /\ kind = [what |-> "readback", bad |-> bad, value |-> v]
      /\ seq = [k \in 1 .. LaneCount |-> k - 1]
  OBVIOUS
<1>2. Configures(kind, Disabled)
  BY DEF Configures, FoldStep
<1> HIDE DEF kind, seq
<1>3. n \in Nat /\ Passed(seq, n) = Lanes
  BY <1>0, Counting
<1>4. PICK h : Passes(kind, s, seq, n, h) /\ disableMisread(s, bad, v) = flushed(h[n])
  BY ONLY <1>0, <1>3, ReadbackPasses
<1>5. \A k \in 1 .. n : seq[k] \in Lanes
  BY <1>3 DEF Passed
<1> QED
  BY <1>2, <1>3, <1>4, <1>5, LanesConfigure

LEMMA LanesGarbled ==
    ASSUME NEW s, Ready(s), NEW t \in Garbled(s)
    PROVE  After(s, t, Disabled, Lanes)
  BY LanesMisread DEF Garbled

-----------------------------------------------------------------------------
(* Collected writes of registers of one byte, all of the addresses A.      *)
Narrow(t, A) ==
    /\ t = [board |-> t.board, commands |-> t.commands]
    /\ \E S : t.commands \in Seq(S)
    /\ \A k \in DOMAIN t.commands :
          LET c == t.commands[k] IN
          /\ c.address \in A /\ c.increment = FALSE /\ \E V : c.values \in Seq(V)
          /\ c = [address |-> c.address, increment |-> c.increment, values |-> c.values]

LEMMA LargerSeq ==
    ASSUME NEW S, NEW s \in Seq(S), NEW x
    PROVE  s \in Seq(S \cup {x})
<1>1. Len(s) \in Nat /\ s \in [1 .. Len(s) -> S]
  OBVIOUS
<1>2. s \in [1 .. Len(s) -> S \cup {x}]
  BY <1>1
<1> QED
  BY <1>1, <1>2

LEMMA MoreValues ==
    ASSUME NEW c, NEW x,
           c = [address |-> c.address, increment |-> c.increment, values |-> c.values]
    PROVE  [c EXCEPT !.values = x]
               = [address |-> c.address, increment |-> c.increment, values |-> x]
  OBVIOUS

LEMMA NarrowAdded ==
    ASSUME NEW t, NEW A, Narrow(t, A), NEW r, r.increment = FALSE, r.address \in A, NEW v
    PROVE  Narrow(addWrite(t, r, <<v>>), A) /\ addWrite(t, r, <<v>>).board = t.board
<1> DEFINE u == addWrite(t, r, <<v>>)
           cs == t.commands
           n == Len(cs)
<1>1. PICK S : cs \in Seq(S)
  BY DEF Narrow
<1>2. n \in Nat /\ DOMAIN cs = 1 .. n
  BY <1>1
<1>3. t = [board |-> t.board, commands |-> cs]
  BY DEF Narrow
<1> HIDE DEF cs, n
<1>4. CASE cs # <<>> /\ Last(cs).address = r.address
  <2> DEFINE c == cs[n]
             d == [address |-> c.address, increment |-> c.increment, values |-> c.values \o <<v>>]
             ds == [cs EXCEPT ![n] = d]
  <2>1. n \in 1 .. n /\ n \in DOMAIN cs
    <3>1. n # 0
      BY <1>1, <1>4 DEF n
    <3> QED
      BY <1>2, <3>1
  <2>2. /\ c.address \in A /\ c.increment = FALSE
        /\ c = [address |-> c.address, increment |-> c.increment, values |-> c.values]
    BY <2>1 DEF Narrow, cs
  <2>3. PICK V : c.values \in Seq(V)
    BY <2>1 DEF Narrow, cs
  <2>4. c.values \o <<v>> \in Seq(V \cup {v})
    <3>1. c.values \in Seq(V \cup {v})
      BY <2>3, LargerSeq
    <3> QED
      BY <3>1
  <2>5. u = [board |-> t.board, commands |-> ds]
    <3>1. u = [t EXCEPT !.commands[Len(t.commands)].values = @ \o <<v>>]
      BY <1>4 DEF addWrite, cs
    <3>2. u = [t EXCEPT !.commands = [cs EXCEPT ![n] = [c EXCEPT !.values = c.values \o <<v>>]]]
      BY <3>1 DEF cs, n
    <3>3. [c EXCEPT !.values = c.values \o <<v>>] = d
      <4> HIDE DEF c
      <4> QED
        BY <2>2, MoreValues
    <3> HIDE DEF u, c, d
    <3> QED
      BY <1>3, <3>2, <3>3
  <2> HIDE DEF u, d
  <2>6. DOMAIN ds = 1 .. n /\ ds[n] = d /\ \A k \in 1 .. n : k # n => ds[k] = cs[k]
    BY <1>2, <2>1
  <2>7. ds \in Seq(S \cup {d})
    <3>1. \A k \in 1 .. n : ds[k] \in S \cup {d}
      BY <1>1, <1>2, <2>6
    <3>2. ds = [k \in 1 .. n |-> ds[k]]
      BY <1>2
    <3> HIDE DEF ds
    <3> QED
      BY <1>2, <3>1, <3>2
  <2>8. \A k \in DOMAIN ds :
          LET e == ds[k] IN
          /\ e.address \in A /\ e.increment = FALSE /\ \E W : e.values \in Seq(W)
          /\ e = [address |-> e.address, increment |-> e.increment, values |-> e.values]
    <3> SUFFICES ASSUME NEW k \in 1 .. n
                 PROVE  /\ ds[k].address \in A /\ ds[k].increment = FALSE
                        /\ \E W : ds[k].values \in Seq(W)
                        /\ ds[k] = [address |-> ds[k].address, increment |-> ds[k].increment,
                                    values |-> ds[k].values]
      BY <2>6
    <3>1. CASE k = n
      BY <2>2, <2>4, <2>6, <3>1 DEF d
    <3>2. CASE k # n
      <4>1. ds[k] = cs[k]
        BY <2>6, <3>2
      <4> HIDE DEF ds
      <4> QED
        BY <1>2, <4>1 DEF Narrow, cs
    <3> QED
      BY <3>1, <3>2
  <2> HIDE DEF ds
  <2>9. u.commands = ds /\ u.board = t.board
    BY <2>5
  <2> QED
    BY <2>5, <2>7, <2>8, <2>9 DEF Narrow, u
<1>5. CASE ~ (cs # <<>> /\ Last(cs).address = r.address)
  <2> DEFINE d == [address |-> r.address, increment |-> r.increment, values |-> <<v>>]
             ds == Append(cs, d)
  <2>1. u = [board |-> t.board, commands |-> ds]
    <3>1. u = [t EXCEPT !.commands = Append(@, d)]
      BY <1>5 DEF addWrite, cs
    <3> HIDE DEF u, d
    <3> QED
      BY <1>3, <3>1, SMTT(30)
  <2>2. d.address = r.address /\ d.increment = FALSE /\ d.values = <<v>>
        /\ d = [address |-> d.address, increment |-> d.increment, values |-> d.values]
    OBVIOUS
  <2>3. <<v>> \in Seq({v})
    OBVIOUS
  <2> HIDE DEF u, d
  <2>4. cs \in Seq(S \cup {d})
    BY <1>1, LargerSeq
  <2>5. /\ ds \in Seq(S \cup {d}) /\ DOMAIN ds = 1 .. n + 1 /\ ds[n + 1] = d
        /\ \A k \in 1 .. n : ds[k] = cs[k]
    BY <2>4, <1>2 DEF n
  <2>6. \A k \in DOMAIN ds :
          LET e == ds[k] IN
          /\ e.address \in A /\ e.increment = FALSE /\ \E W : e.values \in Seq(W)
          /\ e = [address |-> e.address, increment |-> e.increment, values |-> e.values]
    <3> SUFFICES ASSUME NEW k \in 1 .. n + 1
                 PROVE  /\ ds[k].address \in A /\ ds[k].increment = FALSE
                        /\ \E W : ds[k].values \in Seq(W)
                        /\ ds[k] = [address |-> ds[k].address, increment |-> ds[k].increment,
                                    values |-> ds[k].values]
      BY <2>5
    <3> HIDE DEF ds
    <3>1. CASE k = n + 1
      BY <2>2, <2>3, <2>5, <3>1
    <3>2. CASE k \in 1 .. n
      <4>1. ds[k] = cs[k]
        BY <2>5, <3>2
      <4> QED
        BY <1>2, <3>2, <4>1 DEF Narrow, cs
    <3>3. k = n + 1 \/ k \in 1 .. n
      BY <1>2
    <3> QED
      BY <3>1, <3>2, <3>3
  <2> HIDE DEF ds
  <2>7. u.commands = ds /\ u.board = t.board
    BY <2>1
  <2> QED
    BY <2>1, <2>5, <2>6, <2>7 DEF Narrow, u
<1> QED
  BY <1>4, <1>5

LEMMA NarrowIdle ==
    ASSUME NEW s, Idle(s), NEW A
    PROVE  Narrow(s, A)
<1>1. s.commands = <<>> /\ s = [board |-> s.board, commands |-> s.commands]
  BY DEF Idle
<1>2. <<>> \in Seq({}) /\ DOMAIN <<>> = {}
  OBVIOUS
<1> QED
  BY <1>1, <1>2 DEF Narrow

(* When they are flushed nothing else has changed.                         *)
LEMMA NarrowFlushed ==
    ASSUME NEW t, NEW A, A \subseteq Int, Narrow(t, A)
    PROVE  Apart(t.board, flushed(t).board, A)
<1>1. PICK S : t.commands \in Seq(S)
  BY DEF Narrow
<1>2. ASSUME NEW k \in DOMAIN t.commands
      PROVE  LET c == t.commands[k] IN
               /\ \E V : c.values \in Seq(V)
               /\ c.address \in Int /\ c.increment \in BOOLEAN /\ Reach(c) \subseteq A
  BY DEF Narrow, Reach
<1> QED
  BY <1>1, <1>2, FlushApart

-----------------------------------------------------------------------------
(* What the calls of the script do to these registers.                     *)
LEMMA FourBytes ==
    ASSUME NEW v
    PROVE  /\ \E V : BytesOf(v) \in Seq(V)
           /\ Len(BytesOf(v)) = 4
<1> DEFINE f == BytesOf(v)
           V == {f[k] : k \in 1 .. 4}
<1>1. f = [k \in 1 .. 4 |-> f[k]]
  BY DEF BytesOf
<1> HIDE DEF f
<1>2. \A k \in 1 .. 4 : f[k] \in V
  OBVIOUS
<1>2a. 4 \in Nat
  OBVIOUS
<1> HIDE DEF V
<1>3. f \in Seq(V) /\ Len(f) = 4
  BY ONLY <1>1, <1>2, <1>2a, FunctionIsSeq
<1> QED
  BY <1>3 DEF f

LEMMA TwoCommands ==
    ASSUME NEW c, NEW d, NEW cs, cs = Append(<<c>>, d)
    PROVE  /\ cs \in Seq({c, d})
           /\ \A k \in DOMAIN cs : cs[k] \in {c, d}
<1>1. <<c>> \in Seq({c, d})
  OBVIOUS
<1> QED
  BY <1>1

LEMMA WideStored ==
    ASSUME NEW s, Ready(s), NEW r, r.width = 4, r.increment = TRUE, r.address \in Int, NEW v,
           (r.address .. r.address + 3) \cap (29 .. 48) = {}, 541 \notin r.address .. r.address + 3
    PROVE  Alike(s, write(s, r, v, TRUE))
<1> DEFINE c == [address |-> r.address, increment |-> r.increment, values |-> BytesOf(v)]
           t == addWrite(s, r, BytesOf(v))
           A == r.address .. r.address + 3
<1>1. s.commands = <<>> /\ s = [board |-> s.board, commands |-> <<>>]
  BY DEF Ready, Idle
<1>2. t = [board |-> s.board, commands |-> <<c>>]
  <2>1. t = [s EXCEPT !.commands = Append(@, c)]
    BY <1>1 DEF addWrite
  <2>2. Append(<<>>, c) = <<c>>
    OBVIOUS
  <2> HIDE DEF c, t
  <2> QED
    BY <1>1, <2>1, <2>2
<1>3. write(s, r, v, TRUE) = flushed(t)
  BY DEF write
<1>4. (\E V : BytesOf(v) \in Seq(V)) /\ Len(BytesOf(v)) = 4
  BY FourBytes
<1>5. Reach(c) = A /\ c.address \in Int /\ c.increment \in BOOLEAN
  <2>1. c.address = r.address /\ c.increment = TRUE /\ Len(c.values) = 4
    BY <1>4
  <2>2. c.increment \in BOOLEAN
    BY <2>1
  <2>3. r.address \in Int /\ A = r.address .. r.address + 3
    OBVIOUS
  <2> HIDE DEF c, A
  <2>4. Reach(c) = c.address .. c.address + 4 - 1
    BY ONLY <2>1 DEF Reach
  <2> QED
    BY ONLY <2>1, <2>2, <2>3, <2>4
<1>5a. \E V : c.values \in Seq(V)
  BY <1>4
<1> HIDE DEF t, c, A
<1>6. t.commands = <<c>> /\ t.board = s.board
  BY <1>2
<1>7. Apart(t.board, flushed(t).board, A)
  <2>1. t.commands \in Seq({c}) /\ DOMAIN t.commands = {1} /\ t.commands[1] = c
    BY <1>6
  <2> QED
    BY <2>1, <1>5, <1>5a, FlushApart
<1> QED
  BY <1>3, <1>6, <1>7, ElsewhereFlushed DEF A

LEMMA ByteElsewhere ==
    ASSUME NEW s, Ready(s), NEW r, r.width = 1, r.increment = FALSE,
           r.address \notin 29 .. 48, r.address # 541, NEW v
    PROVE  Alike(s, write(s, r, v, TRUE)) /\ Alike(s, modify(s, r, v, TRUE))
<1>1. Idle(s)
  BY DEF Ready
<1>2. Stored(s, write(s, r, v, TRUE), r.address, v) /\ Stored(s, modify(s, r, v, TRUE), r.address, v)
  BY <1>1, ByteStored, ByteModified
<1> QED
  BY <1>2, ElsewhereStored

LEMMA Entries ==
    /\ \A r \in {io_ctrl, spi_layers_ckdivider, layers_cfg_nodata_continue,
                 layers_cfg_frame_tag_counter_ctrl} :
          /\ r.width = 1 /\ r.increment = FALSE /\ r.address \notin 29 .. 48 /\ r.address # 541
    /\ \A r \in {layers_cfg_frame_tag_counter_trigger_match}
                \cup {layer_stat_frame_counter(n) : n \in Lanes}
                \cup {layer_stat_idle_counter(n) : n \in Lanes} :
          /\ r.width = 4 /\ r.increment = TRUE /\ r.address \in Int
          /\ (r.address .. r.address + 3) \cap (29 .. 48) = {}
          /\ 541 \notin r.address .. r.address + 3
<1>1. layers_cfg_nodata_continue.increment = FALSE
  <2>1. (1 > 1) = FALSE
    OBVIOUS
  <2> QED
    BY <2>1, Zenon DEF layers_cfg_nodata_continue, ReadWrite
<1>2. \A r \in {io_ctrl, spi_layers_ckdivider, layers_cfg_frame_tag_counter_ctrl} : r.increment = FALSE
  BY ByteFlags DEF ByteRegisters
<1>3. \A r \in {io_ctrl, spi_layers_ckdivider, layers_cfg_nodata_continue,
                layers_cfg_frame_tag_counter_ctrl} :
          /\ r.width = 1 /\ r.address \notin 29 .. 48 /\ r.address # 541
  BY SingleEntries
<1> DEFINE W == {layers_cfg_frame_tag_counter_trigger_match}
                \cup {layer_stat_frame_counter(n) : n \in Lanes}
                \cup {layer_stat_idle_counter(n) : n \in Lanes}
<1>4. \A r \in W : r \in WideRegisters
  BY DEF WideRegisters
<1>5. \A r \in W : r.width = 4 /\ r.increment = TRUE /\ r.address \in Int
  BY <1>4, WideFlags, WideEntries
<1>6. \A r \in W : r.address \in 69 .. 225 \/ r.address = 556
  BY LaneEntries, SingleEntries, LaneBounds
<1> HIDE DEF W
<1>7. \A r \in W : /\ (r.address .. r.address + 3) \cap (29 .. 48) = {}
                   /\ 541 \notin r.address .. r.address + 3
  BY <1>5, <1>6
<1> QED
  BY <1>1, <1>2, <1>3, <1>5, <1>7 DEF W

LEMMA SetupAlike ==
    ASSUME NEW s, Ready(s)
    PROVE  Alike(s, Prepared(s))
<1> DEFINE s1 == enableSensorClocks(s, TRUE, TRUE, TRUE)
           s2 == lanesConfigFPGATimestampFrequency(s1, TimestampFrequency, TRUE)
           s3 == lanesConfigFPGATimestamp(s2, {"on", "match"}, TRUE)
           s4 == configureLaneSPIDivider(s3, 20, TRUE)
           s5 == write(s4, layers_cfg_nodata_continue, 8, TRUE)
           s6 == ioSetInjectionToChip(s5, TRUE, TRUE)
<1>1. Alike(s, s1)
  BY ByteElsewhere, Entries, ZenonT(60) DEF enableSensorClocks
<1>2. Ready(s1) => Alike(s1, s2)
  <2> HIDE DEF s1
  <2> DEFINE r == layers_cfg_frame_tag_counter_trigger_match
  <2>1. Ready(s1) => \A v : Alike(s1, write(s1, r, v, TRUE))
    <3>1. /\ r.width = 4 /\ r.increment = TRUE /\ r.address \in Int
          /\ (r.address .. r.address + 3) \cap (29 .. 48) = {}
          /\ 541 \notin r.address .. r.address + 3
      BY Entries
    <3> HIDE DEF r
    <3> QED
      BY <3>1, WideStored
  <2> QED
    BY <2>1, Same DEF lanesConfigFPGATimestampFrequency
<1>7. Prepared(s) = s5 \/ Prepared(s) = s6
  BY Zenon DEF Prepared
<1> HIDE DEF s2
<1>3. Ready(s2) => Alike(s2, s3)
  <2>1. s3 = s2 \/ \E v : s3 = write(s2, layers_cfg_frame_tag_counter_ctrl, v, TRUE)
    BY DEF lanesConfigFPGATimestamp
  <2> HIDE DEF s3
  <2>2. Ready(s2) => \A v : Alike(s2, write(s2, layers_cfg_frame_tag_counter_ctrl, v, TRUE))
    BY ByteElsewhere, Entries, ZenonT(60)
  <2> QED
    BY <2>1, <2>2, Same
<1> HIDE DEF s3
<1>4. Ready(s3) => Alike(s3, s4)
  BY ByteElsewhere, Entries, ZenonT(60) DEF configureLaneSPIDivider
<1> HIDE DEF s4
<1>5. Ready(s4) => Alike(s4, s5)
  BY ByteElsewhere, Entries, ZenonT(60)
<1> HIDE DEF s5
<1>6. Ready(s5) => Alike(s5, s6)
  BY ByteElsewhere, Entries, ZenonT(60) DEF ioSetInjectionToChip
<1> HIDE DEF s1, s6
<1> QED
  BY <1>1, <1>2, <1>3, <1>4, <1>5, <1>6, <1>7, AlikeTwice DEF Alike

LEMMA CountersAlike ==
    ASSUME NEW s, Ready(s), NEW l \in Lanes
    PROVE  Alike(s, resetLaneStatCounters(s, l, TRUE))
<1> DEFINE a == layer_stat_frame_counter(l)
           b == layer_stat_idle_counter(l)
           A == (a.address .. a.address + 3) \cup (b.address .. b.address + 3)
           zero == BytesOf(0)
           c == [address |-> a.address, increment |-> a.increment, values |-> zero]
           d == [address |-> b.address, increment |-> b.increment, values |-> zero]
           t == addWrite(s, a, zero)
           u == addWrite(t, b, zero)
<1>0. /\ a.width = 4 /\ a.increment = TRUE /\ a.address \in Int
      /\ b.width = 4 /\ b.increment = TRUE /\ b.address \in Int
      /\ A \cap (29 .. 48) = {} /\ 541 \notin A /\ a.address # b.address
  <2>1. a.address # b.address
    BY LaneEntries, LaneBounds
  <2> QED
    BY <2>1, Entries
<1>1. s.commands = <<>> /\ s = [board |-> s.board, commands |-> <<>>]
  BY DEF Ready, Idle
<1>2. resetLaneStatCounters(s, l, TRUE) = flushed(u)
  BY <1>0 DEF resetLaneStatCounters, write
<1>3. (\E V : zero \in Seq(V)) /\ Len(zero) = 4
  BY FourBytes
<1> HIDE DEF zero, a, b, A
<1>4. t = [board |-> s.board, commands |-> <<c>>]
  <2>1. t = [s EXCEPT !.commands = Append(@, c)]
    BY <1>1 DEF addWrite
  <2>2. Append(<<>>, c) = <<c>>
    OBVIOUS
  <2> HIDE DEF c, t
  <2> QED
    BY <1>1, <2>1, <2>2
<1>5. u = [board |-> s.board, commands |-> Append(<<c>>, d)]
  <2>1. t.commands = <<c>> /\ Last(<<c>>) = c
    BY <1>4 DEF Last
  <2>2. Last(t.commands).address # b.address
    BY <1>0, <2>1
  <2> HIDE DEF t
  <2>3. u = [t EXCEPT !.commands = Append(@, d)]
    BY <2>2 DEF addWrite
  <2> HIDE DEF c, d, u
  <2> QED
    BY <1>4, <2>1, <2>3
<1>6. /\ Reach(c) \subseteq A /\ c.address \in Int /\ c.increment \in BOOLEAN /\ \E V : c.values \in Seq(V)
      /\ Reach(d) \subseteq A /\ d.address \in Int /\ d.increment \in BOOLEAN /\ \E V : d.values \in Seq(V)
  <2>1. c.increment = TRUE /\ d.increment = TRUE /\ Len(c.values) = 4 /\ Len(d.values) = 4
        /\ c.address = a.address /\ d.address = b.address
    BY <1>0, <1>3
  <2> HIDE DEF c, d
  <2>2. Reach(c) = a.address .. a.address + 3 /\ Reach(d) = b.address .. b.address + 3
    BY <2>1, <1>0 DEF Reach
  <2>3. (\E V : c.values \in Seq(V)) /\ (\E V : d.values \in Seq(V))
    BY <1>3 DEF c, d
  <2> QED
    BY <1>0, <2>1, <2>2, <2>3 DEF A
<1> HIDE DEF u, c, d
<1>7. u.commands = Append(<<c>>, d) /\ u.board = s.board
  BY <1>5
<1>8. Apart(u.board, flushed(u).board, A)
  <2>1. u.commands \in Seq({c, d}) /\ \A k \in DOMAIN u.commands : u.commands[k] \in {c, d}
    BY <1>7, TwoCommands
  <2> QED
    BY <2>1, <1>6, FlushApart
<1> QED
  BY <1>0, <1>2, <1>7, <1>8, ElsewhereFlushed

-----------------------------------------------------------------------------
(* The calls that stop and start an injection.                             *)
OnlyInjects(s, t) ==
    /\ Ready(t)
    /\ \A l \in Lanes : ControlOf(t, l) = ControlOf(s, l)

LEMMA StopCalls ==
    ASSUME NEW s, Ready(s)
    PROVE  OnlyInjects(s, stop(s)) /\ InjectionOf(stop(s)) = Stopped
<1>1. stop(s) = write(s, layers_inj_ctrl, Stopped, TRUE)
  BY ControlEntries DEF stop, patgenCtrl, write
<1>2. Stored(s, stop(s), 541, Stopped)
  BY <1>1, ControlEntries, ByteStored DEF Ready
<1> DEFINE t == stop(s)
<1> HIDE DEF t
<1>3. DOMAIN Regs(t) = DOMAIN Regs(s) /\ Idle(t)
  BY <1>2 DEF Stored, t
<1>4. ASSUME NEW m \in Lanes PROVE ControlOf(t, m) = ControlOf(s, m)
  <2>1. layer_cfg_ctrl(m).address # 541
    BY ControlEntries, LaneBounds
  <2>2. layer_cfg_ctrl(m).address \in DOMAIN Regs(s)
    BY DEF Ready
  <2> QED
    BY <1>2, <2>1, <2>2 DEF Stored, ControlOf, t
<1>5. InjectionOf(t) = Stopped
  BY <1>2, ControlEntries DEF Stored, InjectionOf, Ready, t
<1> QED
  BY <1>3, <1>4, <1>5 DEF OnlyInjects, Ready, t

InjectorRegisters == {541, 542, 543}

LEMMA InjectorEntries ==
    \A r \in {layers_inj_ctrl, layers_inj_waddr, layers_inj_wdata} :
        r.increment = FALSE /\ r.address \in InjectorRegisters
<1>1. \A r \in {layers_inj_ctrl, layers_inj_waddr, layers_inj_wdata} : r \in ByteRegisters
  BY DEF ByteRegisters
<1> QED
  BY <1>1, ByteFlags, SingleEntries DEF InjectorRegisters

LEMMA NarrowEntry ==
    ASSUME NEW t, Narrow(t, InjectorRegisters),
           NEW r \in {layers_inj_ctrl, layers_inj_waddr, layers_inj_wdata}, NEW v
    PROVE  /\ Narrow(addWrite(t, r, <<v>>), InjectorRegisters)
           /\ addWrite(t, r, <<v>>).board = t.board
<1>1. r.increment = FALSE /\ r.address \in InjectorRegisters
  BY InjectorEntries
<1> QED
  BY ONLY <1>1, Narrow(t, InjectorRegisters), NarrowAdded, ZenonT(60)

LEMMA NarrowControl ==
    ASSUME NEW t, Narrow(t, InjectorRegisters), NEW bits
    PROVE  Narrow(patgenCtrl(t, bits), InjectorRegisters) /\ patgenCtrl(t, bits).board = t.board
  BY NarrowEntry DEF patgenCtrl

LEMMA NarrowParameter ==
    ASSUME NEW t, Narrow(t, InjectorRegisters), NEW a, NEW v, NEW stick
    PROVE  /\ Narrow(patgenwrite(t, a, v, stick), InjectorRegisters)
           /\ patgenwrite(t, a, v, stick).board = t.board
<1> DEFINE t1 == addWrite(t, layers_inj_waddr, <<a>>)
           t2 == addWrite(t1, layers_inj_wdata, <<v>>)
           t3 == patgenCtrl(t2, stick \cup {PG_CTRL_WRITE})
<1>1. Narrow(t1, InjectorRegisters) /\ t1.board = t.board
  BY NarrowEntry
<1> HIDE DEF t1
<1>2. Narrow(t2, InjectorRegisters) /\ t2.board = t.board
  BY <1>1, NarrowEntry
<1> HIDE DEF t2
<1>3. Narrow(t3, InjectorRegisters) /\ t3.board = t.board
  BY <1>2, NarrowControl
<1>4. patgenwrite(t, a, v, stick) = patgenCtrl(t3, stick)
  BY DEF patgenwrite, t3, t2, t1
<1> HIDE DEF t3
<1> QED
  BY <1>3, <1>4, NarrowControl

LEMMA NarrowPattern ==
    ASSUME NEW t, Narrow(t, InjectorRegisters), NEW p, NEW stick
    PROVE  /\ Narrow(patgen(t, p, stick), InjectorRegisters)
           /\ patgen(t, p, stick).board = t.board
<1> DEFINE kind == [what |-> "parameters", stick |-> stick]
           seq == Parameters(p)
           n == Len(seq)
<1>1. n \in Nat /\ DOMAIN seq = 1 .. n
  BY DEF Parameters
<1>2. kind = [what |-> "parameters", stick |-> stick] /\ seq = Parameters(p)
  OBVIOUS
<1>3. \A a, x : FoldStep(kind, a, x) = patgenwrite(a, x[1], x[2], stick)
  BY DEF FoldStep
<1> HIDE DEF kind, seq, n
<1>4. PICK h : Passes(kind, t, seq, n, h) /\ patgen(t, p, stick) = h[n]
  BY <1>1, <1>2, PatternPasses
<1> DEFINE T == {m \in Nat : m <= n => Narrow(h[m], InjectorRegisters) /\ h[m].board = t.board}
<1>5. 0 \in T
  BY <1>4 DEF Passes
<1>6. ASSUME NEW m \in Nat, m \in T PROVE m + 1 \in T
  <2> SUFFICES ASSUME m + 1 <= n
               PROVE  Narrow(h[m + 1], InjectorRegisters) /\ h[m + 1].board = t.board
    OBVIOUS
  <2>1. Narrow(h[m], InjectorRegisters) /\ h[m].board = t.board /\ m \in 0 .. n - 1
    BY <1>1, <1>6
  <2>2. h[m + 1] = patgenwrite(h[m], seq[m + 1][1], seq[m + 1][2], stick)
    BY <1>3, <1>4, <2>1 DEF Passes
  <2> QED
    BY <2>1, <2>2, NarrowParameter
<1> HIDE DEF T
<1>7. n \in T
  BY <1>1, <1>5, <1>6, Induction
<1> QED
  BY <1>1, <1>4, <1>7 DEF T

LEMMA StartCalls ==
    ASSUME NEW s, Ready(s), NEW p
    PROVE  OnlyInjects(s, start(s, p))
<1> DEFINE t == stop(s)
           u == patgen(t, p, Stopped)
           v == patgenCtrl(patgenCtrl(u, Stopped), {})
<1>1. OnlyInjects(s, t)
  BY StopCalls
<1>2. start(s, p) = flushed(v)
  BY DEF start
<1> HIDE DEF t
<1>3. Narrow(t, InjectorRegisters)
  BY <1>1, NarrowIdle DEF OnlyInjects, Ready
<1>4. Narrow(u, InjectorRegisters) /\ u.board = t.board
  BY <1>3, NarrowPattern
<1> HIDE DEF u
<1>5. Narrow(v, InjectorRegisters) /\ v.board = t.board
  BY <1>4, NarrowControl
<1> HIDE DEF v
<1>6. Apart(t.board, flushed(v).board, InjectorRegisters)
  BY <1>5, NarrowFlushed DEF InjectorRegisters
<1>7. Idle(flushed(v)) /\ DOMAIN Regs(flushed(v)) = DOMAIN Regs(t)
  BY <1>6, IdleFlushed DEF Apart, Regs
<1>8. ASSUME NEW m \in Lanes PROVE ControlOf(flushed(v), m) = ControlOf(t, m)
  <2>1. layer_cfg_ctrl(m).address \notin InjectorRegisters
    BY ControlEntries, LaneBounds DEF InjectorRegisters
  <2>2. layer_cfg_ctrl(m).address \in DOMAIN Regs(t)
    BY <1>1 DEF OnlyInjects, Ready
  <2> QED
    BY <1>6, <2>1, <2>2 DEF Apart, ControlOf, Regs
<1> QED
  BY <1>1, <1>2, <1>7, <1>8 DEF OnlyInjects, Ready

-----------------------------------------------------------------------------
(* What the bits of a configuration say.                                   *)
LEMMA BitsDisabled ==
    ASSUME NEW v
    PROVE  /\ ConfigBits(v, Disabled) \cap (0 .. 4) = {0, 2, 4}
           /\ \A reset : 4 \in ConfigBits(v, QuietConfig(reset))
<1> DEFINE Has(w, c, b) == b \in ConfigBits(w, c)
<1>1. \A c, b : b \in ConfigBits(v, c) <=>
          IF b = 4 THEN c.disableMISO ELSE IF b = 3 THEN c.chipSelect
          ELSE IF b = 2 THEN ~c.autoread ELSE IF b = 0 THEN c.hold
          ELSE IF b = 1 THEN c.reset ELSE b \in v
  BY DEF ConfigBits, Switched
<1>2. /\ 4 \in ConfigBits(v, Disabled) /\ 3 \notin ConfigBits(v, Disabled)
      /\ 2 \in ConfigBits(v, Disabled) /\ 0 \in ConfigBits(v, Disabled)
      /\ 1 \notin ConfigBits(v, Disabled)
  BY <1>1 DEF Disabled
<1>3. \A reset : 4 \in ConfigBits(v, QuietConfig(reset))
  BY <1>1 DEF Disabled, QuietConfig
<1> DEFINE W == ConfigBits(v, Disabled)
<1> HIDE DEF W
<1>4. \A b : b \in 0 .. 4 <=> b \in {0, 1, 2, 3, 4}
  OBVIOUS
<1>5. W \cap (0 .. 4) = {0, 2, 4}
  BY <1>2, <1>4 DEF W
<1> QED
  BY <1>3, <1>5 DEF W

(* No lane takes what its chips send.                                      *)
Deaf(s) == \A l \in Lanes : ControlOf(s, l) \cap {1, 4} # {}

(* A call of the preparation keeps the session in order and the lanes deaf.*)
Prepares(s, t) ==
    /\ Ready(t) /\ InjectionOf(t) = InjectionOf(s)
    /\ Deaf(s) => Deaf(t)

LEMMA AfterDisabled ==
    ASSUME NEW s, NEW t, After(s, t, Disabled, Lanes)
    PROVE  /\ Ready(t) /\ InjectionOf(t) = InjectionOf(s) /\ Deaf(t)
           /\ \A l \in Lanes : ControlOf(t, l) \cap (0 .. 4) = {0, 2, 4}
<1>1. \A l \in Lanes : ControlOf(t, l) \cap (0 .. 4) = {0, 2, 4}
  BY BitsDisabled DEF After
<1>2. Deaf(t)
  <2>1. 4 \in 0 .. 4
    OBVIOUS
  <2> QED
    BY <1>1, <2>1, Zenon DEF Deaf
<1> QED
  BY <1>1, <1>2 DEF After

LEMMA DisabledDeaf ==
    ASSUME NEW s, Ready(s)
    PROVE  LET t == disableLanesReadout(s) IN
           /\ Ready(t) /\ InjectionOf(t) = InjectionOf(s) /\ Deaf(t)
           /\ \A l \in Lanes : ControlOf(t, l) \cap (0 .. 4) = {0, 2, 4}
  BY LanesDisabled, AfterDisabled

LEMMA ZeroIsLane == 0 \in Lanes
  BY LaneAssumption DEF Lanes

LEMMA SwitchedBits ==
    ASSUME NEW v, NEW b, b \notin {1, 4}, NEW on
    PROVE  Switched(v, b, on) \cap {1, 4} = v \cap {1, 4}
  BY DEF Switched

LEMMA OnLanePrepares ==
    ASSUME NEW s, NEW t, NEW l, NEW v, OnLane(s, t, l, v),
           ControlOf(s, l) \cap {1, 4} # {} => v \cap {1, 4} # {}
    PROVE  Prepares(s, t)
<1>1. ASSUME Deaf(s), NEW m \in Lanes PROVE ControlOf(t, m) \cap {1, 4} # {}
  <2>1. CASE m = l
    BY <1>1, <2>1 DEF OnLane, Deaf
  <2>2. CASE m # l
    BY <1>1, <2>2 DEF OnLane, Deaf
  <2> QED
    BY <2>1, <2>2
<1> QED
  BY <1>1 DEF OnLane, Prepares, Deaf

LEMMA PreparingCalls ==
    ASSUME NEW s, Ready(s), NEW l \in Lanes
    PROVE  /\ \A b : Prepares(s, setLaneCS(s, l, b, TRUE)) /\ Prepares(s, holdLane(s, l, b, TRUE))
           /\ \A reset : Prepares(s, setLaneConfig(s, l, QuietConfig(reset), TRUE))
           /\ Prepares(s, disableLanesReadout(s))
           /\ Prepares(s, Prepared(s)) /\ Prepares(s, resetLaneStatCounters(s, l, TRUE))
<1>1. ASSUME NEW b
      PROVE  Prepares(s, setLaneCS(s, l, b, TRUE)) /\ Prepares(s, holdLane(s, l, b, TRUE))
  <2>1. /\ OnLane(s, holdLane(s, l, b, TRUE), l, Switched(ControlOf(s, l), 0, b))
        /\ OnLane(s, setLaneCS(s, l, b, TRUE), l, Switched(ControlOf(s, l), 3, b))
    BY LaneCalls
  <2>2. \A v, n : n \in {0, 3} => Switched(v, n, b) \cap {1, 4} = v \cap {1, 4}
    BY SwitchedBits
  <2>3. ASSUME NEW t, NEW n \in {0, 3}, OnLane(s, t, l, Switched(ControlOf(s, l), n, b))
        PROVE  Prepares(s, t)
    BY <2>2, <2>3, OnLanePrepares
  <2> QED
    BY <2>1, <2>3
<1>2. ASSUME NEW reset PROVE Prepares(s, setLaneConfig(s, l, QuietConfig(reset), TRUE))
  <2>1. OnLane(s, setLaneConfig(s, l, QuietConfig(reset), TRUE), l,
               ConfigBits(ControlOf(s, l), QuietConfig(reset)))
    BY LaneCalls
  <2>2. 4 \in ConfigBits(ControlOf(s, l), QuietConfig(reset))
    BY BitsDisabled
  <2> QED
    BY <2>1, <2>2, OnLanePrepares
<1>3. Prepares(s, disableLanesReadout(s))
  BY DisabledDeaf DEF Prepares
<1>4. \A t : Alike(s, t) => Prepares(s, t)
  BY DEF Alike, Prepares, Deaf
<1> QED
  BY <1>1, <1>2, <1>3, <1>4, SetupAlike, CountersAlike

LEMMA StartPrepares ==
    ASSUME NEW s, Ready(s), NEW p
    PROVE  Ready(start(s, p)) /\ (Deaf(s) => Deaf(start(s, p)))
<1> DEFINE t == start(s, p)
<1>1. OnlyInjects(s, t)
  BY StartCalls
<1> HIDE DEF t
<1>2. Ready(t) /\ (Deaf(s) => Deaf(t))
  BY <1>1 DEF OnlyInjects, Deaf
<1> QED
  BY <1>2 DEF t

(* After power-up.                                                         *)
LEMMA PowerUpReady ==
    LET s == Opened(PowerUp) IN
    /\ Ready(s)
    /\ \A l \in Lanes : ControlOf(s, l) = {0, 1, 2}
    /\ InjectionOf(s) = {PG_CTRL_SUSPEND, PG_CTRL_SYNCED}
<1> DEFINE s == Opened(PowerUp)
           D == UNION {Span(r) : r \in Scripted}
<1>1. Idle(s) /\ s.board = PowerUp
  BY DEF Opened, Idle
<1> DEFINE R == [a \in D |->
            CASE a \in {layer_cfg_ctrl(n).address : n \in Lanes} -> {0, 1, 2}
              [] a = io_ctrl.address -> {3}
              [] a = hk_ctrl.address -> {}
              [] a = layers_inj_ctrl.address -> {PG_CTRL_SUSPEND, PG_CTRL_SYNCED}
              [] a = layers_cfg_frame_tag_counter_ctrl.address -> {0}
              [] OTHER -> 0]
<1>2. Regs(s) = R
  <2>1. PowerUp.registers = R
    BY DEF PowerUp
  <2> HIDE DEF s, R
  <2> QED
    BY <1>1, <2>1 DEF Regs
<1>3. \A r \in Scripted : r.address \in Int /\ r.width \in {1, 4} => r.address \in Span(r)
  BY DEF Span
<1>4. ASSUME NEW l \in Lanes PROVE layer_cfg_ctrl(l).address \in D
  <2>1. layer_cfg_ctrl(l) \in Scripted
    BY DEF Scripted
  <2>2. layer_cfg_ctrl(l).address \in Span(layer_cfg_ctrl(l))
    BY <2>1, <1>3, ControlEntries, LaneBounds
  <2> QED
    BY <2>1, <2>2
<1>5. layers_inj_ctrl.address \in D
  <2>1. layers_inj_ctrl \in Scripted
    BY DEF Scripted
  <2>2. layers_inj_ctrl.address \in Span(layers_inj_ctrl)
    BY <2>1, <1>3, ControlEntries
  <2> QED
    BY <2>1, <2>2
<1> HIDE DEF s, D
<1>6. ASSUME NEW l \in Lanes PROVE ControlOf(s, l) = {0, 1, 2}
  <2>1. layer_cfg_ctrl(l).address \in {layer_cfg_ctrl(n).address : n \in Lanes}
    OBVIOUS
  <2>2. \A n \in Lanes : layer_cfg_ctrl(n).address \in 29 .. 48
    BY ControlEntries
  <2>3. /\ layer_cfg_ctrl(l).address # io_ctrl.address
        /\ layer_cfg_ctrl(l).address # hk_ctrl.address
        /\ layer_cfg_ctrl(l).address # layers_inj_ctrl.address
        /\ layer_cfg_ctrl(l).address # layers_cfg_frame_tag_counter_ctrl.address
    BY <2>2, SingleEntries
  <2> QED
    BY <1>2, <1>4, <2>1, <2>3 DEF ControlOf
<1>7. InjectionOf(s) = {PG_CTRL_SUSPEND, PG_CTRL_SYNCED}
  <2>1. layers_inj_ctrl.address \notin {layer_cfg_ctrl(n).address : n \in Lanes}
    BY ControlEntries
  <2>2. /\ layers_inj_ctrl.address # io_ctrl.address /\ layers_inj_ctrl.address # hk_ctrl.address
        /\ layers_inj_ctrl.address # layers_cfg_frame_tag_counter_ctrl.address
    BY SingleEntries
  <2> QED
    BY <1>2, <1>5, <2>1, <2>2 DEF InjectionOf
<1>8. Ready(s)
  BY <1>1, <1>2, <1>4, <1>5 DEF Ready
<1> QED
  BY <1>6, <1>7, <1>8 DEF s

LEMMA BoardsReady ==
    ASSUME NEW s \in Boards
    PROVE  Ready(s) /\ Deaf(s) /\ InjectionOf(s) = {PG_CTRL_SUSPEND, PG_CTRL_SYNCED}
<1> DEFINE p == Opened(PowerUp)
<1>1. Ready(p) /\ InjectionOf(p) = {PG_CTRL_SUSPEND, PG_CTRL_SYNCED}
  BY PowerUpReady
<1>2. Deaf(p)
  BY PowerUpReady DEF Deaf
<1>3. s = p \/ s = disableLanesReadout(p)
  BY DEF Boards
<1> HIDE DEF p
<1> QED
  BY <1>1, <1>2, <1>3, DisabledDeaf

LEMMA EnabledReady ==
    ASSUME NEW s, Ready(s), NEW lst \in Seq(Lanes), NEW autoread
    PROVE  LET t == enableLanesReadout(s, lst, autoread) IN
           Ready(t) /\ InjectionOf(t) = InjectionOf(s)
<1> DEFINE t == enableLanesReadout(s, lst, autoread)
<1>1. PICK d : /\ After(s, d, Disabled, Lanes)
               /\ After(d, t, Enabled(autoread), Passed(lst, Len(lst)))
  BY LanesEnabled
<1> HIDE DEF t
<1>2. Ready(t) /\ InjectionOf(t) = InjectionOf(s)
  BY <1>1 DEF After
<1> QED
  BY <1>2 DEF t

-----------------------------------------------------------------------------
(* The session and the control registers in a run of the script.           *)

(* Before the readout is enabled.                                          *)
Preparing ==
    \/ pc \in {"setup", "quiet", "reset", "route", "routed", "select", "config", "unhold",
               "poll", "flushed", "empty", "discard", "begin", "enable"}
    \/ pc \in {"chunk", "wait"} /\ resume # "loop"

Over == pc \in {"stop", "post", "done", "failed"}

Quietened == pc \in {"post", "done", "failed"}

Counters ==
    /\ args \in Arguments /\ lane \in Lanes /\ j \in Nat \ {0}
    /\ resume \in {"setup", "routed", "config", "flushed", "loop"}
    /\ pc \in {"chunk", "wait"} => resume # "setup"

SessionInv ==
    /\ Counters
    /\ Ready(session)
    /\ pc = "setup" => inject = <<>>
    /\ Preparing => Deaf(session)
    /\ Over => \A l \in Lanes : Held(l)
    /\ inject = <<>> \/ Quietened => ~Running(session.board)

LEMMA LanesGiven ==
    ASSUME Counters
    PROVE  /\ args.lanes \in Seq(Lanes) /\ Count \in Nat
           /\ j <= Count => Lane(j) \in Lanes
<1>1. Accepted(args)
  BY ArgumentsAssumption DEF Counters
<1>2. args.lanes \in Seq(Lanes)
  BY <1>1 DEF Accepted
<1> QED
  BY <1>2 DEF Counters, Count, Lane

LEMMA ControlIs == \A l : Control(l) = ControlOf(session, l)
  BY DEF Control, ControlOf, Regs

LEMMA RunningIs == Running(session.board) <=> InjectionOf(session) \cap {0, 1} = {}
  BY DEF Running, InjectionOf, Regs, PG_CTRL_RESET, PG_CTRL_SUSPEND

(* The session is as it was.                                               *)
LEMMA SessionKept ==
    ASSUME SessionInv, session' = session, inject' = inject, Counters',
           Preparing' => Preparing, Over' => Over, Quietened' => Quietened,
           pc' # "setup" \/ pc = "setup"
    PROVE  SessionInv'
  BY DEF SessionInv, Held, Control

(* A call of the preparation.                                              *)
LEMMA SessionPrepares ==
    ASSUME SessionInv, Prepares(session, session'), Preparing, inject = <<>> \/ inject' = inject,
           Counters', ~Over', ~Quietened', pc' # "setup"
    PROVE  SessionInv'
<1>1. Ready(session') /\ Deaf(session') /\ InjectionOf(session') = InjectionOf(session)
  BY DEF Prepares, SessionInv
<1>2. inject' = <<>> => ~Running(session.board)'
  <2>1. ASSUME inject' = <<>> PROVE ~Running(session.board)
    BY <2>1 DEF SessionInv
  <2>2. Running(session.board)' <=> InjectionOf(session') \cap {0, 1} = {}
    BY DEF Running, InjectionOf, Regs, PG_CTRL_RESET, PG_CTRL_SUSPEND
  <2> QED
    BY <1>1, <2>1, <2>2, RunningIs
<1> QED
  BY <1>1, <1>2 DEF SessionInv

LEMMA SessionInit == Init => SessionInv
<1> SUFFICES ASSUME Init PROVE SessionInv
  OBVIOUS
<1>1. Ready(session) /\ Deaf(session) /\ InjectionOf(session) = {1, 2}
  BY BoardsReady DEF Init, PG_CTRL_SUSPEND, PG_CTRL_SYNCED
<1>2. ~Running(session.board)
  BY <1>1, RunningIs
<1>3. Counters /\ ~Over
  BY ZeroIsLane DEF Init, Counters, Over
<1> QED
  BY <1>1, <1>2, <1>3 DEF SessionInv, Init

(* The actions that leave the session alone.                               *)
LEMMA SessionOthers ==
    ASSUME SessionInv,
           \/ WriteChunk \/ ChunkWritten \/ TimedOut \/ Empty
           \/ Loop \/ ReadLevelLow \/ ReadLevelHigh \/ ReadWord \/ Store
           \/ Process \/ Cancel \/ Expire \/ Environment
    PROVE  SessionInv'
<1> USE DEF Preparing, Over, Quietened
<1>1. Counters
  BY DEF SessionInv
<1>2. CASE WriteChunk
  <2>1. Counters' /\ session' = session /\ inject' = inject
    BY <1>1, <1>2 DEF WriteChunk, Counters
  <2>2. (pc' = resume \/ pc' = "wait") /\ resume' = resume /\ pc = "chunk"
    BY <1>2 DEF WriteChunk
  <2>3. (Preparing' => Preparing) /\ ~Over' /\ pc' # "setup"
    BY <1>1, <2>2 DEF Counters
  <2> QED
    BY <2>1, <2>3, SessionKept
<1>3. CASE ChunkWritten \/ TimedOut \/ Empty \/ ReadLevelLow \/ ReadLevelHigh \/ Process
  <2>1. Counters' /\ session' = session /\ inject' = inject
    BY <1>1, <1>3 DEF ChunkWritten, TimedOut, Empty, ReadLevelLow, ReadLevelHigh, Process, Goto,
                      Counters, board
  <2>2. resume' = resume /\ (Preparing' => Preparing) /\ (Over' => Over) /\ (Quietened' => Quietened)
        /\ pc' # "setup"
    BY <1>3 DEF ChunkWritten, TimedOut, Empty, ReadLevelLow, ReadLevelHigh, Process, Goto
  <2> QED
    BY <2>1, <2>2, SessionKept
<1>4. CASE Loop
  <2>1. session' = session /\ inject' = inject /\ pc = "loop"
        /\ ((pc' = "chunk" /\ resume' = "loop") \/ pc' = "level")
    BY <1>4 DEF Loop, writeSPI
  <2>2. Counters'
    BY <1>1, <1>4, LanesGiven DEF Loop, writeSPI, Counters
  <2> QED
    BY <2>1, <2>2, SessionKept
<1>5. CASE ReadWord \/ Store \/ Cancel \/ Expire
  <2>1. Counters' /\ session' = session /\ inject' = inject /\ resume' = resume
    BY <1>1, <1>5 DEF ReadWord, Store, Cancel, Expire, board, script, Counters
  <2>2. /\ pc' = pc \/ pc' \in {"end", "loop"}
    BY <1>5 DEF ReadWord, Store, Cancel, Expire, board, script
  <2> QED
    BY <2>1, <2>2, SessionKept
<1>6. CASE Environment
  <2>1. session' = session /\ UNCHANGED script
    BY <1>6 DEF Environment, ByteArrives, Shift, Push, StartFrame, board
  <2>2. Counters' /\ inject' = inject /\ pc' = pc /\ resume' = resume
    BY <1>1, <2>1 DEF script, Counters
  <2> QED
    BY <2>1, <2>2, SessionKept
<1> QED
  BY <1>2, <1>3, <1>4, <1>5, <1>6

(* The actions of the preparation.                                         *)
LEMMA SessionPreparation ==
    ASSUME SessionInv,
           \/ Setup \/ Quiet \/ EndReset \/ Route \/ Routed \/ Select \/ Config
           \/ Unhold \/ (\E interrupt \in {0, 1} : Poll(interrupt)) \/ Deselect \/ Discard \/ Begin
    PROVE  SessionInv'
<1> USE DEF Preparing, Over, Quietened
<1>1. Counters /\ Ready(session)
  BY DEF SessionInv
<1>2. \A l \in Lanes :
          /\ \A b : /\ Prepares(session, setLaneCS(session, l, b, TRUE))
                    /\ Prepares(session, holdLane(session, l, b, TRUE))
          /\ \A reset : Prepares(session, setLaneConfig(session, l, QuietConfig(reset), TRUE))
          /\ Prepares(session, disableLanesReadout(session))
          /\ Prepares(session, Prepared(session))
          /\ Prepares(session, resetLaneStatCounters(session, l, TRUE))
  BY <1>1, PreparingCalls
<1>3. lane \in Lanes /\ 0 \in Lanes /\ (j <= Count => Lane(j) \in Lanes) /\ Prepares(session, session)
  BY <1>1, LanesGiven, ZeroIsLane DEF Counters, Prepares
<1>4. CASE Setup
  <2>1. Counters' /\ pc = "setup" /\ pc' \in {"dead", "quiet"} /\ inject = <<>>
    BY <1>1, <1>4 DEF Setup, Goto, Counters, SessionInv
  <2>2. Prepares(session, session')
    BY <1>2, <1>3, <1>4 DEF Setup
  <2> QED
    BY <2>1, <2>2, SessionPrepares
<1>5. CASE Quiet
  <2>1. Counters' /\ pc = "quiet" /\ pc' = "reset" /\ inject' = inject
    BY <1>1, <1>5 DEF Quiet, Goto, Counters
  <2> DEFINE s == disableLanesReadout(session)
  <2>2. session' = setLaneConfig(s, 0, QuietConfig(TRUE), TRUE)
    BY <1>5 DEF Quiet
  <2>3. Prepares(session, s)
    BY <1>2, <1>3
  <2> HIDE DEF s
  <2>4. Prepares(s, session')
    BY <1>3, <2>2, <2>3, PreparingCalls DEF Prepares
  <2>5. Prepares(session, session')
    BY <2>3, <2>4 DEF Prepares
  <2> QED
    BY <2>1, <2>5, SessionPrepares
<1>6. CASE EndReset \/ Routed \/ Deselect
  <2>0. /\ pc \in {"reset", "routed", "flushed"} /\ pc' \in {"route", "poll"}
        /\ UNCHANGED <<args, lane, resume, inject>> /\ (j' = j \/ j' = j + 1)
    BY <1>6 DEF EndReset, Routed, Deselect, Goto
  <2>1. Counters'
    BY <1>1, <2>0 DEF Counters
  <2>2. Prepares(session, session')
    BY <1>2, <1>3, <1>6 DEF EndReset, Routed, Deselect
  <2> QED
    BY <2>0, <2>1, <2>2, SessionPrepares
<1>7. CASE Route
  <2>0. /\ pc = "route" /\ UNCHANGED <<args, inject>> /\ (j' = j \/ j' = 1)
        /\ (lane' = lane \/ (j <= Count /\ lane' = Lane(j)))
        /\ \/ pc' \in {"dead", "select"} /\ resume' = resume
           \/ pc' = "chunk" /\ resume' = "routed"
    BY <1>7 DEF Route, writeSPI
  <2>1. Counters'
    BY <1>1, <1>3, <2>0 DEF Counters
  <2>2. Prepares(session, session')
    BY <1>2, <1>3, <1>7 DEF Route
  <2> QED
    BY <2>0, <2>1, <2>2, SessionPrepares
<1>8. CASE Select
  <2>0. /\ pc = "select" /\ pc' \in {"config", "unhold"} /\ j' = 1
        /\ UNCHANGED <<args, lane, resume, inject>>
    BY <1>8 DEF Select
  <2>1. Counters'
    BY <1>1, <2>0 DEF Counters
  <2>2. Prepares(session, session')
    BY <1>2, <1>3, <1>8 DEF Select
  <2> QED
    BY <2>0, <2>1, <2>2, SessionPrepares
<1>9. CASE Config
  <2>0. /\ pc = "config" /\ UNCHANGED <<args, inject>> /\ (j' = j \/ j' = j + 1)
        /\ (lane' = lane \/ (j <= Count /\ lane' = Lane(j)))
        /\ \/ pc' \in {"dead", "select", "config"} /\ resume' = resume
           \/ pc' = "chunk" /\ resume' = "config"
    BY <1>9 DEF Config, writeSPI
  <2>1. Counters'
    BY <1>1, <1>3, <2>0 DEF Counters
  <2>2. Prepares(session, session')
    BY <1>2, <1>3, <1>9 DEF Config
  <2> QED
    BY <2>0, <2>1, <2>2, SessionPrepares
<1>10. CASE Unhold
  <2>1. Counters' /\ inject' = inject /\ pc = "unhold" /\ pc' \in {"poll", "empty"}
    BY <1>1, <1>3, <1>10 DEF Unhold, Counters
  <2>2. Prepares(session, session')
    BY <1>2, <1>3, <1>10 DEF Unhold
  <2> QED
    BY <2>1, <2>2, SessionPrepares
<1>11. CASE \E interrupt \in {0, 1} : Poll(interrupt)
  <2>0. /\ pc = "poll" /\ UNCHANGED <<args, inject, lane>> /\ (j' = j \/ j' = j + 1)
        /\ \/ pc' = "unhold" /\ resume' = resume
           \/ pc' = "chunk" /\ resume' = "flushed"
    BY <1>11 DEF Poll, writeSPI
  <2>1. Counters'
    BY <1>1, <1>3, <2>0 DEF Counters
  <2>2. Prepares(session, session')
    BY <1>2, <1>3, <1>11 DEF Poll
  <2> QED
    BY <2>0, <2>1, <2>2, SessionPrepares
<1>12. CASE Discard
  <2>1. Counters' /\ inject' = inject /\ pc = "discard" /\ pc' \in {"discard", "begin"}
    BY <1>1, <1>12 DEF Discard, Counters
  <2>2. Prepares(session, session')
    BY <1>2, <1>3, <1>12 DEF Discard
  <2> QED
    BY <2>1, <2>2, SessionPrepares
<1>13. CASE Begin
  <2>1. Counters' /\ inject' = inject /\ pc = "begin" /\ pc' = "enable"
    BY <1>1, <1>13 DEF Begin, Goto, Counters
  <2>2. CASE inject = <<>>
    <3>1. session' = session
      BY <1>13, <2>2 DEF Begin
    <3> QED
      BY <1>3, <2>1, <3>1, SessionPrepares
  <2>3. CASE inject # <<>>
    <3>1. session' = start(session, DefaultPattern)
      BY <1>13, <2>3 DEF Begin
    <3>2. Ready(session') /\ (Deaf(session) => Deaf(session'))
      BY <1>1, <3>1, StartPrepares
    <3> QED
      BY <2>1, <2>3, <3>2 DEF SessionInv
  <2> QED
    BY <2>2, <2>3
<1> QED
  BY <1>4, <1>5, <1>6, <1>7, <1>8, <1>9, <1>10, <1>11, <1>12, <1>13

(* The end of the run.                                                     *)
LEMMA SessionEnds ==
    ASSUME SessionInv, Enable \/ End \/ Stop
    PROVE  SessionInv'
<1> USE DEF Preparing, Over, Quietened
<1>1. Counters /\ Ready(session)
  BY DEF SessionInv
<1>2. Running(session.board)' <=> InjectionOf(session') \cap {0, 1} = {}
  BY DEF Running, InjectionOf, Regs, PG_CTRL_RESET, PG_CTRL_SUSPEND
<1>3. inject = <<>> => InjectionOf(session) \cap {0, 1} # {}
  BY RunningIs DEF SessionInv
<1>4. \A l : Control(l)' = ControlOf(session', l)
  BY DEF Control, ControlOf, Regs
<1>5. CASE Enable
  <2>1. Counters' /\ inject' = inject /\ pc' = "loop"
    BY <1>1, <1>5 DEF Enable, Goto, Counters
  <2>2. args.lanes \in Seq(Lanes) /\ session' = enableLanesReadout(session, args.lanes, ~args.noAutoread)
    BY <1>1, <1>5, LanesGiven DEF Enable
  <2>3. Ready(session') /\ InjectionOf(session') = InjectionOf(session)
    BY <1>1, <2>2, EnabledReady
  <2> QED
    BY <1>2, <1>3, <2>1, <2>3 DEF SessionInv
<1>6. CASE End
  <2>1. Counters' /\ inject' = inject /\ pc' = "stop"
    BY <1>1, <1>6 DEF End, Goto, Counters
  <2>2. After(session, session', Disabled, Lanes)
    BY <1>1, <1>6, LanesDisabled, LanesGarbled DEF End
  <2>3. /\ Ready(session') /\ InjectionOf(session') = InjectionOf(session)
        /\ \A l \in Lanes : ControlOf(session', l) \cap (0 .. 4) = {0, 2, 4}
    BY <2>2, AfterDisabled
  <2>4. \A l \in Lanes : Held(l)'
    BY <1>4, <2>3 DEF Held
  <2> QED
    BY <1>2, <1>3, <2>1, <2>3, <2>4 DEF SessionInv
<1>7. CASE Stop
  <2>1. Counters' /\ inject' = inject /\ pc = "stop" /\ pc' = "post"
    BY <1>1, <1>7 DEF Stop, Goto, Counters
  <2>2. CASE inject = <<>>
    <3>1. session' = session
      BY <1>7, <2>2 DEF Stop
    <3>2. \A l \in Lanes : Held(l)'
      BY <2>1, <3>1 DEF SessionInv, Held, Control
    <3> QED
      BY <1>1, <1>2, <1>3, <2>1, <2>2, <3>1, <3>2 DEF SessionInv
  <2>3. CASE inject # <<>>
    <3> DEFINE s == stop(session)
    <3>1. session' = s
      BY <1>7, <2>3 DEF Stop
    <3>2. OnlyInjects(session, s) /\ InjectionOf(s) = {0, 1}
      BY <1>1, StopCalls DEF Stopped, PG_CTRL_RESET, PG_CTRL_SUSPEND
    <3> HIDE DEF s
    <3>3. \A l \in Lanes : ControlOf(session', l) = ControlOf(session, l)
      BY <3>1, <3>2 DEF OnlyInjects
    <3>4. \A l \in Lanes : Held(l)'
      BY <1>4, <2>1, <3>3, ControlIs DEF SessionInv, Held
    <3>5. Ready(session') /\ ~Running(session.board)'
      BY <1>2, <3>1, <3>2 DEF OnlyInjects
    <3> QED
      BY <2>1, <2>3, <3>4, <3>5 DEF SessionInv
  <2> QED
    BY <2>2, <2>3
<1> QED
  BY <1>5, <1>6, <1>7

LEMMA SessionNext == SessionInv /\ [Next]_vars => SessionInv'
<1> SUFFICES ASSUME SessionInv, [Next]_vars PROVE SessionInv'
  OBVIOUS
<1>1. CASE Next
  BY <1>1, SessionOthers, SessionPreparation, SessionEnds DEF Next, Script
<1>2. CASE UNCHANGED vars
  BY <1>2 DEF vars, board, script, SessionInv, Counters, Preparing, Over, Quietened, Held, Control
<1> QED
  BY <1>1, <1>2

LEMMA SessionAlways == Spec => []SessionInv
  BY SessionInit, SessionNext, PTL DEF Spec

(* A run that gets to its end leaves every lane held, deselected and       *)
(* without readout, and no injection going on.                             *)
THEOREM ScriptLeavesQuiet == Spec => []LeftQuiet
<1>1. SessionInv => LeftQuiet
  BY DEF SessionInv, LeftQuiet, Over, Quietened
<1> QED
  BY <1>1, SessionAlways, PTL

-----------------------------------------------------------------------------
(* The configurations in memory.                                           *)

(* A step of the configuration of a chip leaves the length of the chain.   *)
Chained(asic) == asic = [numChips |-> asic.numChips, config |-> asic.config]

LEMMA ChangedChained ==
    ASSUME NEW asic, Chained(asic), NEW chip, NEW col, NEW word
    PROVE  /\ Chained(Changed(asic, chip, col, word))
           /\ Changed(asic, chip, col, word).numChips = asic.numChips
  BY DEF Chained, Changed

LEMMA ConfiguringChained ==
    ASSUME NEW asic, Chained(asic), NEW chip, NEW row, NEW col
    PROVE  /\ Chained(enable_inj_row(asic, chip, row))
           /\ enable_inj_row(asic, chip, row).numChips = asic.numChips
           /\ Chained(enable_inj_col(asic, chip, col))
           /\ enable_inj_col(asic, chip, col).numChips = asic.numChips
           /\ Chained(enable_pixel(asic, chip, col, row))
           /\ enable_pixel(asic, chip, col, row).numChips = asic.numChips
           /\ Chained(enable_ampout_col(asic, chip, col))
           /\ enable_ampout_col(asic, chip, col).numChips = asic.numChips
  BY ChangedChained DEF enable_inj_row, enable_inj_col, enable_pixel, enable_ampout_col

LEMMA VoltageChained ==
    ASSUME NEW asic, Chained(asic), NEW chip, NEW v
    PROVE  /\ Chained(SetInjectionVoltage(asic, chip, v))
           /\ SetInjectionVoltage(asic, chip, v).numChips = asic.numChips
  BY DEF Chained, SetInjectionVoltage

LEMMA InjectionChained ==
    ASSUME NEW asic, Chained(asic)
    PROVE  Chained(EnableInjection(asic)) /\ EnableInjection(asic).numChips = asic.numChips
<1> DEFINE chip == args.inject[2]
           row == args.inject[3]
           col == args.inject[4]
           a1 == enable_inj_col(asic, chip, col)
           a2 == enable_inj_row(a1, chip, row)
           a3 == enable_pixel(a2, chip, col, row)
           a4 == SetInjectionVoltage(a3, chip, args.vinj)
<1>0. EnableInjection(asic) = a3 \/ EnableInjection(asic) = a4
  BY DEF EnableInjection
<1> HIDE DEF chip, row, col
<1>1. Chained(a1) /\ a1.numChips = asic.numChips
  BY ConfiguringChained
<1> HIDE DEF a1
<1>2. Chained(a2) /\ a2.numChips = asic.numChips
  BY <1>1, ConfiguringChained
<1> HIDE DEF a2
<1>3. Chained(a3) /\ a3.numChips = asic.numChips
  BY <1>2, ConfiguringChained
<1> HIDE DEF a3
<1>4. Chained(a4) /\ a4.numChips = asic.numChips
  BY <1>3, VoltageChained
<1> HIDE DEF a4
<1> QED
  BY <1>0, <1>3, <1>4

LEMMA SetupChained ==
    ASSUME NEW c, NEW y
    PROVE  Chained(setupASIC(c, y)) /\ setupASIC(c, y).numChips = c
<1> DEFINE a == load_conf_from_yaml(NewAsic, y)
<1>1. Chained(a)
  BY DEF load_conf_from_yaml, Chained
<1>2. setupASIC(c, y) = [a EXCEPT !.numChips = c]
  BY DEF setupASIC
<1> HIDE DEF a
<1> QED
  BY <1>1, <1>2 DEF Chained

LEMMA FileIs ==
    ASSUME Accepted(args), NEW l, HasAsic(l)
    PROVE  FileOf(l) \in Yamls /\ Lane(FileOf(l)) = l
<1> DEFINE S == {k \in Yamls : Lane(k) = l}
<1>1. Len(args.yaml) \in Nat
  <2>1. Len(args.yaml) \in 0 .. Len(args.chipsPerLane) /\ Len(args.chipsPerLane) \in Nat
    BY DEF Accepted
  <2> QED
    BY <2>1
<1>2. S \subseteq 1 .. Len(args.yaml) /\ S # {}
  BY DEF Yamls, HasAsic
<1> HIDE DEF S
<1>3. Max(S) \in S
  BY <1>1, <1>2, LargestIn
<1> QED
  BY <1>3 DEF S, FileOf

LEMMA LoadedChained ==
    ASSUME Accepted(args), NEW l, HasAsic(l)
    PROVE  l \in DOMAIN Loaded /\ Chained(Loaded[l]) /\ Loaded[l].numChips \in Int
<1> DEFINE k == FileOf(l)
<1>1. k \in Yamls /\ Lane(k) = l
  BY FileIs
<1>2. Loaded[l] = setupASIC(args.chipsPerLane[k], args.yaml[k]) /\ l \in DOMAIN Loaded
  BY <1>1 DEF Loaded
<1> HIDE DEF k
<1>3. args.chipsPerLane[k] \in Int
  <2>1. /\ args.chipsPerLane \in Seq(Int) /\ Len(args.yaml) \in 0 .. Len(args.chipsPerLane)
        /\ k \in 1 .. Len(args.yaml)
    BY <1>1 DEF Accepted, Yamls
  <2> QED
    BY <2>1
<1>4. \A c, y : Chained(setupASIC(c, y)) /\ setupASIC(c, y).numChips = c
  BY SetupChained
<1> QED
  BY <1>2, <1>3, <1>4

LEMMA ConfiguredChained ==
    ASSUME Accepted(args), NEW l, HasAsic(l)
    PROVE  Configured[l].numChips \in Int
<1> DEFINE injected == IF Injectable
                       THEN [Loaded EXCEPT ![args.inject[1]] = EnableInjection(@)]
                       ELSE Loaded
<1>1. l \in DOMAIN Loaded /\ Chained(Loaded[l]) /\ Loaded[l].numChips \in Int
  BY LoadedChained
<1>2. l \in DOMAIN injected /\ Chained(injected[l]) /\ injected[l].numChips \in Int
  <2>1. injected[l] = Loaded[l] \/ injected[l] = EnableInjection(Loaded[l])
    BY <1>1
  <2>2. l \in DOMAIN injected
    BY <1>1
  <2> HIDE DEF injected
  <2> QED
    BY <1>1, <2>1, <2>2, InjectionChained
<1>3. Configured = injected
      \/ Configured = [injected EXCEPT ![args.analog[1]] =
                          enable_ampout_col(@, args.analog[2], args.analog[3])]
  BY DEF Configured
<1> HIDE DEF injected
<1>4. Configured[l] = injected[l]
      \/ Configured[l] = enable_ampout_col(injected[l], args.analog[2], args.analog[3])
  BY <1>2, <1>3
<1> QED
  BY <1>2, <1>4, ConfiguringChained

-----------------------------------------------------------------------------
(* What a lane has to send.                                                *)
AsicsCounted ==
    pc \notin {"setup", "dead"} => \A l : HasAsic(l) => asics[l].numChips \in Int

(* The lanes have their configuration by the time it is sent.              *)
RouteInv ==
    /\ pc \in {"setup", "quiet", "reset"} => j = 1
    /\ pc = "route" => \A n \in 1 .. Count : n < j => HasAsic(Lane(n))
    /\ pc = "routed" \/ (pc \in {"chunk", "wait"} /\ resume = "routed") =>
          \A n \in 1 .. Count : n <= j => HasAsic(Lane(n))
    /\ pc \in {"select", "config"} \/ (pc \in {"chunk", "wait"} /\ resume = "config") =>
          \A n \in 1 .. Count : HasAsic(Lane(n))

LinkInv ==
    /\ AsicsCounted /\ RouteInv
    /\ spi = [lane |-> spi.lane, payload |-> spi.payload, sent |-> spi.sent,
              coming |-> spi.coming, level |-> spi.level, heard |-> spi.heard,
              lost |-> spi.lost]
    /\ spi.lane \in Lanes
    /\ {spi.payload.length, spi.sent, spi.coming, spi.level} \subseteq Nat
    /\ spi.sent <= spi.payload.length
    /\ pc = "chunk" => spi.level = 0 /\ spi.coming = 0
    /\ spi.coming > 0 => pc = "wait" \/ resume = "loop"
    /\ spi.lost => resume = "loop"

LEMMA Lengths ==
    /\ \A asic : asic.numChips \in Int =>
          /\ writeSPIRoutingFrame(asic).length \in Nat
          /\ \A k : createSPIConfigFrame(asic, 10, k).length \in Nat
    /\ \A n \in Nat : Zeros(n).length \in Nat
<1>1. ASSUME NEW asic, asic.numChips \in Int PROVE FillBytes(asic) \in Nat
  BY <1>1 DEF FillBytes
<1>2. VectorLength \in Nat
  BY SideAssumption
<1> QED
  BY <1>1, <1>2 DEF writeSPIRoutingFrame, createSPIConfigFrame, Zeros

LEMMA LinkInit == Init => LinkInv
<1> SUFFICES ASSUME Init PROVE LinkInv
  OBVIOUS
<1>1. spi = [lane |-> 0, payload |-> Zeros(0), sent |-> 0, coming |-> 0, level |-> 0,
             heard |-> TRUE, lost |-> FALSE] /\ pc = "setup"
  BY DEF Init
<1>2. Zeros(0).length = 0
  BY DEF Zeros
<1> QED
  BY <1>1, <1>2, ZeroIsLane DEF LinkInv, AsicsCounted, RouteInv, Init

(* A payload begins.                                                       *)
LEMMA LinkBegins ==
    ASSUME LinkInv, NEW l \in Lanes, NEW payload, payload.length \in Nat, NEW back,
           writeSPI(l, payload, back), AsicsCounted', RouteInv'
    PROVE  LinkInv'
  BY DEF LinkInv, writeSPI

LEMMA LinkKept ==
    ASSUME LinkInv, spi' = spi, resume' = resume, pc' # "chunk" \/ pc = "chunk",
           pc = "wait" => pc' = "wait" \/ resume = "loop" \/ spi.coming = 0,
           AsicsCounted', RouteInv'
    PROVE  LinkInv'
  BY DEF LinkInv

LEMMA LinkChanged ==
    ASSUME LinkInv, AsicsCounted', RouteInv', NEW sent \in Nat, NEW coming \in Nat,
           NEW level \in Nat, NEW heard, NEW lost,
           spi' = [lane |-> spi.lane, payload |-> spi.payload, sent |-> sent,
                   coming |-> coming, level |-> level, heard |-> heard, lost |-> lost],
           sent <= spi.payload.length, pc' = "chunk" => level = 0 /\ coming = 0,
           coming > 0 => pc' = "wait" \/ resume' = "loop", lost => resume' = "loop"
    PROVE  LinkInv'
  BY DEF LinkInv

LEMMA RouteKept ==
    ASSUME RouteInv, SessionInv, [Next]_vars
    PROVE  RouteInv'
<1>1. Counters
  BY DEF SessionInv
<1>2. CASE Setup \/ Quiet \/ EndReset
  <2>1. UNCHANGED <<args, j>> /\ pc \in {"setup", "quiet", "reset"}
        /\ pc' \in {"dead", "quiet", "reset", "route"}
    BY <1>2 DEF Setup, Quiet, EndReset, Goto
  <2> QED
    BY <2>1 DEF RouteInv
<1>3. UNCHANGED args => /\ Count' = Count
                        /\ \A n \in 1 .. Count : HasAsic(Lane(n))' <=> HasAsic(Lane(n))
  BY DEF HasAsic, Lane, Yamls, Count
<1>4. Count \in Nat /\ j \in Nat
  BY <1>1, LanesGiven DEF Counters
<1>5. CASE Route
  <2>1. CASE j <= Count
    <3>1. /\ UNCHANGED <<args, j>> /\ pc = "route"
          /\ \/ HasAsic(Lane(j)) /\ pc' = "chunk" /\ resume' = "routed"
             \/ pc' = "dead"
      BY <1>5, <2>1 DEF Route, writeSPI
    <3> QED
      BY <1>3, <1>4, <3>1 DEF RouteInv
  <2>2. CASE ~(j <= Count)
    <3>1. UNCHANGED args /\ pc = "route" /\ pc' \in {"dead", "select"}
      BY <1>5, <2>2 DEF Route
    <3> QED
      BY <1>3, <1>4, <2>2, <3>1 DEF RouteInv
  <2> QED
    BY <2>1, <2>2
<1>6. CASE Routed
  <2>1. UNCHANGED args /\ j' = j + 1 /\ pc = "routed" /\ pc' = "route"
    BY <1>6 DEF Routed, Goto
  <2> QED
    BY <1>3, <1>4, <2>1 DEF RouteInv
<1>7. CASE Select \/ Config
  <2>1. UNCHANGED args /\ pc \in {"select", "config"}
        /\ (pc' \in {"select", "config", "unhold", "dead"} \/ (pc' = "chunk" /\ resume' = "config"))
    BY <1>7 DEF Select, Config, writeSPI
  <2> QED
    BY <1>3, <2>1 DEF RouteInv
<1>8. CASE WriteChunk
  <2>1. UNCHANGED <<args, j, resume>> /\ pc = "chunk" /\ pc' \in {"wait", resume}
    BY <1>8 DEF WriteChunk
  <2>2. resume \in {"routed", "config", "flushed", "loop"}
    BY <1>1, <2>1 DEF Counters
  <2> QED
    BY <1>3, <2>1, <2>2 DEF RouteInv
<1>9. CASE ChunkWritten \/ TimedOut \/ Expire \/ ReadWord \/ Environment \/ UNCHANGED vars
  <2>1. UNCHANGED <<args, j, resume>> /\ (pc' \in {pc, "dead"} \/ (pc = "wait" /\ pc' = "chunk"))
    BY <1>9 DEF ChunkWritten, TimedOut, Expire, ReadWord, Environment, ByteArrives, Shift, Push, StartFrame,
                vars, script, Goto
  <2> QED
    BY <1>3, <2>1 DEF RouteInv
<1>10. CASE Unhold \/ (\E interrupt \in {0, 1} : Poll(interrupt)) \/ Discard \/ Loop \/ Store \/ Cancel
  <2>1. pc' \in {"poll", "empty", "unhold", "discard", "begin", "level", "end", "loop"}
        \/ (pc' = "chunk" /\ resume' \in {"flushed", "loop"})
    BY <1>10 DEF Unhold, Poll, Discard, Loop, Store, Cancel, writeSPI
  <2> QED
    BY <2>1 DEF RouteInv
<1>11. CASE Deselect \/ Empty \/ Begin \/ Enable \/ End \/ Stop \/ Process
            \/ ReadLevelLow \/ ReadLevelHigh
  <2>1. pc' \in {"poll", "discard", "enable", "loop", "stop", "post", "failed", "done",
                 "level2", "read"}
    BY <1>11 DEF Deselect, Empty, Begin, Enable, End, Stop, Process, ReadLevelLow,
                 ReadLevelHigh, Goto
  <2> QED
    BY <2>1 DEF RouteInv
<1> QED
  BY <1>2, <1>5, <1>6, <1>7, <1>8, <1>9, <1>10, <1>11 DEF Next, Script

LEMMA AsicsKept ==
    ASSUME AsicsCounted, SessionInv, [Next]_vars
    PROVE  AsicsCounted'
<1>1. CASE Setup
  <2>1. args' = args /\ Accepted(args)
    BY <1>1, ArgumentsAssumption DEF Setup, SessionInv, Counters
  <2>2. \A l : HasAsic(l)' <=> HasAsic(l)
    BY <2>1 DEF HasAsic, Yamls, Lane
  <2>3. pc' = "dead" \/ asics' = Configured
    BY <1>1 DEF Setup, Goto
  <2> QED
    BY <2>1, <2>2, <2>3, ConfiguredChained DEF AsicsCounted
<1>2. CASE UNCHANGED <<args, asics>> /\ (pc' \in {"setup", "dead"} \/ pc \notin {"setup", "dead"})
  <2>2. \A l : HasAsic(l)' <=> HasAsic(l)
    BY <1>2 DEF HasAsic, Yamls, Lane
  <2> QED
    BY <1>2, <2>2 DEF AsicsCounted
<1>3. [Next]_vars => Setup \/ (UNCHANGED <<args, asics>>
                        /\ (pc' \in {"setup", "dead"} \/ pc \notin {"setup", "dead"}))
  <2> SUFFICES ASSUME [Next]_vars, ~Setup
               PROVE  /\ UNCHANGED <<args, asics>>
                      /\ pc' \in {"setup", "dead"} \/ pc \notin {"setup", "dead"}
    OBVIOUS
  <2>1. CASE Quiet \/ EndReset \/ Routed \/ Deselect \/ Empty \/ Begin \/ Enable \/ End \/ Stop
             \/ Process \/ ReadLevelLow \/ ReadLevelHigh \/ ChunkWritten \/ TimedOut
    BY <2>1 DEF Quiet, EndReset, Routed, Deselect, Empty, Begin, Enable, End, Stop,
                Process, ReadLevelLow, ReadLevelHigh, ChunkWritten, TimedOut, Goto
  <2>2. CASE WriteChunk \/ Route \/ Select \/ Config \/ Unhold
             \/ (\E interrupt \in {0, 1} : Poll(interrupt)) \/ Discard \/ Loop \/ Store
    BY <2>2 DEF WriteChunk, Route, Select, Config, Unhold, Poll, Discard, Loop, Store, writeSPI
  <2>3. CASE ReadWord \/ Cancel \/ Expire \/ Environment \/ UNCHANGED vars
    BY <2>3 DEF ReadWord, Cancel, Expire, Environment, ByteArrives, Shift, Push, StartFrame, vars, script, InLoop
  <2> QED
    BY <2>1, <2>2, <2>3 DEF Next, Script
<1> QED
  BY <1>1, <1>2, <1>3

(* A byte that finds no room while the board is prepared has a lane that   *)
(* can pause, and there is none.                                           *)
LEMMA NoneLost ==
    ASSUME LinkInv, SessionInv, ByteArrives, resume # "loop"
    PROVE  spi.level < MosiDepth
<1>1. pc = "wait" /\ spi.lane \in Lanes
  BY DEF ByteArrives, LinkInv
<1>2. Deaf(session)
  BY <1>1 DEF SessionInv, Preparing
<1>3. ~Receives(spi.lane)
  BY <1>1, <1>2, ControlIs DEF Deaf, Receives
<1> QED
  BY <1>3 DEF ByteArrives, Paused

LEMMA LinkNext ==
    ASSUME LinkInv, SessionInv, [Next]_vars
    PROVE  LinkInv'
<1>1. AsicsCounted' /\ RouteInv'
  BY AsicsKept, RouteKept DEF LinkInv
<1>2. Counters
  BY DEF SessionInv
<1>3. lane \in Lanes /\ (j <= Count => Lane(j) \in Lanes)
  BY <1>2, LanesGiven DEF Counters
<1>4. Step \in Nat \ {0} /\ MosiDepth \in Nat
  BY MainScriptAssumption
<1>5. CASE Setup \/ Quiet \/ EndReset \/ Routed \/ Deselect \/ Empty \/ Begin \/ Enable \/ End \/ Stop
           \/ Process \/ ReadLevelLow \/ ReadLevelHigh \/ TimedOut
  <2>1. spi' = spi /\ resume' = resume /\ pc' # "chunk" /\ (pc # "wait" \/ spi.coming = 0)
    BY <1>5 DEF Setup, Quiet, EndReset, Routed, Deselect, Empty, Begin, Enable, End, Stop,
                Process, ReadLevelLow, ReadLevelHigh, TimedOut, Goto, board
  <2> QED
    BY <1>1, <2>1, LinkKept
<1>6. CASE Select \/ Unhold \/ Discard \/ Store
  <2>1. spi' = spi /\ resume' = resume /\ pc' # "chunk" /\ pc # "wait"
    BY <1>6 DEF Select, Unhold, Discard, Store, board
  <2> QED
    BY <1>1, <2>1, LinkKept
<1>7. CASE ReadWord \/ Cancel \/ Expire \/ Push \/ (\E l \in Lanes : StartFrame(l)) \/ UNCHANGED vars
  <2>1. /\ spi' = spi /\ resume' = resume
        /\ pc' = pc \/ (pc' # "chunk" /\ (pc # "wait" \/ resume = "loop"))
    BY <1>7 DEF ReadWord, Cancel, InLoop, Expire, Push, StartFrame, vars, script, board
  <2> QED
    BY <1>1, <2>1, LinkKept
<1>8. CASE Route
  <2>1. CASE j <= Count /\ HasAsic(Lane(j))
    <3>1. writeSPI(Lane(j), writeSPIRoutingFrame(asics[Lane(j)]), "routed") /\ pc = "route"
      BY <1>8, <2>1 DEF Route
    <3>2. writeSPIRoutingFrame(asics[Lane(j)]).length \in Nat
      BY <2>1, <3>1, Lengths DEF LinkInv, AsicsCounted
    <3> QED
      BY <1>1, <1>3, <2>1, <3>1, <3>2, LinkBegins
  <2>2. CASE ~(j <= Count /\ HasAsic(Lane(j)))
    <3>1. spi' = spi /\ resume' = resume /\ pc' # "chunk" /\ pc # "wait"
      BY <1>8, <2>2 DEF Route
    <3> QED
      BY <1>1, <3>1, LinkKept
  <2> QED
    BY <2>1, <2>2
<1>9. CASE Config
  <2>1. CASE writeSPI(Lane(j), createSPIConfigFrame(asics[Lane(j)], 10, i), "config") /\ j <= Count
    <3>1. pc = "config"
      BY <1>9 DEF Config
    <3>2. HasAsic(Lane(j))
      BY <1>2, <2>1, <3>1, LanesGiven DEF LinkInv, RouteInv, Counters
    <3>3. createSPIConfigFrame(asics[Lane(j)], 10, i).length \in Nat
      BY <3>1, <3>2, Lengths DEF LinkInv, AsicsCounted
    <3> QED
      BY <1>1, <1>3, <2>1, <3>3, LinkBegins
  <2>2. CASE spi' = spi /\ resume' = resume /\ pc' # "chunk" /\ pc # "wait"
    BY <1>1, <2>2, LinkKept
  <2> QED
    BY <1>9, <2>1, <2>2 DEF Config
<1>10. CASE Loop
  <2>1. \/ spi' = spi /\ resume' = resume /\ pc' # "chunk" /\ pc # "wait"
        \/ j <= Count /\ writeSPI(Lane(j), Zeros(3), "loop")
    BY <1>10 DEF Loop
  <2> QED
    BY <1>1, <1>3, <2>1, LinkKept, LinkBegins, Lengths
<1>11. CASE \E interrupt \in {0, 1} : Poll(interrupt)
  <2>1. \/ spi' = spi /\ resume' = resume /\ pc' # "chunk" /\ pc # "wait"
        \/ writeSPI(lane, Zeros(3), "flushed")
    BY <1>11 DEF Poll
  <2> QED
    BY <1>1, <1>3, <2>1, LinkKept, LinkBegins, Lengths
<1>12. CASE ChunkWritten
  <2>1. spi' = spi /\ spi.level = 0 /\ spi.coming = 0 /\ resume' = resume
    BY <1>12 DEF ChunkWritten, board
  <2> QED
    BY <1>1, <2>1 DEF LinkInv
<1>13. CASE Shift
  <2> DEFINE heard == spi.heard /\ Selected(spi.lane)
  <2>1. /\ spi' = [spi EXCEPT !.level = @ - 1, !.heard = heard]
        /\ spi.level > 0 /\ pc' = pc /\ resume' = resume
    BY <1>13 DEF Shift, script
  <2> HIDE DEF heard
  <2>2. spi' = [lane |-> spi.lane, payload |-> spi.payload, sent |-> spi.sent,
                coming |-> spi.coming, level |-> spi.level - 1, heard |-> heard,
                lost |-> spi.lost]
    BY <2>1 DEF LinkInv
  <2>3. /\ spi.level - 1 \in Nat /\ spi.sent \in Nat /\ spi.coming \in Nat /\ pc # "chunk"
        /\ spi.sent <= spi.payload.length
        /\ (spi.coming > 0 => pc = "wait" \/ resume = "loop") /\ (spi.lost => resume = "loop")
    BY <2>1 DEF LinkInv
  <2>4. /\ pc' = "chunk" => spi.level - 1 = 0 /\ spi.coming = 0
        /\ spi.coming > 0 => pc' = "wait" \/ resume' = "loop"
        /\ spi.lost => resume' = "loop"
    BY <2>1, <2>3
  <2> QED
    BY <1>1, <2>2, <2>3, <2>4, LinkChanged
<1>14. CASE WriteChunk
  <2> DEFINE n == ChunkAfter(spi.payload, spi.sent, Step)
  <2>1. n \in Nat /\ spi.sent + n <= spi.payload.length
    BY <1>4 DEF ChunkAfter, LinkInv
  <2>2. /\ spi.level = 0 /\ spi.coming = 0 /\ pc = "chunk" /\ resume' = resume
        /\ (spi.lost => resume = "loop")
    BY <1>14 DEF WriteChunk, LinkInv
  <2>3. CASE n = 0
    <3>1. spi' = spi
      BY <1>14, <2>3 DEF WriteChunk
    <3> QED
      BY <1>1, <2>2, <3>1, LinkKept
  <2>4. CASE n # 0
    <3>1. pc' = "wait" /\ spi' = [spi EXCEPT !.sent = @ + n, !.coming = @ + n]
      BY <1>14, <2>4 DEF WriteChunk
    <3> HIDE DEF n
    <3>2. spi.coming + n = n /\ spi.sent + n \in Nat
      BY <2>1, <2>2 DEF LinkInv
    <3>3. spi' = [lane |-> spi.lane, payload |-> spi.payload, sent |-> spi.sent + n,
                  coming |-> n, level |-> 0, heard |-> spi.heard, lost |-> spi.lost]
      <4>1. spi' = [lane |-> spi.lane, payload |-> spi.payload, sent |-> spi.sent + n,
                    coming |-> spi.coming + n, level |-> spi.level, heard |-> spi.heard,
                    lost |-> spi.lost]
        BY <3>1 DEF LinkInv
      <4> QED
        BY <2>2, <3>2, <4>1
    <3>4. spi.lost => resume' = "loop"
      BY <2>2
    <3> QED
      BY <1>1, <2>1, <3>1, <3>2, <3>3, <3>4, LinkChanged
  <2> QED
    BY <2>3, <2>4
<1>15. CASE ByteArrives
  <2> DEFINE full  == spi.level = MosiDepth
             level == IF full THEN MosiDepth ELSE spi.level + 1
             lost  == spi.lost \/ full
  <2>1. /\ spi' = [spi EXCEPT !.coming = @ - 1, !.lost = lost, !.level = level]
        /\ spi.coming > 0 /\ pc' = pc /\ resume' = resume
    BY <1>15 DEF ByteArrives, script
  <2>2. level \in Nat /\ (lost => resume = "loop")
    BY <1>4, <1>15, NoneLost DEF LinkInv
  <2> HIDE DEF level, lost
  <2>3. spi' = [lane |-> spi.lane, payload |-> spi.payload, sent |-> spi.sent,
                coming |-> spi.coming - 1, level |-> level, heard |-> spi.heard,
                lost |-> lost]
    BY <2>1 DEF LinkInv
  <2>4. /\ spi.coming - 1 \in Nat /\ spi.sent \in Nat /\ pc # "chunk"
        /\ spi.sent <= spi.payload.length /\ (pc = "wait" \/ resume = "loop")
    BY <2>1 DEF LinkInv
  <2>5. pc' # "chunk" /\ (pc' = "wait" \/ resume' = "loop") /\ (lost => resume' = "loop")
    BY <2>1, <2>2, <2>4
  <2> QED
    BY <1>1, <2>2, <2>3, <2>4, <2>5, LinkChanged
<1> QED
  BY <1>5, <1>6, <1>7, <1>8, <1>9, <1>10, <1>11, <1>12, <1>13, <1>14, <1>15
  DEF Next, Script, Environment

(* Bytes are lost by a MOSI FIFO that is full in the main loop only,       *)
(* however small it is.                                                    *)
THEOREM ScriptNothingOverflows ==
    Spec => []NothingOverflows
<1>1. LinkInv => NothingOverflows
  BY DEF LinkInv, NothingOverflows
<1>2. LinkInv /\ SessionInv /\ [Next]_vars => LinkInv'
  BY LinkNext
<1> QED
  BY <1>1, <1>2, LinkInit, SessionAlways, PTL DEF Spec

-----------------------------------------------------------------------------
(* The words that come through the readout buffer.                         *)
Entry == [from : {"old", "lane"}, frame : Nat, part : Nat, value : Nat]

(* The word number m of the frames that are sent.                          *)
FrameWord(m) ==
    [from |-> "lane", frame |-> (m - 1) \div 3 + 1, part |-> ((m - 1) % 3) + 1,
     value |-> IF (m - 1) % 3 = 0 THEN 2 ELSE 9]

(* In the main loop: what was taken, what is in the buffer and what comes  *)
(* behind are the frames that were sent, in order.                         *)
InOrder ==
    /\ \A k \in 1 .. Len(fifo) : fifo[k] = FrameWord(Len(taken) + k)
    /\ \A k \in 1 .. Len(transit) : transit[k] = FrameWord(Len(taken) + Len(fifo) + k)
    /\ Len(taken) + Len(fifo) + Len(transit) = 3 * made

OldBehind ==
    /\ taken = <<>> /\ made = 0
    /\ \A k \in 1 .. Len(transit) : transit[k].from = "old"
    /\ Len(transit) <= MaxBacklog

StreamInv ==
    /\ {fifo, transit, taken} \subseteq Seq(Entry) /\ {made, left, low, buff} \subseteq Nat
    /\ Len(fifo) <= Depth
    /\ Preparing => OldBehind
    /\ pc = "discard" => Len(fifo) + Len(transit) <= left
    /\ pc \in {"begin", "enable"} => fifo = <<>> /\ transit = <<>>
    /\ InLoop => InOrder
    /\ \A k \in 1 .. Len(taken) : taken[k] = FrameWord(k)

LEMMA Sizes ==
    /\ Depth \in Nat \ {0} /\ FlushExtra \in Nat /\ MaxBacklog \in Nat
    /\ Byte \in Nat \ {0} /\ MaxFrames \in Nat
  BY MainScriptAssumption

LEMMA OldWordsAre ==
    ASSUME NEW n \in Nat
    PROVE  /\ OldWords(n) \in Seq(Entry) /\ Len(OldWords(n)) = n
           /\ \A k \in 1 .. n : OldWords(n)[k].from = "old"
<1> DEFINE w == [from |-> "old", frame |-> 0, part |-> 0, value |-> 9]
<1>1. w \in Entry /\ w.from = "old"
  BY DEF Entry
<1>2. OldWords(n) = [k \in 1 .. n |-> w]
  BY DEF OldWords
<1> HIDE DEF w
<1>3. OldWords(n) \in [1 .. n -> Entry]
  BY <1>1, <1>2
<1> QED
  BY <1>1, <1>2, <1>3

LEMMA FrameIs ==
    ASSUME NEW from \in {"old", "lane"}, NEW n \in Nat
    PROVE  LET f == FrameOf(from, n + 1) IN
           /\ f \in Seq(Entry) /\ Len(f) = 3
           /\ from = "lane" => \A k \in 1 .. 3 : f[k] = FrameWord(3 * n + k)
<1> DEFINE f == FrameOf(from, n + 1)
           w(k) == [from |-> from, frame |-> n + 1, part |-> k,
                    value |-> IF k = 1 THEN 2 ELSE 9]
<1>1. f = [k \in 1 .. 3 |-> w(k)]
  BY DEF FrameOf
<1>2. \A k \in 1 .. 3 : w(k) \in Entry
  BY DEF Entry
<1>3. ASSUME NEW k \in 1 .. 3, from = "lane" PROVE w(k) = FrameWord(3 * n + k)
  <2>1. (3 * n + k - 1) \div 3 = n /\ (3 * n + k - 1) % 3 = k - 1
    OBVIOUS
  <2> QED
    BY <1>3, <2>1 DEF FrameWord
<1> HIDE DEF f, w
<1>4. f \in [1 .. 3 -> Entry]
  BY <1>1, <1>2
<1>5. f \in Seq(Entry) /\ Len(f) = 3
  <2>1. 3 \in Nat
    OBVIOUS
  <2>2. \A m \in Nat : f \in [1 .. m -> Entry] => f \in Seq(Entry) /\ Len(f) = m
    OBVIOUS
  <2> QED
    BY ONLY <1>4, <2>1, <2>2
<1> QED
  BY <1>1, <1>3, <1>5 DEF f

LEMMA StreamInit == Init => StreamInv
<1> SUFFICES ASSUME Init PROVE StreamInv
  OBVIOUS
<1>1. /\ fifo = <<>> \/ fifo = OldWords(Depth)
      /\ (\E n \in 0 .. MaxBacklog : transit = OldWords(n))
      /\ taken = <<>> /\ made = 0 /\ left = 0 /\ low = 0 /\ buff = 0 /\ pc = "setup"
  BY DEF Init
<1>2. fifo \in Seq(Entry) /\ Len(fifo) <= Depth
  BY <1>1, OldWordsAre, Sizes
<1>3. /\ transit \in Seq(Entry) /\ Len(transit) <= MaxBacklog
      /\ \A k \in 1 .. Len(transit) : transit[k].from = "old"
  BY <1>1, OldWordsAre, Sizes
<1>4. taken \in Seq(Entry) /\ Len(taken) = 0
  BY <1>1
<1> QED
  BY <1>1, <1>2, <1>3, <1>4 DEF StreamInv, OldBehind, InLoop

(* Nothing moves.                                                          *)
LEMMA StreamStays ==
    ASSUME StreamInv, UNCHANGED <<fifo, transit, made, taken>>, {left', low', buff'} \subseteq Nat,
           Preparing' => Preparing, InLoop' => InLoop,
           pc' # "discard" \/ (pc = "discard" /\ left' = left),
           pc' \notin {"begin", "enable"} \/ pc \in {"begin", "enable"}
    PROVE  StreamInv'
  BY DEF StreamInv, OldBehind, InOrder

LEMMA StreamPush ==
    ASSUME StreamInv, Push
    PROVE  StreamInv'
<1>1. /\ transit # <<>> /\ Len(fifo) < Depth
      /\ fifo' = Append(fifo, Head(transit)) /\ transit' = Tail(transit)
      /\ UNCHANGED <<made, taken, left, low, buff, pc, resume>>
  BY DEF Push, reading, stored, script
<1>2. /\ fifo' \in Seq(Entry) /\ transit' \in Seq(Entry)
      /\ Len(fifo') = Len(fifo) + 1 /\ Len(transit') = Len(transit) - 1 /\ Len(transit) \in Nat \ {0}
      /\ Len(fifo) \in Nat /\ Len(taken) \in Nat
  BY <1>1 DEF StreamInv
<1>3. /\ \A k \in 1 .. Len(fifo) : fifo'[k] = fifo[k]
      /\ fifo'[Len(fifo) + 1] = transit[1]
      /\ \A k \in 1 .. Len(transit) - 1 : transit'[k] = transit[k + 1]
  BY <1>1 DEF StreamInv
<1>4. ASSUME InOrder PROVE InOrder'
  <2>1. \A k \in 1 .. Len(fifo') : fifo'[k] = FrameWord(Len(taken') + k)
    <3> SUFFICES ASSUME NEW k \in 1 .. Len(fifo')
                 PROVE  fifo'[k] = FrameWord(Len(taken') + k)
      OBVIOUS
    <3>1. CASE k \in 1 .. Len(fifo)
      BY <1>1, <1>3, <1>4, <3>1 DEF InOrder
    <3>2. CASE k = Len(fifo) + 1
      <4>1. 1 \in 1 .. Len(transit)
        BY <1>2
      <4>2. transit[1] = FrameWord(Len(taken) + Len(fifo) + 1)
        BY <1>4, <4>1 DEF InOrder
      <4>3. Len(taken) + Len(fifo) + 1 = Len(taken') + k
        BY <1>1, <1>2, <3>2
      <4> QED
        BY <1>3, <3>2, <4>2, <4>3
    <3> QED
      BY <1>2, <3>1, <3>2
  <2>2. \A k \in 1 .. Len(transit') : transit'[k] = FrameWord(Len(taken') + Len(fifo') + k)
    <3> SUFFICES ASSUME NEW k \in 1 .. Len(transit')
                 PROVE  transit'[k] = FrameWord(Len(taken') + Len(fifo') + k)
      OBVIOUS
    <3>1. k + 1 \in 1 .. Len(transit) /\ k \in 1 .. Len(transit) - 1
      BY <1>2
    <3>2. transit'[k] = FrameWord(Len(taken) + Len(fifo) + (k + 1))
      BY <1>3, <1>4, <3>1 DEF InOrder
    <3>3. Len(taken) + Len(fifo) + (k + 1) = Len(taken') + Len(fifo') + k
      BY <1>1, <1>2
    <3> QED
      BY <3>2, <3>3
  <2>3. Len(taken') + Len(fifo') + Len(transit') = 3 * made'
    BY <1>1, <1>2, <1>4 DEF InOrder
  <2> QED
    BY <2>1, <2>2, <2>3 DEF InOrder
<1>5. ASSUME OldBehind PROVE OldBehind'
  <2>1. Len(transit') <= MaxBacklog
    BY <1>2, <1>5, Sizes DEF OldBehind
  <2>2. ASSUME NEW k \in 1 .. Len(transit') PROVE transit'[k].from = "old"
    <3>1. k + 1 \in 1 .. Len(transit) /\ k \in 1 .. Len(transit) - 1
      BY <1>2
    <3> QED
      BY <1>3, <1>5, <3>1 DEF OldBehind
  <2> QED
    BY <1>1, <1>5, <2>1, <2>2 DEF OldBehind
<1>6. pc \notin {"begin", "enable"}
  BY <1>1 DEF StreamInv
<1> QED
  BY <1>1, <1>2, <1>4, <1>5, <1>6, Sizes DEF StreamInv, Preparing, InLoop

LEMMA StreamFrame ==
    ASSUME StreamInv, SessionInv, NEW l \in Lanes, StartFrame(l)
    PROVE  StreamInv'
<1>1. /\ Receives(l) /\ transit = <<>> /\ made' = made + 1
      /\ transit' = FrameOf(IF InLoop THEN "lane" ELSE "old", made + 1)
      /\ UNCHANGED <<fifo, taken, left, low, buff, pc, resume>>
  BY DEF StartFrame, reading, stored, script
<1>2. ~Preparing
  BY <1>1, ControlIs DEF SessionInv, Deaf, Receives
<1>3. pc \notin {"discard", "begin", "enable"} /\ ~Preparing'
  BY <1>1, <1>2 DEF Preparing
<1>4. made \in Nat /\ Len(transit) = 0 /\ Len(fifo) \in Nat /\ Len(taken) \in Nat
  BY <1>1 DEF StreamInv
<1>5. transit' \in Seq(Entry) /\ Len(transit') = 3
      /\ (InLoop => \A k \in 1 .. 3 : transit'[k] = FrameWord(3 * made + k))
  BY <1>1, <1>4, FrameIs
<1>6. ASSUME InLoop PROVE InOrder'
  <2>1. 3 * made = Len(taken) + Len(fifo)
    BY <1>4, <1>6 DEF StreamInv, InOrder
  <2>2. \A k \in 1 .. Len(fifo') : fifo'[k] = FrameWord(Len(taken') + k)
    BY <1>1, <1>6 DEF StreamInv, InOrder
  <2>3. \A k \in 1 .. Len(transit') : transit'[k] = FrameWord(Len(taken') + Len(fifo') + k)
    BY <1>1, <1>5, <1>6, <2>1
  <2>4. Len(taken') + Len(fifo') + Len(transit') = 3 * made'
    <3>1. Len(transit') = 3
      BY <1>5
    <3>2. Len(taken') = Len(taken) /\ Len(fifo') = Len(fifo) /\ made' = made + 1
      BY <1>1
    <3> QED
      BY <1>4, <2>1, <3>1, <3>2
  <2> QED
    BY <2>2, <2>3, <2>4 DEF InOrder
<1> QED
  BY <1>1, <1>2, <1>3, <1>4, <1>5, <1>6 DEF StreamInv, InLoop

LEMMA StreamDiscard ==
    ASSUME StreamInv, Discard
    PROVE  StreamInv'
<1>1. pc = "discard" /\ ~MovesUp /\ UNCHANGED <<transit, made, taken, low, buff>>
  BY DEF Discard, stored
<1>2. Preparing /\ OldBehind /\ Len(fifo) + Len(transit) <= left /\ left \in Nat
  BY <1>1 DEF StreamInv, Preparing
<1>3. Len(fifo) \in Nat /\ Len(transit) \in Nat /\ taken \in Seq(Entry)
  BY DEF StreamInv
<1>4. transit # <<>> => Len(fifo) = Depth
  <2> SUFFICES ASSUME transit # <<>> PROVE Len(fifo) = Depth
    OBVIOUS
  <2>1. 1 \in 1 .. Len(transit) /\ Head(transit) = transit[1]
    BY DEF StreamInv
  <2>2. Head(transit).from = "old"
    BY <1>2, <2>1 DEF OldBehind
  <2> QED
    BY <1>1, <1>3, <2>2, Sizes DEF MovesUp, StreamInv
<1>5. CASE left > 0
  <2>1. left' = left - 1 /\ pc' = "discard" /\ fifo' = IF fifo = <<>> THEN fifo ELSE Tail(fifo)
    BY <1>1, <1>5 DEF Discard
  <2>2. CASE fifo = <<>>
    <3>1. transit = <<>> /\ fifo' = fifo /\ Len(fifo) = 0 /\ Len(transit) = 0
      BY <1>4, <2>1, <2>2, Sizes
    <3> QED
      BY <1>1, <1>2, <1>5, <2>1, <3>1 DEF StreamInv, OldBehind, InLoop
  <2>3. CASE fifo # <<>>
    <3>1. fifo' \in Seq(Entry) /\ Len(fifo') = Len(fifo) - 1
      BY <2>1, <2>3 DEF StreamInv
    <3> QED
      BY <1>1, <1>2, <1>3, <1>5, <2>1, <3>1, Sizes DEF StreamInv, OldBehind, InLoop
  <2> QED
    BY <2>2, <2>3
<1>6. CASE ~(left > 0)
  <2>1. left' = left /\ pc' = "begin" /\ fifo' = fifo
    BY <1>1, <1>6 DEF Discard
  <2>2. fifo = <<>> /\ transit = <<>>
    BY <1>2, <1>3, <1>6 DEF StreamInv
  <2> QED
    BY <1>1, <1>2, <2>1, <2>2 DEF StreamInv, OldBehind, InLoop
<1> QED
  BY <1>5, <1>6

LEMMA StreamRead ==
    ASSUME StreamInv, ReadWord
    PROVE  StreamInv'
<1>1. pc = "read" /\ left > 0 /\ left' = left - 1 /\ UNCHANGED <<transit, made, low, buff, pc, resume>>
  BY DEF ReadWord, script
<1>2. {left', low', buff'} \subseteq Nat /\ InLoop /\ ~Preparing /\ ~Preparing' /\ InOrder
  BY <1>1 DEF StreamInv, InLoop, Preparing
<1>3. CASE fifo = <<>>
  <2>1. UNCHANGED <<fifo, taken>>
    BY <1>3 DEF ReadWord
  <2> QED
    BY <1>1, <1>2, <2>1, StreamStays
<1>4. CASE fifo # <<>>
  <2>1. taken' = Append(taken, Head(fifo)) /\ fifo' = Tail(fifo)
    BY <1>4 DEF ReadWord
  <2>2. /\ fifo' \in Seq(Entry) /\ taken' \in Seq(Entry) /\ Len(fifo) \in Nat \ {0}
        /\ Len(fifo') = Len(fifo) - 1 /\ Len(taken') = Len(taken) + 1 /\ Len(taken) \in Nat
        /\ Len(transit) \in Nat
    BY <1>4, <2>1 DEF StreamInv
  <2>3. /\ \A k \in 1 .. Len(taken) : taken'[k] = taken[k]
        /\ taken'[Len(taken) + 1] = fifo[1]
        /\ \A k \in 1 .. Len(fifo) - 1 : fifo'[k] = fifo[k + 1]
    BY <1>4, <2>1 DEF StreamInv
  <2>4. \A k \in 1 .. Len(taken') : taken'[k] = FrameWord(k)
    <3>1. fifo[1] = FrameWord(Len(taken) + 1)
      BY <1>2, <2>2 DEF InOrder
    <3>2. ASSUME NEW k \in 1 .. Len(taken') PROVE k \in 1 .. Len(taken) \/ k = Len(taken) + 1
      BY <2>2
    <3>3. \A k \in 1 .. Len(taken) : taken[k] = FrameWord(k)
      BY DEF StreamInv
    <3> QED
      BY <2>3, <3>1, <3>2, <3>3
  <2>5. \A k \in 1 .. Len(fifo') : fifo'[k] = FrameWord(Len(taken') + k)
    <3> SUFFICES ASSUME NEW k \in 1 .. Len(fifo')
                 PROVE  fifo'[k] = FrameWord(Len(taken') + k)
      OBVIOUS
    <3>1. k + 1 \in 1 .. Len(fifo) /\ k \in 1 .. Len(fifo) - 1
      BY <2>2
    <3>2. fifo'[k] = FrameWord(Len(taken) + (k + 1))
      BY <1>2, <2>3, <3>1 DEF InOrder
    <3>3. Len(taken) + (k + 1) = Len(taken') + k
      BY <2>2
    <3> QED
      BY <3>2, <3>3
  <2>6. \A k \in 1 .. Len(transit') : transit'[k] = FrameWord(Len(taken') + Len(fifo') + k)
    <3>1. Len(taken') + Len(fifo') = Len(taken) + Len(fifo)
      BY <2>2
    <3> QED
      BY <1>1, <1>2, <3>1 DEF InOrder
  <2>7. InOrder'
    BY <1>1, <1>2, <2>2, <2>5, <2>6 DEF InOrder
  <2>8. Len(fifo') <= Depth
    BY <2>2, Sizes DEF StreamInv
  <2> QED
    BY <1>1, <1>2, <2>2, <2>4, <2>7, <2>8 DEF StreamInv
<1> QED
  BY <1>3, <1>4

LEMMA StreamNext ==
    ASSUME MaxBacklog <= FlushExtra, StreamInv, SessionInv, [Next]_vars
    PROVE  StreamInv'
<1>1. Counters
  BY DEF SessionInv
<1>2. {left, low, buff} \subseteq Nat
  BY DEF StreamInv
<1>3. CASE Setup \/ Quiet \/ EndReset \/ Routed \/ Deselect \/ Begin \/ End \/ Stop
           \/ Process \/ ChunkWritten \/ TimedOut
  <2>1. UNCHANGED <<fifo, transit, made, taken, left, low, buff, resume>>
    BY <1>3 DEF Setup, Quiet, EndReset, Routed, Deselect, Begin, End, Stop, Process,
                ChunkWritten, TimedOut, stream, reading, stored
  <2>2. /\ pc \in {"setup", "quiet", "reset", "routed", "flushed", "begin"} => Preparing
        /\ Preparing' => Preparing
        /\ InLoop' => InLoop
        /\ pc' # "discard"
        /\ pc' \notin {"begin", "enable"} \/ pc = "begin"
    BY <1>3 DEF Setup, Quiet, EndReset, Routed, Deselect, Begin, End, Stop, Process,
                ChunkWritten, TimedOut, Goto, Preparing, InLoop
  <2> QED
    BY <1>2, <2>1, <2>2, StreamStays
<1>4. CASE WriteChunk
  <2>1. /\ UNCHANGED <<fifo, transit, made, taken, left, low, buff, resume>>
        /\ pc = "chunk" /\ pc' \in {"wait", resume}
    BY <1>4 DEF WriteChunk, stream, reading, stored
  <2>2. resume \in {"routed", "config", "flushed", "loop"}
    BY <1>1, <2>1 DEF Counters
  <2> QED
    BY <1>2, <2>1, <2>2, StreamStays DEF Preparing, InLoop
<1>5. CASE Route \/ Select \/ Config \/ Unhold \/ (\E interrupt \in {0, 1} : Poll(interrupt))
  <2>1. UNCHANGED <<fifo, transit, made, taken, left, low, buff>>
    BY <1>5 DEF Route, Select, Config, Unhold, Poll, stream, reading, stored
  <2>2. /\ pc \in {"route", "select", "config", "unhold", "poll"}
        /\ \/ pc' \in {"dead", "select", "config", "unhold", "poll", "empty"}
           \/ pc' = "chunk" /\ resume' \in {"routed", "config", "flushed"}
    BY <1>5 DEF Route, Select, Config, Unhold, Poll, writeSPI
  <2> QED
    BY <1>2, <2>1, <2>2, StreamStays DEF Preparing, InLoop
<1>6. CASE Loop \/ ReadLevelLow \/ ReadLevelHigh \/ Store \/ Cancel \/ Expire
  <2>1. UNCHANGED <<fifo, transit, made, taken>>
    BY <1>6 DEF Loop, ReadLevelLow, ReadLevelHigh, Store, Cancel, Expire, stream, reading, stored
  <2>2. {left', low', buff'} \subseteq Nat
    <3>1. CASE Loop \/ Store \/ Cancel \/ Expire
      BY <1>2, <3>1 DEF Loop, Store, Cancel, Expire, reading
    <3>2. CASE ReadLevelLow
      <4>1. low' = Len(fifo) % Byte /\ UNCHANGED <<left, buff>> /\ Len(fifo) \in Nat
        BY <3>2 DEF ReadLevelLow, StreamInv
      <4> QED
        BY <1>2, <4>1, Sizes
    <3>3. CASE ReadLevelHigh
      <4>1. /\ low' = low /\ buff' = (Len(fifo) \div Byte) * Byte + low /\ Len(fifo) \in Nat
            /\ left' \in {buff', args.readout}
        BY <3>3 DEF ReadLevelHigh, readoutGetBufferSize, StreamInv
      <4>2. \A n \in Nat, m \in Nat \ {0} : (n \div m) * m \in Nat
        OBVIOUS
      <4>3. args.readout \in Nat
        BY <1>1, ArgumentsAssumption DEF Counters, Accepted
      <4> QED
        BY <1>2, <4>1, <4>2, <4>3, Sizes
    <3> QED
      BY <1>6, <3>1, <3>2, <3>3
  <2>3. /\ InLoop
        /\ \/ pc' \in {"level", "level2", "read", "loop", "end"}
           \/ pc' = "chunk" /\ resume' = "loop"
           \/ UNCHANGED <<pc, resume>>
    BY <1>6 DEF Loop, ReadLevelLow, ReadLevelHigh, Store, Cancel, Expire, Goto, InLoop, writeSPI
  <2> QED
    BY <2>1, <2>2, <2>3, StreamStays DEF Preparing, InLoop
<1>7. CASE Empty
  <2>1. UNCHANGED <<fifo, transit, made, taken, low, buff>> /\ left' = Depth + FlushExtra
        /\ pc = "empty" /\ pc' = "discard"
    BY <1>7 DEF Empty, Goto, stream, stored
  <2>2. Preparing /\ OldBehind /\ Len(fifo) \in Nat /\ Len(transit) \in Nat
    BY <2>1 DEF StreamInv, Preparing
  <2>3. Len(fifo) + Len(transit) <= left' /\ left' \in Nat
    BY <2>1, <2>2, Sizes DEF StreamInv, OldBehind
  <2> QED
    BY <2>1, <2>2, <2>3 DEF StreamInv, OldBehind, InLoop, Preparing
<1>8. CASE Enable
  <2>1. UNCHANGED <<fifo, transit, made, taken, left, low, buff>> /\ pc = "enable" /\ pc' = "loop"
    BY <1>8 DEF Enable, Goto, stream, reading, stored
  <2>2. fifo = <<>> /\ transit = <<>> /\ taken = <<>> /\ made = 0
    BY <2>1 DEF StreamInv, Preparing, OldBehind
  <2>3. InOrder'
    BY <2>1, <2>2 DEF InOrder
  <2> QED
    BY <2>1, <2>2, <2>3 DEF StreamInv, Preparing
<1>9. CASE ByteArrives \/ Shift \/ UNCHANGED vars
  <2>1. UNCHANGED <<fifo, transit, made, taken, left, low, buff, pc, resume>>
    BY <1>9 DEF ByteArrives, Shift, vars, stream, reading, stored, script
  <2> QED
    BY <1>2, <2>1, StreamStays DEF Preparing, InLoop
<1> QED
  BY <1>3, <1>4, <1>5, <1>6, <1>7, <1>8, <1>9, StreamPush, StreamFrame, StreamDiscard, StreamRead
     DEF Next, Script, Environment

(* Words that were in the readout buffer, or behind it, before the readout *)
(* was enabled are not part of the data of the run.                        *)
THEOREM ScriptFlushesOldData ==
    ASSUME MaxBacklog <= FlushExtra
    PROVE  Spec => []OldDataFlushed
<1>1. StreamInv => OldDataFlushed
  <2> SUFFICES ASSUME StreamInv, NEW k \in DOMAIN taken PROVE taken[k].from # "old"
    BY DEF OldDataFlushed
  <2>1. taken[k] = FrameWord(k)
    BY DEF StreamInv
  <2> QED
    BY <2>1 DEF FrameWord
<1>2. StreamInv /\ SessionInv /\ [Next]_vars => StreamInv'
  BY StreamNext
<1> QED
  BY <1>1, <1>2, StreamInit, SessionAlways, PTL DEF Spec

-----------------------------------------------------------------------------
(* Sequences of sequences, put together.                                   *)
Chain0(ss, n, h) == h[0] = <<>> /\ \A k \in 0 .. n - 1 : h[k + 1] = h[k] \o ss[k + 1]

LEMMA ChainExists ==
    ASSUME NEW ss, NEW n \in Nat
    PROVE  \E h : Chain0(ss, n, h)
<1> DEFINE T == {m \in Nat : \E h : Chain0(ss, m, h)}
<1>1. 0 \in T
  <2>1. Chain0(ss, 0, [k \in {0} |-> <<>>])
    BY DEF Chain0
  <2> QED
    BY <2>1
<1>2. ASSUME NEW m \in Nat, m \in T PROVE m + 1 \in T
  <2>1. PICK h : Chain0(ss, m, h)
    BY <1>2
  <2> DEFINE g == [k \in 0 .. m + 1 |-> IF k <= m THEN h[k] ELSE h[m] \o ss[m + 1]]
  <2>2. g[0] = <<>>
    BY <2>1 DEF Chain0
  <2>3. ASSUME NEW k \in 0 .. (m + 1) - 1 PROVE g[k + 1] = g[k] \o ss[k + 1]
    <3>0. k \in 0 .. m + 1 /\ k + 1 \in 0 .. m + 1 /\ k <= m
      OBVIOUS
    <3>1. CASE k + 1 <= m
      <4>0. k \in 0 .. m - 1
        BY <3>0, <3>1
      <4>1. h[k + 1] = h[k] \o ss[k + 1]
        BY <2>1, <4>0 DEF Chain0
      <4> QED
        BY <3>0, <3>1, <4>1
    <3>2. CASE ~(k + 1 <= m)
      <4>1. k = m
        BY <3>0, <3>2
      <4> QED
        BY <3>0, <3>2, <4>1
    <3> QED
      BY <3>1, <3>2
  <2> HIDE DEF g
  <2>4. Chain0(ss, m + 1, g)
    BY <2>2, <2>3 DEF Chain0
  <2> QED
    BY <2>4
<1> HIDE DEF T
<1>3. n \in T
  BY <1>1, <1>2, Induction
<1> QED
  BY <1>3 DEF T

Agree(ss, tt, n) == \A k \in 1 .. n : ss[k] = tt[k]

LEMMA ChainsAgree ==
    ASSUME NEW ss, NEW tt, NEW n \in Nat, NEW m \in Nat, n <= m,
           Agree(ss, tt, n), NEW h, Chain0(ss, n, h), NEW g, Chain0(tt, m, g)
    PROVE  h[n] = g[n]
<1> DEFINE T == {k \in Nat : k <= n => h[k] = g[k]}
<1>1. 0 \in T
  BY DEF Chain0
<1>2. ASSUME NEW k \in Nat, k \in T PROVE k + 1 \in T
  <2> SUFFICES ASSUME k + 1 <= n PROVE h[k + 1] = g[k + 1]
    OBVIOUS
  <2>1. h[k] = g[k] /\ k \in 0 .. n - 1 /\ k \in 0 .. m - 1 /\ k + 1 \in 1 .. n
    BY <1>2
  <2>2. h[k + 1] = h[k] \o ss[k + 1] /\ g[k + 1] = g[k] \o tt[k + 1] /\ ss[k + 1] = tt[k + 1]
    BY <2>1 DEF Chain0, Agree
  <2> QED
    BY <2>1, <2>2
<1> HIDE DEF T
<1>3. n \in T
  BY <1>1, <1>2, Induction
<1> QED
  BY <1>3 DEF T

LEMMA ChainSeq ==
    ASSUME NEW S, NEW ss, NEW n \in Nat, \A k \in 1 .. n : ss[k] \in Seq(S),
           NEW h, Chain0(ss, n, h)
    PROVE  h[n] \in Seq(S)
<1> DEFINE T == {k \in Nat : k <= n => h[k] \in Seq(S)}
<1>1. 0 \in T
  <2>1. <<>> \in Seq(S) /\ h[0] = <<>>
    BY DEF Chain0
  <2> QED
    BY <2>1
<1>2. ASSUME NEW k \in Nat, k \in T PROVE k + 1 \in T
  <2> SUFFICES ASSUME k + 1 <= n PROVE h[k + 1] \in Seq(S)
    OBVIOUS
  <2>1. h[k] \in Seq(S) /\ k \in 0 .. n - 1 /\ ss[k + 1] \in Seq(S)
    BY <1>2
  <2>2. h[k + 1] = h[k] \o ss[k + 1]
    BY <2>1 DEF Chain0
  <2> QED
    BY <2>1, <2>2
<1> HIDE DEF T
<1>3. n \in T
  BY <1>1, <1>2, Induction
<1> QED
  BY <1>3 DEF T

(* FlattenSeq puts the sequences together one after the other.             *)
LEMMA Flattened ==
    ASSUME NEW S, NEW n \in Nat, NEW ss, ss \in Seq(Seq(S)), Len(ss) = n,
           NEW h, Chain0(ss, n, h)
    PROVE  FlattenSeq(ss) = h[n]
<1>1. CASE n = 0
  <2>1. ss = <<>>
    BY <1>1
  <2> QED
    BY <1>1, <2>1 DEF FlattenSeq, Chain0
<1>2. CASE n # 0
  <2> DEFINE Is(f) == f = [k \in 1 .. Len(ss) |-> IF k = 1 THEN ss[k] ELSE f[k - 1] \o ss[k]]
             it == CHOOSE f : Is(f)
             g == [k \in 1 .. Len(ss) |-> h[k]]
             it0 == [k \in 0 .. n |-> IF k = 0 THEN <<>> ELSE it[k]]
  <2>1. FlattenSeq(ss) = it[Len(ss)]
    BY <1>2, Zenon DEF FlattenSeq
  <2>2. ASSUME NEW k \in 1 .. n PROVE ss[k] \in Seq(S)
    OBVIOUS
  <2>3. Is(g)
    <3> SUFFICES ASSUME NEW k \in 1 .. n
                 PROVE  h[k] = IF k = 1 THEN ss[k] ELSE g[k - 1] \o ss[k]
      OBVIOUS
    <3>1. CASE k = 1
      <4>1. h[1] = <<>> \o ss[1]
        <5>1. 0 \in 0 .. n - 1 /\ 0 + 1 = 1
          BY <1>2
        <5> QED
          BY <5>1 DEF Chain0
      <4> QED
        BY <2>2, <3>1, <4>1
    <3>2. CASE k # 1
      <4>1. k - 1 \in 0 .. n - 1 /\ k - 1 \in 1 .. n /\ (k - 1) + 1 = k
        BY <3>2
      <4>2. h[k] = h[k - 1] \o ss[k]
        BY <4>1 DEF Chain0
      <4> QED
        BY <3>2, <4>1, <4>2
    <3> QED
      BY <3>1, <3>2
  <2>4. Is(it)
    <3> HIDE DEF g, Is
    <3> QED
      BY <2>3
  <2> HIDE DEF it
  <2>5. ASSUME NEW k \in 0 .. n - 1 PROVE it0[k + 1] = it0[k] \o ss[k + 1]
    <3>1. k + 1 \in 1 .. n /\ k \in 0 .. n /\ k + 1 \in 0 .. n
      OBVIOUS
    <3>2. it0[k + 1] = it[k + 1]
      BY <3>1
    <3>3. CASE k = 0
      BY <2>2, <2>4, <3>1, <3>2, <3>3
    <3>4. CASE k # 0
      <4>0. \A q \in 1 .. n : it[q] = IF q = 1 THEN ss[q] ELSE it[q - 1] \o ss[q]
        BY <2>4
      <4>1. k + 1 \in 1 .. n /\ k + 1 # 1 /\ (k + 1) - 1 = k
        BY <3>1, <3>4
      <4>2. it[k + 1] = it[(k + 1) - 1] \o ss[k + 1]
        BY ONLY <4>0, <4>1
      <4> QED
        BY <3>1, <3>2, <3>4, <4>1, <4>2
    <3> QED
      BY <3>3, <3>4
  <2>6. Chain0(ss, n, it0)
    <3>1. it0[0] = <<>>
      OBVIOUS
    <3> HIDE DEF it0
    <3> QED
      BY <2>5, <3>1 DEF Chain0
  <2>7. it0[n] = it[n]
    BY <1>2
  <2> HIDE DEF it0
  <2>8. h[n] = it0[n]
    BY <2>6, ChainsAgree DEF Agree
  <2> QED
    BY <2>1, <2>7, <2>8
<1> QED
  BY <1>1, <1>2

LEMMA FlattenMore ==
    ASSUME NEW S, NEW ss \in Seq(Seq(S)), NEW tt \in Seq(Seq(S)), Len(tt) = Len(ss) + 1,
           \A k \in 1 .. Len(ss) : tt[k] = ss[k]
    PROVE  /\ FlattenSeq(ss) \in Seq(S)
           /\ FlattenSeq(tt) = FlattenSeq(ss) \o tt[Len(tt)]
<1> SUFFICES ASSUME NEW n \in Nat, n = Len(ss)
             PROVE  FlattenSeq(ss) \in Seq(S) /\ FlattenSeq(tt) = FlattenSeq(ss) \o tt[n + 1]
  <2>1. Len(ss) \in Nat
    OBVIOUS
  <2> QED
    BY <2>1, Zenon
<1>1. n + 1 \in Nat /\ n <= n + 1 /\ Len(tt) = n + 1 /\ n \in 0 .. (n + 1) - 1
  OBVIOUS
<1>2. PICK g : Chain0(tt, n + 1, g)
  BY <1>1, ChainExists
<1>3. PICK h : Chain0(ss, n, h)
  BY ChainExists
<1>4. h[n] = g[n]
  <2> DEFINE m == n + 1
  <2>1. m \in Nat /\ n <= m /\ Chain0(tt, m, g)
    BY <1>1, <1>2
  <2>2. Agree(ss, tt, n)
    BY DEF Agree
  <2> HIDE DEF m
  <2> QED
    BY ONLY n \in Nat, <1>3, <2>1, <2>2, ChainsAgree
<1>5. FlattenSeq(ss) = h[n] /\ FlattenSeq(tt) = g[n + 1]
  BY <1>1, <1>2, <1>3, Flattened
<1>6. g[n + 1] = g[n] \o tt[n + 1]
  BY <1>1, <1>2 DEF Chain0
<1>7. h[n] \in Seq(S)
  <2>1. \A k \in 1 .. n : ss[k] \in Seq(S)
    OBVIOUS
  <2> QED
    BY <1>3, <2>1, ChainSeq
<1> QED
  BY <1>4, <1>5, <1>6, <1>7

LEMMA FlattenNothing == FlattenSeq(<<>>) = <<>>
  BY DEF FlattenSeq

-----------------------------------------------------------------------------
(* Prefixes.                                                               *)
LEMMA PrefixIs ==
    ASSUME NEW S, NEW p \in Seq(S), NEW s \in Seq(S)
    PROVE  IsPrefix(p, s) <=> (Len(p) <= Len(s) /\ \A k \in 1 .. Len(p) : p[k] = s[k])
<1>1. SubSeq(p, 1, Len(p)) = p
  BY SubSeqFull
<1>2. CASE Len(p) <= Len(s)
  <2> DEFINE q == SubSeq(s, 1, Len(p))
  <2>1. q \in Seq(S) /\ Len(q) = Len(p) /\ \A k \in 1 .. Len(p) : q[k] = s[k]
    BY <1>2
  <2>2. p = q <=> \A k \in 1 .. Len(p) : p[k] = q[k]
    <3> HIDE DEF q
    <3> QED
      BY <2>1, SeqEqual
  <2> QED
    BY <1>1, <1>2, <2>1, <2>2 DEF IsPrefix
<1>3. CASE ~(Len(p) <= Len(s))
  BY <1>3 DEF IsPrefix
<1> QED
  BY <1>2, <1>3

LEMMA PrefixGrows ==
    ASSUME NEW S, NEW p \in Seq(S), NEW s \in Seq(S), NEW t \in Seq(S), IsPrefix(p, s)
    PROVE  IsPrefix(p, s \o t)
<1> DEFINE u == s \o t
<1>1. u \in Seq(S) /\ Len(u) = Len(s) + Len(t) /\ \A k \in 1 .. Len(s) : u[k] = s[k]
  OBVIOUS
<1>2. Len(p) <= Len(s) /\ \A k \in 1 .. Len(p) : p[k] = s[k]
  BY PrefixIs
<1> HIDE DEF u
<1>3. Len(p) <= Len(u) /\ \A k \in 1 .. Len(p) : p[k] = u[k]
  BY <1>1, <1>2
<1> QED
  BY <1>1, <1>3, PrefixIs DEF u

LEMMA PrefixSelf ==
    ASSUME NEW S, NEW s \in Seq(S)
    PROVE  IsPrefix(s, s)
  BY DEF IsPrefix

-----------------------------------------------------------------------------
(* Fill words left out.                                                    *)
Unpad(x) == IF x.from = "pad" THEN <<>> ELSE <<x>>

Parts(words) == [k \in DOMAIN words |-> Unpad(words[k])]

LEMMA UnpadSeq == ASSUME NEW S, NEW x \in S PROVE Unpad(x) \in Seq(S)
  BY DEF Unpad

LEMMA PartsSeq ==
    ASSUME NEW S, NEW words \in Seq(S)
    PROVE  /\ Parts(words) \in Seq(Seq(S)) /\ Len(Parts(words)) = Len(words)
           /\ \A k \in 1 .. Len(words) : Parts(words)[k] = Unpad(words[k])
           /\ WithoutPads(words) = FlattenSeq(Parts(words))
<1> DEFINE n == Len(words)
           f == Parts(words)
<1>1. n \in Nat /\ DOMAIN words = 1 .. n /\ \A k \in 1 .. n : words[k] \in S
  OBVIOUS
<1> HIDE DEF n
<1>2. f = [k \in 1 .. n |-> Unpad(words[k])]
  BY <1>1 DEF Parts
<1>3. f \in [1 .. n -> Seq(S)]
  BY <1>1, <1>2, UnpadSeq
<1>4. WithoutPads(words) = FlattenSeq(f)
  BY DEF WithoutPads, Parts, Unpad
<1> HIDE DEF f
<1>5. f \in Seq(Seq(S)) /\ Len(f) = n
  BY <1>1, <1>3
<1> QED
  BY <1>2, <1>4, <1>5 DEF n, f

LEMMA PadsMore ==
    ASSUME NEW S, NEW words \in Seq(S), NEW x \in S
    PROVE  /\ WithoutPads(words) \in Seq(S)
           /\ WithoutPads(Append(words, x)) = WithoutPads(words) \o Unpad(x)
<1> DEFINE more == Append(words, x)
<1>1. /\ more \in Seq(S) /\ Len(more) = Len(words) + 1 /\ more[Len(words) + 1] = x
      /\ \A k \in 1 .. Len(words) : more[k] = words[k]
  OBVIOUS
<1> HIDE DEF more
<1> DEFINE ss == Parts(words)
           tt == Parts(more)
<1>2. /\ ss \in Seq(Seq(S)) /\ Len(ss) = Len(words)
      /\ \A k \in 1 .. Len(words) : ss[k] = Unpad(words[k])
      /\ WithoutPads(words) = FlattenSeq(ss)
  BY PartsSeq
<1>3. /\ tt \in Seq(Seq(S)) /\ Len(tt) = Len(more)
      /\ \A k \in 1 .. Len(more) : tt[k] = Unpad(more[k])
      /\ WithoutPads(more) = FlattenSeq(tt)
  BY <1>1, PartsSeq
<1> HIDE DEF ss, tt
<1>4. Len(words) \in Nat
  OBVIOUS
<1>5. Len(tt) = Len(ss) + 1 /\ \A k \in 1 .. Len(ss) : tt[k] = ss[k]
  BY <1>1, <1>2, <1>3, <1>4
<1>6. tt[Len(tt)] = Unpad(x)
  BY <1>1, <1>3, <1>4
<1>7. FlattenSeq(ss) \in Seq(S) /\ FlattenSeq(tt) = FlattenSeq(ss) \o tt[Len(tt)]
  BY <1>2, <1>3, <1>5, FlattenMore
<1> QED
  BY <1>2, <1>3, <1>6, <1>7 DEF more

LEMMA PadsNone == WithoutPads(<<>>) = <<>>
<1>1. Parts(<<>>) \in Seq(Seq({})) /\ Len(Parts(<<>>)) = 0
      /\ WithoutPads(<<>>) = FlattenSeq(Parts(<<>>))
  <2>1. <<>> \in Seq({}) /\ Len(<<>>) = 0
    OBVIOUS
  <2> QED
    BY <2>1, PartsSeq
<1>2. Parts(<<>>) = <<>>
  BY <1>1
<1> QED
  BY <1>1, <1>2, FlattenNothing

(* Word after word.                                                        *)
PadChain(c, h) ==
    /\ h[0] = <<>>
    /\ \A k \in 0 .. Len(c) - 1 : h[k + 1] = h[k] \o Unpad(c[k + 1])

LEMMA PadsChain ==
    ASSUME NEW S, NEW c \in Seq(S)
    PROVE  \E h : /\ PadChain(c, h)
                  /\ \A k \in 0 .. Len(c) : /\ h[k] \in Seq(S)
                                            /\ WithoutPads(SubSeq(c, 1, k)) = h[k]
<1>0. Len(c) \in Nat
  OBVIOUS
<1> DEFINE h == [k \in 0 .. Len(c) |-> WithoutPads(SubSeq(c, 1, k))]
           sub(k) == SubSeq(c, 1, k)
<1>1. /\ WithoutPads(sub(0)) = <<>>
      /\ WithoutPads(sub(0)) \in Seq(S)
  <2>1. sub(0) = <<>>
    OBVIOUS
  <2>2. WithoutPads(sub(0)) = WithoutPads(<<>>)
    <3> HIDE DEF sub
    <3> QED
      BY <2>1
  <2>3. <<>> \in Seq(S)
    OBVIOUS
  <2> HIDE DEF sub
  <2>4. WithoutPads(sub(0)) = <<>>
    BY <2>2, PadsNone
  <2> QED
    BY <2>3, <2>4
<1>2. ASSUME NEW k \in 0 .. Len(c) - 1
      PROVE  /\ WithoutPads(sub(k)) \in Seq(S)
             /\ WithoutPads(sub(k + 1)) = WithoutPads(sub(k)) \o Unpad(c[k + 1])
  <2>1. /\ sub(k) \in Seq(S) /\ Len(sub(k)) = k /\ c[k + 1] \in S
        /\ \A m \in 1 .. k : sub(k)[m] = c[m]
    BY <1>0
  <2>2. /\ sub(k + 1) \in Seq(S) /\ Len(sub(k + 1)) = k + 1
        /\ \A m \in 1 .. k + 1 : sub(k + 1)[m] = c[m]
    BY <1>0
  <2> DEFINE a == sub(k)
             b == sub(k + 1)
             d == Append(a, c[k + 1])
  <2> HIDE DEF a, b
  <2>3. d \in Seq(S) /\ Len(d) = k + 1 /\ d[k + 1] = c[k + 1] /\ \A m \in 1 .. k : d[m] = c[m]
    BY <1>0, <2>1 DEF a
  <2> HIDE DEF d
  <2>4. b = d
    <3>1. \A m \in 1 .. k + 1 : m \in 1 .. k \/ m = k + 1
      BY <1>0
    <3>2. \A m \in 1 .. Len(b) : b[m] = d[m]
      BY <2>2, <2>3, <3>1 DEF b
    <3> QED
      BY <2>2, <2>3, <3>2, SeqEqual DEF b
  <2> QED
    BY <2>1, <2>4, PadsMore DEF a, b, d
<1>3. ASSUME NEW k \in 0 .. Len(c) PROVE WithoutPads(sub(k)) \in Seq(S)
  <2>1. CASE k = 0
    <3> HIDE DEF sub
    <3> QED
      BY <1>1, <2>1
  <2>2. CASE k # 0
    <3> DEFINE m == k - 1
    <3>1. m \in 0 .. Len(c) - 1 /\ m + 1 = k /\ c[m + 1] \in S
      BY <1>0, <2>2
    <3> HIDE DEF m, sub
    <3>2. Unpad(c[m + 1]) \in Seq(S)
      BY <3>1, UnpadSeq
    <3>3. /\ WithoutPads(sub(m)) \in Seq(S)
          /\ WithoutPads(sub(m + 1)) = WithoutPads(sub(m)) \o Unpad(c[m + 1])
      BY <1>2, <3>1
    <3>4. WithoutPads(sub(m + 1)) \in Seq(S)
      <4>1. \A p \in Seq(S), q \in Seq(S) : p \o q \in Seq(S)
        OBVIOUS
      <4> QED
        BY ONLY <3>2, <3>3, <4>1
    <3> QED
      BY <3>1, <3>4
  <2> QED
    BY <2>1, <2>2
<1>4. PadChain(c, h)
  <2>1. ASSUME NEW k \in 0 .. Len(c) - 1 PROVE h[k + 1] = h[k] \o Unpad(c[k + 1])
    <3>1. k \in 0 .. Len(c) /\ k + 1 \in 0 .. Len(c)
      BY <1>0
    <3>2. h[k] = WithoutPads(sub(k)) /\ h[k + 1] = WithoutPads(sub(k + 1))
      BY <3>1
    <3> HIDE DEF h, sub
    <3> QED
      BY <1>2, <3>2
  <2>2. h[0] = <<>>
    <3>1. h[0] = WithoutPads(sub(0))
      BY <1>0
    <3> HIDE DEF h, sub
    <3> QED
      BY <1>1, <3>1
  <2> HIDE DEF h
  <2> QED
    BY <2>1, <2>2 DEF PadChain
<1>5. \A k \in 0 .. Len(c) : h[k] = WithoutPads(sub(k))
  OBVIOUS
<1>6. \A k \in 0 .. Len(c) : h[k] \in Seq(S) /\ WithoutPads(SubSeq(c, 1, k)) = h[k]
  BY <1>3, <1>5
<1> HIDE DEF h
<1> QED
  BY <1>4, <1>6

LEMMA PadChainGrows ==
    ASSUME NEW S, NEW c \in Seq(S), NEW h, PadChain(c, h),
           \A k \in 0 .. Len(c) : h[k] \in Seq(S), NEW n \in 0 .. Len(c)
    PROVE  \A m \in n .. Len(c) : IsPrefix(h[n], h[m])
<1>0. Len(c) \in Nat /\ n \in Nat
  OBVIOUS
<1> DEFINE T == {d \in Nat : n + d <= Len(c) => IsPrefix(h[n], h[n + d])}
<1>1. 0 \in T
  <2>1. IsPrefix(h[n], h[n]) /\ n + 0 = n
    BY PrefixSelf
  <2> QED
    BY <2>1
<1>2. ASSUME NEW d \in Nat, d \in T PROVE d + 1 \in T
  <2> SUFFICES ASSUME n + (d + 1) <= Len(c) PROVE IsPrefix(h[n], h[n + (d + 1)])
    OBVIOUS
  <2> DEFINE m == n + d
  <2>1. m \in 0 .. Len(c) - 1 /\ m \in 0 .. Len(c) /\ n + (d + 1) = m + 1 /\ IsPrefix(h[n], h[m])
    BY <1>0, <1>2
  <2>2. c[m + 1] \in S
    BY <1>0, <2>1
  <2> HIDE DEF m
  <2>3. h[m + 1] = h[m] \o Unpad(c[m + 1])
    BY <2>1 DEF PadChain
  <2>4. h[n] \in Seq(S) /\ h[m] \in Seq(S) /\ Unpad(c[m + 1]) \in Seq(S)
    BY <2>1, <2>2, UnpadSeq
  <2> QED
    BY <2>1, <2>3, <2>4, PrefixGrows
<1>3. \A d \in Nat : d \in T
  <2> HIDE DEF T
  <2> QED
    BY <1>1, <1>2, Induction
<1>4. ASSUME NEW m \in n .. Len(c) PROVE IsPrefix(h[n], h[m])
  <2>1. m - n \in Nat /\ n + (m - n) = m /\ n + (m - n) <= Len(c)
    BY <1>0
  <2> QED
    BY <1>3, <2>1
<1> QED
  BY <1>4

LEMMA PadsPrefix ==
    ASSUME NEW S, NEW a \in Seq(S), NEW b \in Seq(S)
    PROVE  IsPrefix(WithoutPads(a), WithoutPads(a \o b))
<1> DEFINE c == a \o b
<1>1. c \in Seq(S) /\ Len(a) \in 0 .. Len(c) /\ SubSeq(c, 1, Len(a)) = a
  BY SubSeqOfConcat1
<1> HIDE DEF c
<1>2. SubSeq(c, 1, Len(c)) = c /\ Len(c) \in Len(a) .. Len(c) /\ Len(c) \in 0 .. Len(c)
  BY <1>1, SubSeqFull
<1>3. PICK h : /\ PadChain(c, h)
               /\ \A k \in 0 .. Len(c) : /\ h[k] \in Seq(S)
                                         /\ WithoutPads(SubSeq(c, 1, k)) = h[k]
  BY <1>1, PadsChain
<1>4. IsPrefix(h[Len(a)], h[Len(c)])
  BY <1>1, <1>2, <1>3, PadChainGrows
<1>5. h[Len(a)] = WithoutPads(a) /\ h[Len(c)] = WithoutPads(c)
  BY <1>1, <1>2, <1>3
<1> QED
  BY <1>4, <1>5 DEF c

-----------------------------------------------------------------------------
(* Readouts of an injection run.                                           *)
LEMMA ParseMore ==
    ASSUME NEW S, NEW dl \in Seq(Seq(S)), NEW bl \in Seq(Nat), Len(bl) = Len(dl),
           NEW r \in Seq(S), NEW b, b = Len(r)
    PROVE  /\ dataParse_autoread(dl, bl) \in Seq(S)
           /\ dataParse_autoread(Append(dl, r), Append(bl, b)) = dataParse_autoread(dl, bl) \o r
<1> DEFINE cut(x, y) == SubSeq(x, 1, IF y < Len(x) THEN y ELSE Len(x))
           part(e, f) == [k \in DOMAIN e |-> cut(e[k], f[k])]
           dm == Append(dl, r)
           bm == Append(bl, b)
           n == Len(dl)
<1>1. \A e, f : dataParse_autoread(e, f) = FlattenSeq(part(e, f))
  BY DEF dataParse_autoread
<1>2. ASSUME NEW x \in Seq(S), NEW y \in Nat PROVE cut(x, y) \in Seq(S)
  OBVIOUS
<1>3. cut(r, b) = r
  BY SubSeqFull
<1>4. /\ n \in Nat /\ dm \in Seq(Seq(S)) /\ bm \in Seq(Nat) /\ Len(dm) = n + 1
      /\ \A k \in 1 .. n : dm[k] = dl[k] /\ bm[k] = bl[k]
      /\ dm[n + 1] = r /\ bm[n + 1] = b
      /\ DOMAIN dl = 1 .. n /\ DOMAIN dm = 1 .. n + 1
  OBVIOUS
<1>5. /\ \A k \in 1 .. n : dl[k] \in Seq(S) /\ bl[k] \in Nat
      /\ \A k \in 1 .. n + 1 : dm[k] \in Seq(S) /\ bm[k] \in Nat
  BY <1>4
<1> HIDE DEF cut, dm, bm, n
<1>6. part(dl, bl) \in [1 .. n -> Seq(S)] /\ part(dm, bm) \in [1 .. n + 1 -> Seq(S)]
  BY <1>2, <1>4, <1>5
<1>7. /\ \A k \in 1 .. n : part(dm, bm)[k] = part(dl, bl)[k]
      /\ part(dm, bm)[n + 1] = r
  BY <1>3, <1>4
<1> DEFINE ss == part(dl, bl)
           tt == part(dm, bm)
<1> HIDE DEF ss, tt
<1>8. /\ ss \in Seq(Seq(S)) /\ tt \in Seq(Seq(S)) /\ Len(ss) = n /\ Len(tt) = n + 1
      /\ \A k \in 1 .. Len(ss) : tt[k] = ss[k]
      /\ tt[Len(tt)] = r
  BY <1>4, <1>6, <1>7 DEF ss, tt
<1>9. FlattenSeq(ss) \in Seq(S) /\ FlattenSeq(tt) = FlattenSeq(ss) \o tt[Len(tt)]
  BY <1>8, FlattenMore
<1> QED
  BY <1>1, <1>8, <1>9 DEF ss, tt, dm, bm

LEMMA ParseNothing == dataParse_autoread(<<>>, <<>>) = <<>>
<1> DEFINE f == [k \in DOMAIN <<>> |->
        SubSeq(<<>>[k], 1, IF <<>>[k] < Len(<<>>[k]) THEN <<>>[k] ELSE Len(<<>>[k]))]
<1>1. dataParse_autoread(<<>>, <<>>) = FlattenSeq(f)
  BY DEF dataParse_autoread
<1>2. f = <<>>
  OBVIOUS
<1> QED
  BY <1>1, <1>2, FlattenNothing

-----------------------------------------------------------------------------
(* The words the script keeps.                                             *)
AnyEntry == Entry \cup {Pad}

WordsInv == {fifo, transit, taken} \subseteq Seq(Entry) /\ {made, left, low, buff} \subseteq Nat

(* What the script has put by.                                             *)
PutBy == IF inject # <<>> THEN dataParse_autoread(dataStream_lst, bufferLength_lst) ELSE ofile

KeptTypes ==
    /\ {readout, ofile} \subseteq Seq(AnyEntry)
    /\ dataStream_lst \in Seq(Seq(AnyEntry)) /\ bufferLength_lst \in Seq(Nat)
    /\ Len(bufferLength_lst) = Len(dataStream_lst)

KeepInv ==
    /\ WordsInv /\ KeptTypes
    /\ pc = "setup" => /\ ofile = <<>> /\ dataStream_lst = <<>> /\ bufferLength_lst = <<>>
                       /\ taken = <<>> /\ cancelled = FALSE
    /\ cancelled \in BOOLEAN
    /\ cancelled => pc \in {"end", "stop", "post", "done", "failed"}
    /\ pc # "read" => readout = <<>>
    /\ pc = "done" => inject = <<>>
    /\ pc = "read" /\ args.readout = 0 => Len(readout) + left = buff
    /\ StreamKept

LEMMA EntryIsAny == Seq(Entry) \subseteq Seq(AnyEntry) /\ Entry \subseteq AnyEntry /\ Pad \in AnyEntry
<1>1. Entry \subseteq AnyEntry /\ Pad \in AnyEntry
  BY DEF AnyEntry
<1>2. \A S, T : S \subseteq T => Seq(S) \subseteq Seq(T)
  OBVIOUS
<1> QED
  BY ONLY <1>1, <1>2

LEMMA WordsInit == Init => WordsInv
<1> SUFFICES ASSUME Init PROVE WordsInv
  OBVIOUS
<1>1. /\ fifo = <<>> \/ fifo = OldWords(Depth)
      /\ (\E n \in 0 .. MaxBacklog : transit = OldWords(n))
      /\ taken = <<>> /\ made = 0 /\ left = 0 /\ low = 0 /\ buff = 0
  BY DEF Init
<1>2. fifo \in Seq(Entry)
  BY <1>1, OldWordsAre, Sizes
<1>3. transit \in Seq(Entry)
  BY <1>1, OldWordsAre, Sizes
<1>4. taken \in Seq(Entry)
  BY <1>1
<1> QED
  BY <1>1, <1>2, <1>3, <1>4 DEF WordsInv

LEMMA WordsNext ==
    ASSUME WordsInv, Counters, [Next]_vars
    PROVE  WordsInv'
<1>1. /\ fifo \in Seq(Entry) /\ transit \in Seq(Entry) /\ taken \in Seq(Entry)
      /\ made \in Nat /\ left \in Nat /\ low \in Nat /\ buff \in Nat
  BY DEF WordsInv
<1>2. CASE \/ Setup \/ Quiet \/ EndReset \/ WriteChunk \/ ChunkWritten
           \/ Route \/ Routed \/ Select \/ Config
           \/ Unhold \/ (\E interrupt \in {0, 1} : Poll(interrupt)) \/ Deselect
           \/ Begin \/ Enable \/ Loop \/ End \/ Stop \/ Process \/ TimedOut \/ Expire
           \/ ByteArrives \/ Shift \/ UNCHANGED vars
  <2>1. UNCHANGED <<fifo, transit, taken, made, left, low, buff>>
    BY <1>2 DEF Setup, Quiet, EndReset, WriteChunk, ChunkWritten, Route, Routed, Select, Config,
                Unhold, Poll, Deselect, Begin, Enable, Loop, End, Stop, Process, TimedOut, Expire,
                ByteArrives, Shift, vars, stream, reading, stored
  <2> QED
    BY <1>1, <2>1 DEF WordsInv
<1>3. CASE Empty \/ ReadLevelLow \/ ReadLevelHigh \/ Store \/ Cancel
  <2>1. UNCHANGED <<fifo, transit, taken, made>>
    BY <1>3 DEF Empty, ReadLevelLow, ReadLevelHigh, Store, Cancel, stream, stored
  <2>2. left' \in Nat /\ low' \in Nat /\ buff' \in Nat
    <3>1. CASE Empty
      BY <1>1, <3>1, Sizes DEF Empty
    <3>2. CASE ReadLevelLow
      <4>1. low' = Len(fifo) % Byte /\ UNCHANGED <<left, buff>> /\ Len(fifo) \in Nat
        BY <1>1, <3>2 DEF ReadLevelLow
      <4> QED
        BY <1>1, <4>1, Sizes
    <3>3. CASE ReadLevelHigh
      <4>1. /\ low' = low /\ buff' = (Len(fifo) \div Byte) * Byte + low /\ Len(fifo) \in Nat
            /\ left' \in {buff', args.readout}
        BY <1>1, <3>3 DEF ReadLevelHigh, readoutGetBufferSize
      <4>2. \A n \in Nat, m \in Nat \ {0}, k \in Nat : (n \div m) * m + k \in Nat
        OBVIOUS
      <4>3. args.readout \in Nat
        BY ArgumentsAssumption DEF Counters, Accepted
      <4>4. buff' \in Nat
        BY ONLY <1>1, <4>1, <4>2, Sizes
      <4> QED
        BY <1>1, <4>1, <4>3, <4>4
    <3>4. CASE Store \/ Cancel
      BY <1>1, <3>4 DEF Store, Cancel
    <3> QED
      BY <1>3, <3>1, <3>2, <3>3, <3>4
  <2> QED
    BY <1>1, <2>1, <2>2 DEF WordsInv
<1>4. CASE Discard
  <2>1. /\ fifo' \in {fifo, IF fifo = <<>> THEN fifo ELSE Tail(fifo)}
        /\ left' = left \/ (left > 0 /\ left' = left - 1)
        /\ UNCHANGED <<transit, taken, made, low, buff>>
    BY <1>4 DEF Discard, stored
  <2> QED
    BY <1>1, <2>1 DEF WordsInv
<1>5. CASE ReadWord
  <2>1. left > 0 /\ left' = left - 1 /\ UNCHANGED <<transit, made, low, buff>>
    BY <1>5 DEF ReadWord
  <2>2. \/ UNCHANGED <<fifo, taken>>
        \/ fifo # <<>> /\ taken' = Append(taken, Head(fifo)) /\ fifo' = Tail(fifo)
    BY <1>5 DEF ReadWord
  <2>3. \A w \in Seq(Entry), v \in Seq(Entry) :
           v # <<>> => Append(w, Head(v)) \in Seq(Entry) /\ Tail(v) \in Seq(Entry)
    OBVIOUS
  <2>4. fifo' \in Seq(Entry) /\ taken' \in Seq(Entry)
    BY <1>1, <2>2, <2>3
  <2> QED
    BY <1>1, <2>1, <2>4 DEF WordsInv
<1>6. CASE Push
  <2>1. /\ transit # <<>> /\ fifo' = Append(fifo, Head(transit)) /\ transit' = Tail(transit)
        /\ UNCHANGED <<made, taken, left, low, buff>>
    BY <1>6 DEF Push, reading, stored
  <2> QED
    BY <1>1, <2>1 DEF WordsInv
<1>7. ASSUME NEW l \in Lanes, StartFrame(l) PROVE WordsInv'
  <2>1. /\ made' = made + 1 /\ UNCHANGED <<fifo, taken, left, low, buff>>
        /\ transit' = FrameOf(IF InLoop THEN "lane" ELSE "old", made + 1)
    BY <1>7 DEF StartFrame, reading, stored
  <2>2. transit' \in Seq(Entry)
    BY <1>1, <2>1, FrameIs
  <2> QED
    BY <1>1, <2>1, <2>2 DEF WordsInv
<1> QED
  BY <1>2, <1>3, <1>4, <1>5, <1>6, <1>7 DEF Next, Script, Environment

LEMMA PutBySeq ==
    ASSUME KeptTypes
    PROVE  PutBy \in Seq(AnyEntry)
<1>1. dataParse_autoread(dataStream_lst, bufferLength_lst) \in Seq(AnyEntry)
  <2>1. <<>> \in Seq(AnyEntry) /\ 0 = Len(<<>>)
    OBVIOUS
  <2> QED
    BY <2>1, ParseMore DEF KeptTypes
<1> QED
  BY <1>1 DEF PutBy, KeptTypes

LEMMA DataIs == Data = PutBy \o readout
  BY DEF Data, PutBy

LEMMA KeepInit == Init => KeepInv
<1> SUFFICES ASSUME Init PROVE KeepInv
  OBVIOUS
<1>1. /\ readout = <<>> /\ ofile = <<>> /\ dataStream_lst = <<>> /\ bufferLength_lst = <<>>
      /\ taken = <<>> /\ cancelled = FALSE /\ inject = <<>> /\ pc = "setup"
  BY DEF Init
<1>2. KeptTypes
  BY <1>1 DEF KeptTypes
<1>3. Data = <<>>
  BY <1>1 DEF Data
<1>4. StreamKept
  <2>1. WithoutPads(Data) = taken
    BY <1>1, <1>3, PadsNone
  <2>2. IsPrefix(taken, taken)
    <3>1. taken \in Seq(Entry)
      BY <1>1
    <3> QED
      BY <3>1, PrefixSelf
  <2> QED
    BY <2>1, <2>2 DEF StreamKept
<1> QED
  BY <1>1, <1>2, <1>4, WordsInit DEF KeepInv

(* Nothing is read.                                                        *)
LEMMA KeepStays ==
    ASSUME KeepInv, WordsInv', UNCHANGED <<args, readout, ofile, dataStream_lst, bufferLength_lst, taken>>,
           PutBy' = PutBy, cancelled' = cancelled,
           pc' = "setup" => pc = "setup", pc' = "done" => inject' = <<>>,
           cancelled => pc' \in {"end", "stop", "post", "done", "failed"},
           pc = "read" => pc' = "read" /\ UNCHANGED <<left, buff>>,
           pc' = "read" /\ pc # "read" /\ args.readout = 0 => left' = buff'
    PROVE  KeepInv'
<1>1. KeptTypes'
  BY DEF KeepInv, KeptTypes
<1>2. StreamKept'
  <2>1. Data' = Data
    <3>1. Data' = PutBy' \o readout'
      BY DEF Data, PutBy
    <3> QED
      BY <3>1, DataIs
  <2> QED
    BY <2>1 DEF KeepInv, StreamKept, WithoutPads
<1>3. pc' # "read" => readout' = <<>>
  BY DEF KeepInv
<1>4. pc' = "read" /\ args'.readout = 0 => Len(readout') + left' = buff'
  <2> SUFFICES ASSUME pc' = "read", args.readout = 0 PROVE Len(readout) + left' = buff'
    OBVIOUS
  <2>1. CASE pc = "read"
    BY <2>1 DEF KeepInv
  <2>2. CASE pc # "read"
    <3>1. readout = <<>> /\ left' = buff'
      BY <2>2 DEF KeepInv
    <3>2. left' \in Nat
      BY DEF WordsInv
    <3>3. Len(readout) = 0
      BY <3>1
    <3>4. Len(readout) + left' = left'
      <4>1. \A m \in Nat : 0 + m = m
        OBVIOUS
      <4> QED
        BY <3>2, <3>3, <4>1, Zenon
    <3> QED
      BY <3>1, <3>4
  <2> QED
    BY <2>1, <2>2
<1> QED
  BY <1>1, <1>2, <1>3, <1>4 DEF KeepInv

LEMMA KeepSetup ==
    ASSUME KeepInv, WordsInv', Setup
    PROVE  KeepInv'
<1>1. /\ UNCHANGED <<args, readout, ofile, dataStream_lst, bufferLength_lst, taken, cancelled>>
      /\ pc = "setup" /\ pc' \in {"dead", "quiet"}
  BY DEF Setup, Goto, reading, stored
<1>2. ofile = <<>> /\ dataStream_lst = <<>> /\ bufferLength_lst = <<>> /\ cancelled = FALSE
  BY <1>1 DEF KeepInv
<1>3. PutBy = <<>>
  BY <1>2, ParseNothing DEF PutBy
<1>4. PutBy' = <<>>
  <2>1. PutBy' = IF inject' # <<>> THEN dataParse_autoread(<<>>, <<>>) ELSE <<>>
    BY <1>1, <1>2 DEF PutBy, dataParse_autoread
  <2> QED
    BY <2>1, ParseNothing
<1> QED
  BY <1>1, <1>2, <1>3, <1>4, KeepStays

LEMMA KeepRead ==
    ASSUME KeepInv, WordsInv', ReadWord
    PROVE  KeepInv'
<1>1. /\ pc = "read" /\ left > 0 /\ left' = left - 1
      /\ UNCHANGED <<buff, ofile, dataStream_lst, bufferLength_lst, args, inject, pc, cancelled>>
  BY DEF ReadWord, script
<1>2. KeptTypes /\ WordsInv /\ cancelled = FALSE
  BY <1>1 DEF KeepInv
<1>3. PutBy' = PutBy /\ PutBy \in Seq(AnyEntry) /\ readout \in Seq(AnyEntry)
  BY <1>1, <1>2, PutBySeq DEF PutBy, dataParse_autoread, KeptTypes
<1>4. PICK x \in AnyEntry : /\ readout' = Append(readout, x)
                            /\ taken' = taken \o Unpad(x)
  <2>1. CASE fifo = <<>>
    <3>1. readout' = Append(readout, Pad) /\ taken' = taken
      BY <2>1 DEF ReadWord
    <3>2. taken \o Unpad(Pad) = taken
      BY <1>2 DEF Unpad, Pad, WordsInv
    <3> QED
      BY <3>1, <3>2, EntryIsAny
  <2>2. CASE fifo # <<>>
    <3>1. readout' = Append(readout, Head(fifo)) /\ taken' = Append(taken, Head(fifo))
      BY <2>2 DEF ReadWord
    <3>2. Head(fifo) \in Entry
      BY <1>2, <2>2 DEF WordsInv
    <3>3. Unpad(Head(fifo)) = <<Head(fifo)>>
      BY <3>2 DEF Unpad, Entry
    <3>4. \A w \in Seq(Entry), y \in Entry : Append(w, y) = w \o <<y>>
      OBVIOUS
    <3>5. taken' = taken \o Unpad(Head(fifo))
      BY <1>2, <3>1, <3>2, <3>3, <3>4 DEF WordsInv
    <3> QED
      BY <3>1, <3>2, <3>5, EntryIsAny
  <2> QED
    BY <2>1, <2>2
<1>5. readout' \in Seq(AnyEntry) /\ Len(readout') = Len(readout) + 1 /\ Len(readout) \in Nat
  BY <1>3, <1>4
<1>6. Data' = Append(Data, x) /\ Data \in Seq(AnyEntry)
  <2>1. Data' = PutBy' \o readout'
    BY DEF Data, PutBy
  <2>2. \A p \in Seq(AnyEntry), q \in Seq(AnyEntry), y \in AnyEntry :
           /\ p \o Append(q, y) = Append(p \o q, y)
           /\ p \o q \in Seq(AnyEntry)
    OBVIOUS
  <2> HIDE DEF PutBy, Data
  <2>3. PutBy \o Append(readout, x) = Append(PutBy \o readout, x) /\ PutBy \o readout \in Seq(AnyEntry)
    BY ONLY <1>3, <1>4, <2>2
  <2> QED
    BY <1>3, <1>4, <2>1, <2>3, DataIs
<1>7. WithoutPads(Data)' = WithoutPads(Data) \o Unpad(x)
  <2>1. WithoutPads(Append(Data, x)) = WithoutPads(Data) \o Unpad(x)
    BY <1>6, PadsMore
  <2>2. WithoutPads(Data)' = WithoutPads(Data')
    BY DEF WithoutPads
  <2> QED
    BY <1>6, <2>1, <2>2
<1>8. StreamKept'
  <2> SUFFICES ASSUME args.readout = 0
               PROVE  /\ IsPrefix(WithoutPads(Data)', taken')
                      /\ WithoutPads(Data)' = taken'
    BY <1>1 DEF StreamKept
  <2>1. WithoutPads(Data) = taken
    BY <1>2 DEF KeepInv, StreamKept
  <2>2. WithoutPads(Data)' = taken'
    BY <1>4, <1>7, <2>1
  <2>3. IsPrefix(taken', taken')
    BY PrefixSelf DEF WordsInv
  <2> QED
    BY <2>2, <2>3
<1>9. KeptTypes'
  BY <1>1, <1>2, <1>5 DEF KeptTypes
<1>10. args.readout = 0 => Len(readout') + left' = buff'
  BY <1>1, <1>2, <1>5, SMTT(30) DEF KeepInv, WordsInv
<1> QED
  BY <1>1, <1>2, <1>8, <1>9, <1>10 DEF KeepInv

LEMMA KeepStore ==
    ASSUME KeepInv, WordsInv', Store
    PROVE  KeepInv'
<1>1. /\ pc = "read" /\ left = 0 /\ pc' \in {"end", "loop"} /\ readout' = <<>>
      /\ UNCHANGED <<taken, args, inject, cancelled>>
  BY DEF Store
<1>2. KeptTypes /\ WordsInv /\ cancelled = FALSE
  BY <1>1 DEF KeepInv
<1>3. /\ readout \in Seq(AnyEntry) /\ ofile \in Seq(AnyEntry) /\ Len(readout) \in Nat
      /\ dataStream_lst \in Seq(Seq(AnyEntry)) /\ bufferLength_lst \in Seq(Nat)
      /\ Len(bufferLength_lst) = Len(dataStream_lst) /\ buff \in Nat
  BY <1>2 DEF KeptTypes, WordsInv
<1>4. PutBy \in Seq(AnyEntry)
  BY <1>2, PutBySeq
<1>5. args.readout = 0 => buff = Len(readout)
  BY <1>1, <1>3 DEF KeepInv
<1>6. CASE buff = 0
  <2>1. UNCHANGED <<ofile, dataStream_lst, bufferLength_lst>>
    BY <1>6 DEF Store
  <2>2. PutBy' = PutBy
    BY <1>1, <2>1 DEF PutBy, dataParse_autoread
  <2>3. KeptTypes'
    BY <1>1, <1>3, <2>1 DEF KeptTypes
  <2>4. args.readout = 0 => readout = <<>>
    BY <1>3, <1>5, <1>6
  <2>5. args.readout = 0 => Data' = Data
    BY <1>1, <2>2, <2>4, DataIs DEF Data, PutBy
  <2> QED
    BY <1>1, <1>2, <2>3, <2>5 DEF KeepInv, StreamKept, WithoutPads
<1>7. CASE buff # 0 /\ inject # <<>>
  <2>1. /\ dataStream_lst' = Append(dataStream_lst, readout)
        /\ bufferLength_lst' = Append(bufferLength_lst, buff) /\ ofile' = ofile
    BY <1>7 DEF Store
  <2>2. KeptTypes'
    <3>1. /\ dataStream_lst' \in Seq(Seq(AnyEntry)) /\ bufferLength_lst' \in Seq(Nat)
          /\ Len(dataStream_lst') = Len(dataStream_lst) + 1
          /\ Len(bufferLength_lst') = Len(bufferLength_lst) + 1
      BY <1>3, <2>1
    <3> QED
      BY <1>1, <1>3, <2>1, <3>1 DEF KeptTypes
  <2>3. args.readout = 0 => PutBy' = PutBy \o readout
    <3> SUFFICES ASSUME args.readout = 0 PROVE PutBy' = PutBy \o readout
      OBVIOUS
    <3>1. PutBy = dataParse_autoread(dataStream_lst, bufferLength_lst)
      BY <1>7 DEF PutBy
    <3>2. PutBy' = dataParse_autoread(Append(dataStream_lst, readout), Append(bufferLength_lst, buff))
      BY <1>1, <1>7, <2>1 DEF PutBy, dataParse_autoread
    <3>3. dataParse_autoread(Append(dataStream_lst, readout), Append(bufferLength_lst, buff))
             = dataParse_autoread(dataStream_lst, bufferLength_lst) \o readout
      BY <1>3, <1>5, ParseMore
    <3> QED
      BY <3>1, <3>2, <3>3
  <2>4. args.readout = 0 => Data' = Data
    <3>1. Data' = PutBy' \o <<>>
      BY <1>1 DEF Data, PutBy
    <3>2. \A p \in Seq(AnyEntry), q \in Seq(AnyEntry) : (p \o q) \o <<>> = p \o q
      OBVIOUS
    <3> QED
      BY <1>3, <1>4, <2>3, <3>1, <3>2, DataIs
  <2> QED
    BY <1>1, <1>2, <2>2, <2>4 DEF KeepInv, StreamKept, WithoutPads
<1>8. CASE buff # 0 /\ inject = <<>>
  <2>1. ofile' = ofile \o readout /\ UNCHANGED <<dataStream_lst, bufferLength_lst>>
    BY <1>8 DEF Store
  <2>2. KeptTypes'
    BY <1>1, <1>3, <2>1 DEF KeptTypes
  <2>3. PutBy' = PutBy \o readout
    BY <1>1, <1>8, <2>1 DEF PutBy
  <2>4. Data' = Data
    <3>1. Data' = PutBy' \o <<>>
      BY <1>1 DEF Data, PutBy
    <3>2. \A p \in Seq(AnyEntry), q \in Seq(AnyEntry) : (p \o q) \o <<>> = p \o q
      OBVIOUS
    <3> QED
      BY <1>3, <1>4, <2>3, <3>1, <3>2, DataIs
  <2> QED
    BY <1>1, <1>2, <2>2, <2>4 DEF KeepInv, StreamKept, WithoutPads
<1> QED
  BY <1>6, <1>7, <1>8

LEMMA KeepCancel ==
    ASSUME KeepInv, WordsInv', Cancel
    PROVE  KeepInv'
<1>1. /\ InLoop /\ pc' = "end" /\ cancelled' = TRUE /\ readout' = <<>>
      /\ UNCHANGED <<taken, args, inject, ofile, dataStream_lst, bufferLength_lst>>
  BY DEF Cancel, stored
<1>2. KeptTypes /\ WordsInv /\ cancelled = FALSE
  BY <1>1 DEF KeepInv, InLoop
<1>3. KeptTypes'
  BY <1>1, <1>2 DEF KeptTypes
<1>4. PutBy' = PutBy /\ PutBy \in Seq(AnyEntry) /\ readout \in Seq(AnyEntry)
  BY <1>1, <1>2, PutBySeq DEF PutBy, dataParse_autoread, KeptTypes
<1>5. Data' = PutBy
  <2>1. Data' = PutBy' \o <<>>
    BY <1>1 DEF Data, PutBy
  <2>2. \A p \in Seq(AnyEntry) : p \o <<>> = p
    OBVIOUS
  <2> QED
    BY <1>4, <2>1, <2>2
<1>6. IsPrefix(WithoutPads(PutBy), WithoutPads(Data))
  BY <1>4, PadsPrefix, DataIs
<1>7. StreamKept'
  <2>1. WithoutPads(Data)' = WithoutPads(PutBy)
    BY <1>5 DEF WithoutPads
  <2>2. args.readout = 0 => WithoutPads(Data) = taken
    BY <1>2 DEF KeepInv, StreamKept
  <2>3. args.readout = 0 => IsPrefix(WithoutPads(Data)', taken')
    BY <1>1, <1>6, <2>1, <2>2
  <2> QED
    BY <1>1, <2>3 DEF StreamKept
<1> QED
  BY <1>1, <1>3, <1>7 DEF KeepInv

LEMMA KeepNext ==
    ASSUME KeepInv, Counters, [Next]_vars
    PROVE  KeepInv'
<1>0. WordsInv'
  BY WordsNext DEF KeepInv
<1>1. CASE \/ Quiet \/ EndReset \/ WriteChunk \/ ChunkWritten
           \/ Route \/ Routed \/ Select \/ Config
           \/ Unhold \/ (\E interrupt \in {0, 1} : Poll(interrupt)) \/ Deselect
           \/ Empty \/ Discard \/ Begin \/ Enable \/ Loop \/ ReadLevelLow \/ ReadLevelHigh
           \/ End \/ Stop \/ Process \/ TimedOut \/ Expire \/ Environment \/ UNCHANGED vars
  <2>1. UNCHANGED <<args, readout, ofile, dataStream_lst, bufferLength_lst, taken, inject, cancelled>>
    BY <1>1 DEF Quiet, EndReset, WriteChunk, ChunkWritten, Route, Routed, Select, Config,
                Unhold, Poll, Deselect, Empty, Discard, Begin, Enable, Loop, ReadLevelLow,
                ReadLevelHigh, End, Stop, Process, TimedOut, Expire, Environment, ByteArrives, Shift, Push,
                StartFrame, vars, reading, stored, script
  <2>2. PutBy' = PutBy
    BY <2>1 DEF PutBy, dataParse_autoread
  <2>3. /\ pc' = "setup" => pc = "setup"
        /\ pc' = "done" => inject = <<>>
        /\ pc \in {"end", "stop", "post", "done", "failed"} => pc' \in {"end", "stop", "post", "done", "failed"}
        /\ pc = "read" => pc' = "read" /\ UNCHANGED <<left, buff>>
        /\ pc' = "read" /\ pc # "read" => \/ args.readout = 0 => left' = buff'
    <3>1. CASE \/ Quiet \/ EndReset \/ ChunkWritten
               \/ Route \/ Routed \/ Select
               \/ Unhold \/ (\E interrupt \in {0, 1} : Poll(interrupt)) \/ Deselect
               \/ Empty \/ Discard \/ Begin \/ Enable \/ Loop \/ ReadLevelLow
               \/ End \/ Stop \/ Process \/ TimedOut
      BY <3>1 DEF Quiet, EndReset, ChunkWritten, Route, Routed, Select,
                Unhold, Poll, Deselect, Empty, Discard, Begin, Enable, Loop, ReadLevelLow,
                End, Stop, Process, TimedOut, Goto, writeSPI
    <3>2. CASE Config
      BY <3>2 DEF Config, writeSPI
    <3>3. CASE WriteChunk
      <4>1. pc = "chunk" /\ pc' \in {"wait", resume} /\ resume \in {"routed", "config", "flushed", "loop"}
        BY <3>3 DEF WriteChunk, Counters
      <4> QED
        BY <4>1
    <3>4. CASE ReadLevelHigh
      BY <3>4 DEF ReadLevelHigh, Goto
    <3>5. CASE Expire \/ Environment \/ UNCHANGED vars
      BY <3>5 DEF Expire, Environment, ByteArrives, Shift, Push, StartFrame, vars, reading, script, KeepInv
    <3> QED
      BY <1>1, <3>1, <3>2, <3>3, <3>4, <3>5
  <2>4. cancelled => pc \in {"end", "stop", "post", "done", "failed"}
    BY DEF KeepInv
  <2> QED
    BY <1>0, <2>1, <2>2, <2>3, <2>4, KeepStays
<1> QED
  BY <1>0, <1>1, KeepSetup, KeepRead, KeepStore, KeepCancel DEF Next, Script

(* When as many words are read as the level said, every word that leaves   *)
(* the buffer is kept, once and in order; a cancelled call loses the words *)
(* of that call only.                                                      *)
THEOREM ScriptKeepsStream == Spec => []StreamKept
<1>1. KeepInv => StreamKept
  BY DEF KeepInv
<1>2. SessionInv => Counters
  BY DEF SessionInv
<1>3. KeepInv /\ Counters /\ [Next]_vars => KeepInv'
  BY KeepNext
<1> QED
  BY <1>1, <1>2, <1>3, KeepInit, SessionAlways, PTL DEF Spec

-----------------------------------------------------------------------------
(* The decoder.                                                            *)

(* One step of list_hits.                                                  *)
HitsFrom(f, g, b) ==
    IF b > Len(f) THEN <<>>
    ELSE IF f[b].value > MaxPacket THEN g[b + 1]
    ELSE LET e == IF b + f[b].value > Len(f) THEN Len(f) ELSE b + f[b].value
         IN <<SubSeq(f, b, e)>> \o g[e + 1]

Ahead(g, q, b, n) == \A k \in b + 1 .. n : g[k] = q[k]

LEMMA HitsAhead ==
    ASSUME NEW f \in Seq(AnyEntry), NEW b \in 1 .. Len(f) + 1, NEW g, NEW q,
           Ahead(g, q, b, Len(f) + 1)
    PROVE  HitsFrom(f, g, b) = HitsFrom(f, q, b)
<1>0. Len(f) \in Nat
  OBVIOUS
<1>1. CASE b > Len(f)
  BY <1>1 DEF HitsFrom
<1>2. CASE ~(b > Len(f)) /\ f[b].value > MaxPacket
  <2>1. b + 1 \in b + 1 .. Len(f) + 1
    BY <1>0, <1>2
  <2>2. g[b + 1] = q[b + 1]
    BY <2>1 DEF Ahead
  <2> QED
    BY <1>2, <2>2 DEF HitsFrom
<1>3. CASE ~(b > Len(f)) /\ ~(f[b].value > MaxPacket)
  <2> DEFINE e == IF b + f[b].value > Len(f) THEN Len(f) ELSE b + f[b].value
  <2>1. f[b] \in AnyEntry /\ b \in 1 .. Len(f)
    BY <1>0, <1>3
  <2>2. f[b].value \in Nat
    BY <2>1 DEF AnyEntry, Entry, Pad
  <2>3. e + 1 \in b + 1 .. Len(f) + 1
    BY <1>0, <2>1, <2>2
  <2>4. /\ HitsFrom(f, g, b) = <<SubSeq(f, b, e)>> \o g[e + 1]
        /\ HitsFrom(f, q, b) = <<SubSeq(f, b, e)>> \o q[e + 1]
    BY <1>3 DEF HitsFrom
  <2> HIDE DEF e
  <2>5. g[e + 1] = q[e + 1]
    BY <2>3 DEF Ahead
  <2> QED
    BY <2>4, <2>5
<1> QED
  BY <1>1, <1>2, <1>3

Solves(f, g, m) == \A b \in m .. Len(f) + 1 : g[b] = HitsFrom(f, g, b)

LEMMA HitsExist ==
    ASSUME NEW f \in Seq(AnyEntry)
    PROVE  \E g : Solves(f, g, 1)
<1>0. Len(f) \in Nat
  OBVIOUS
<1> DEFINE N == Len(f)
           T == {n \in Nat : n <= N => \E g : Solves(f, g, N + 1 - n)}
<1>1. 0 \in T
  <2> DEFINE g == [k \in {N + 1} |-> <<>>]
  <2>1. g[N + 1] = <<>> /\ \A b \in N + 1 .. N + 1 : b = N + 1
    BY <1>0
  <2> HIDE DEF g
  <2>2. HitsFrom(f, g, N + 1) = <<>>
    BY <1>0 DEF HitsFrom
  <2>3. Solves(f, g, N + 1)
    BY <2>1, <2>2 DEF Solves
  <2>4. N + 1 - 0 = N + 1
    BY <1>0
  <2> QED
    BY <2>3, <2>4
<1>2. ASSUME NEW n \in Nat, n \in T PROVE n + 1 \in T
  <2> SUFFICES ASSUME n + 1 <= N PROVE \E g : Solves(f, g, N + 1 - (n + 1))
    OBVIOUS
  <2> DEFINE m == N + 1 - (n + 1)
  <2>0. m \in Nat /\ m >= 1 /\ m \in 1 .. N + 1 /\ N + 1 - n = m + 1 /\ N \in Nat
    BY <1>0
  <2>1. PICK g : Solves(f, g, m + 1)
    BY <1>0, <1>2, <2>0
  <2> HIDE DEF m, N
  <2> DEFINE q == [b \in m .. N + 1 |-> IF b = m THEN HitsFrom(f, g, m) ELSE g[b]]
  <2>2. \A k \in m + 1 .. N + 1 : q[k] = g[k]
    BY <2>0
  <2>3. q[m] = HitsFrom(f, g, m)
    BY <2>0
  <2> HIDE DEF q
  <2>4. ASSUME NEW b \in m .. N + 1 PROVE q[b] = HitsFrom(f, q, b)
    <3>1. b \in 1 .. N + 1 /\ \A k \in b + 1 .. N + 1 : k \in m + 1 .. N + 1
      BY <2>0
    <3>2. Ahead(g, q, b, N + 1)
      BY <2>2, <3>1 DEF Ahead
    <3>3. HitsFrom(f, g, b) = HitsFrom(f, q, b)
      BY <3>1, <3>2, HitsAhead DEF N
    <3>4. CASE b = m
      BY <2>3, <3>3, <3>4
    <3>5. CASE b # m
      <4>1. b \in m + 1 .. N + 1
        BY <2>0, <3>5
      <4>2. g[b] = HitsFrom(f, g, b)
        BY <2>1, <4>1 DEF Solves, N
      <4> QED
        BY <2>2, <3>3, <4>1, <4>2
    <3> QED
      BY <3>4, <3>5
  <2>5. Solves(f, q, m)
    BY <2>4 DEF Solves, N
  <2> QED
    BY <2>5 DEF m
<1> HIDE DEF T
<1>3. N \in T
  BY <1>0, <1>1, <1>2, Induction
<1>4. N + 1 - N = 1 /\ N <= N
  BY <1>0
<1> QED
  BY <1>3, <1>4 DEF T

(* list_hits is what its steps say.                                        *)
LEMMA HitsAre ==
    ASSUME NEW f \in Seq(AnyEntry)
    PROVE  \E it : list_hits(f) = it[1] /\ Solves(f, it, 1)
<1>0. Len(f) \in Nat
  OBVIOUS
<1> DEFINE Is(g) == g = [b \in 1 .. Len(f) + 1 |->
                            IF b > Len(f) THEN <<>>
                            ELSE IF f[b].value > MaxPacket THEN g[b + 1]
                            ELSE LET e == IF b + f[b].value > Len(f) THEN Len(f)
                                          ELSE b + f[b].value
                                 IN <<SubSeq(f, b, e)>> \o g[e + 1]]
           it == CHOOSE g : Is(g)
<1>1. list_hits(f) = it[1]
  BY Zenon DEF list_hits
<1>2. PICK g : Solves(f, g, 1)
  BY HitsExist
<1> DEFINE q == [b \in 1 .. Len(f) + 1 |-> g[b]]
<1>3. Is(q)
  <2>1. \A b \in 1 .. Len(f) + 1 : q[b] = g[b]
    OBVIOUS
  <2>2. ASSUME NEW b \in 1 .. Len(f) + 1 PROVE q[b] = HitsFrom(f, q, b)
    <3>1. \A k \in b + 1 .. Len(f) + 1 : k \in 1 .. Len(f) + 1
      BY <1>0
    <3> HIDE DEF q
    <3>2. Ahead(g, q, b, Len(f) + 1)
      BY <2>1, <3>1 DEF Ahead
    <3>3. HitsFrom(f, g, b) = HitsFrom(f, q, b)
      BY <3>2, HitsAhead
    <3>4. g[b] = HitsFrom(f, g, b)
      BY <1>2 DEF Solves
    <3> QED
      BY <2>1, <3>3, <3>4
  <2>3. q = [b \in 1 .. Len(f) + 1 |-> q[b]]
    OBVIOUS
  <2> HIDE DEF q
  <2>4. q = [b \in 1 .. Len(f) + 1 |-> HitsFrom(f, q, b)]
    BY <2>2, <2>3
  <2> QED
    BY <2>4 DEF HitsFrom
<1>4. Is(it)
  <2> HIDE DEF q, Is
  <2> QED
    BY <1>3
<1>5. it = [b \in 1 .. Len(f) + 1 |-> HitsFrom(f, it, b)]
  <2> HIDE DEF it
  <2> QED
    BY <1>4 DEF HitsFrom
<1> HIDE DEF it
<1>6. Solves(f, it, 1)
  <2> SUFFICES ASSUME NEW b \in 1 .. Len(f) + 1 PROVE it[b] = HitsFrom(f, it, b)
    BY DEF Solves
  <2>1. \A z : z = [c \in 1 .. Len(f) + 1 |-> HitsFrom(f, it, c)] => z[b] = HitsFrom(f, it, b)
    OBVIOUS
  <2> QED
    BY <1>5, <2>1
<1> QED
  BY <1>1, <1>6

(* A sequence in front.                                                    *)
LEMMA FlattenFirst ==
    ASSUME NEW S, NEW s \in Seq(S), NEW r \in Seq(Seq(S))
    PROVE  /\ <<s>> \o r \in Seq(Seq(S))
           /\ FlattenSeq(r) \in Seq(S)
           /\ FlattenSeq(<<s>> \o r) = s \o FlattenSeq(r)
<1> DEFINE Holds(w) == FlattenSeq(w) \in Seq(S) /\ FlattenSeq(<<s>> \o w) = s \o FlattenSeq(w)
           T == {n \in Nat : \A w \in Seq(Seq(S)) : Len(w) = n => Holds(w)}
<1>1. 0 \in T
  <2>1. ASSUME NEW w \in Seq(Seq(S)), Len(w) = 0 PROVE Holds(w)
    <3>1. w = <<>> /\ FlattenSeq(<<>>) = <<>> /\ <<>> \in Seq(S)
      BY <2>1, FlattenNothing
    <3> DEFINE u == <<>>
               v == <<s>>
    <3>2. /\ u \in Seq(Seq(S)) /\ v \in Seq(Seq(S)) /\ Len(u) = 0 /\ Len(v) = 1 /\ v[1] = s
      OBVIOUS
    <3>3. FlattenSeq(u) = <<>>
      BY <3>1
    <3>4. v = <<s>> \o w
      BY <3>1
    <3> HIDE DEF u, v
    <3>5. FlattenSeq(v) = FlattenSeq(u) \o v[Len(v)]
      <4>1. Len(v) = Len(u) + 1 /\ \A k \in 1 .. Len(u) : v[k] = u[k]
        BY <3>2
      <4> QED
        BY <3>2, <4>1, FlattenMore
    <3>6. FlattenSeq(v) = s
      BY <3>2, <3>3, <3>5
    <3>7. s \o FlattenSeq(w) = s
      BY <3>1
    <3> QED
      BY <3>1, <3>4, <3>6, <3>7
  <2> HIDE DEF Holds
  <2> QED
    BY <2>1
<1>2. ASSUME NEW n \in Nat, n \in T PROVE n + 1 \in T
  <2>1. ASSUME NEW w \in Seq(Seq(S)), Len(w) = n + 1 PROVE Holds(w)
    <3> DEFINE u == SubSeq(w, 1, n)
               x == w[n + 1]
               su == <<s>> \o u
               sw == <<s>> \o w
    <3>1. /\ u \in Seq(Seq(S)) /\ Len(u) = n /\ x \in Seq(S)
          /\ \A k \in 1 .. n : w[k] = u[k]
      BY <2>1
    <3>2. Holds(u)
      <4> HIDE DEF Holds, u
      <4> QED
        BY <1>2, <3>1
    <3>3. /\ su \in Seq(Seq(S)) /\ Len(su) = n + 1 /\ su[1] = s
          /\ \A k \in 2 .. n + 1 : su[k] = u[k - 1]
      <4> HIDE DEF u
      <4> QED
        BY <3>1
    <3>4. /\ sw \in Seq(Seq(S)) /\ Len(sw) = n + 2 /\ sw[1] = s
          /\ \A k \in 2 .. n + 2 : sw[k] = w[k - 1]
      BY <2>1
    <3> HIDE DEF su, sw, u
    <3>5. \A k \in 1 .. n + 1 : sw[k] = su[k]
      <4> SUFFICES ASSUME NEW k \in 1 .. n + 1 PROVE sw[k] = su[k]
        OBVIOUS
      <4>1. CASE k = 1
        BY <3>3, <3>4, <4>1
      <4>2. CASE k # 1
        <5>1. k \in 2 .. n + 1 /\ k \in 2 .. n + 2 /\ k - 1 \in 1 .. n
          BY <4>2
        <5> QED
          BY <3>1, <3>3, <3>4, <5>1
      <4> QED
        BY <4>1, <4>2
    <3>6. sw[n + 2] = x
      BY <3>4
    <3>7. FlattenSeq(su) \in Seq(S) /\ FlattenSeq(sw) = FlattenSeq(su) \o sw[Len(sw)]
      <4>1. su \in Seq(Seq(S)) /\ sw \in Seq(Seq(S)) /\ Len(sw) = Len(su) + 1
        BY <3>3, <3>4
      <4>2. \A k \in 1 .. Len(su) : sw[k] = su[k]
        BY <3>3, <3>5
      <4> QED
        BY ONLY <4>1, <4>2, FlattenMore
    <3>8. FlattenSeq(u) \in Seq(S) /\ FlattenSeq(w) = FlattenSeq(u) \o w[Len(w)]
      BY <2>1, <3>1, FlattenMore
    <3>9. FlattenSeq(su) = s \o FlattenSeq(u)
      BY <3>2 DEF su
    <3> DEFINE fu == FlattenSeq(u)
               fw == FlattenSeq(w)
               fsw == FlattenSeq(sw)
    <3>10. fw = fu \o x /\ fsw = (s \o fu) \o x /\ fu \in Seq(S)
      BY <2>1, <3>4, <3>6, <3>7, <3>8, <3>9
    <3> HIDE DEF fu, fw, fsw, x
    <3>11. fw \in Seq(S) /\ fsw = s \o fw
      <4>1. \A p \in Seq(S), t \in Seq(S), o \in Seq(S) : (p \o t) \o o = p \o (t \o o) /\ t \o o \in Seq(S)
        OBVIOUS
      <4> QED
        BY <3>1, <3>10, <4>1
    <3> QED
      BY <3>11 DEF fw, fsw, sw
  <2> HIDE DEF Holds
  <2> QED
    BY <2>1
<1> HIDE DEF T, Holds
<1>3. Len(r) \in T
  <2>1. Len(r) \in Nat
    OBVIOUS
  <2> QED
    BY <1>1, <1>2, <2>1, Induction
<1>4. Holds(r)
  BY <1>3 DEF T
<1>5. <<s>> \o r \in Seq(Seq(S))
  OBVIOUS
<1> QED
  BY <1>4, <1>5 DEF Holds

-----------------------------------------------------------------------------
(* A piece of the file that begins with a frame.                           *)
LEMMA FrameParts ==
    ASSUME NEW q \in Nat, NEW k \in 1 .. 3
    PROVE  /\ FrameWord(3 * q + k).from = "lane" /\ FrameWord(3 * q + k).part = k
           /\ FrameWord(3 * q + k).frame = q + 1
           /\ k = 1 => FrameWord(3 * q + k).value = 2
<1>1. (3 * q + k - 1) \div 3 = q /\ (3 * q + k - 1) % 3 = k - 1
  OBVIOUS
<1> DEFINE d == (3 * q + k - 1) \div 3
           m == (3 * q + k - 1) % 3
<1>2. FrameWord(3 * q + k) = [from |-> "lane", frame |-> d + 1, part |-> m + 1,
                              value |-> IF m = 0 THEN 2 ELSE 9]
  BY DEF FrameWord
<1>3. d = q /\ m = k - 1
  BY <1>1
<1> HIDE DEF d, m
<1> QED
  BY <1>2, <1>3

(* The words of f, kept without the fill words up to each position in h,   *)
(* are those of frames, after the first off ones.                          *)
OfFrames(f, h, off) ==
    /\ f \in Seq(AnyEntry) /\ PadChain(f, h) /\ off \in Nat
    /\ \A k \in 0 .. Len(f) : h[k] \in Seq(AnyEntry)
    /\ \A k \in 1 .. Len(h[Len(f)]) : h[Len(f)][k] = FrameWord(off + k)
    /\ BeginsWithFrame(f)
    /\ MaxPacket \in 2 .. 254

LEMMA WordAt ==
    ASSUME NEW f, NEW h, NEW off, OfFrames(f, h, off), NEW k \in 0 .. Len(f) - 1
    PROVE  /\ f[k + 1] \in AnyEntry /\ h[k] \in Seq(AnyEntry)
           /\ f[k + 1].from = "pad" => f[k + 1].value = 255 /\ h[k + 1] = h[k]
           /\ f[k + 1].from # "pad" => /\ f[k + 1] = FrameWord(off + (Len(h[k]) + 1))
                                       /\ h[k + 1] = Append(h[k], f[k + 1])
<1>0. /\ f \in Seq(AnyEntry) /\ Len(f) \in Nat
      /\ k \in 0 .. Len(f) /\ k + 1 \in 0 .. Len(f) /\ k + 1 \in 1 .. Len(f)
      /\ Len(f) \in k + 1 .. Len(f) /\ Len(f) \in 0 .. Len(f)
  BY DEF OfFrames
<1> DEFINE x == f[k + 1]
           p == h[k]
           all == h[Len(f)]
<1>1. x \in AnyEntry
  BY <1>0
<1>2. p \in Seq(AnyEntry) /\ h[k + 1] \in Seq(AnyEntry) /\ all \in Seq(AnyEntry)
  BY <1>0 DEF OfFrames
<1>3. h[k + 1] = p \o Unpad(x)
  BY DEF OfFrames, PadChain
<1>4. IsPrefix(h[k + 1], all)
  <2>1. PadChain(f, h) /\ \A m \in 0 .. Len(f) : h[m] \in Seq(AnyEntry)
    BY DEF OfFrames
  <2> QED
    BY <1>0, <2>1, PadChainGrows
<1>5. \A m \in 1 .. Len(all) : all[m] = FrameWord(off + m)
  BY DEF OfFrames
<1> HIDE DEF x, p, all
<1>6. ASSUME x.from = "pad" PROVE x.value = 255 /\ h[k + 1] = p
  <2>1. x = Pad
    BY <1>1, <1>6 DEF AnyEntry, Entry
  <2>2. Unpad(x) = <<>>
    BY <1>6 DEF Unpad
  <2> QED
    BY <1>2, <1>3, <2>1, <2>2 DEF Pad
<1>7. ASSUME x.from # "pad" PROVE x = FrameWord(off + (Len(p) + 1)) /\ h[k + 1] = Append(p, x)
  <2>1. h[k + 1] = p \o <<x>>
    BY <1>3, <1>7 DEF Unpad
  <2>2. \A w \in Seq(AnyEntry) : /\ w \o <<x>> = Append(w, x)
                                 /\ Len(Append(w, x)) = Len(w) + 1
                                 /\ Append(w, x)[Len(w) + 1] = x
    BY <1>1
  <2>3. h[k + 1] = Append(p, x) /\ Len(h[k + 1]) = Len(p) + 1 /\ h[k + 1][Len(p) + 1] = x
    BY <1>2, <2>1, <2>2
  <2>4. Len(h[k + 1]) <= Len(all) /\ \A m \in 1 .. Len(h[k + 1]) : h[k + 1][m] = all[m]
    BY <1>2, <1>4, PrefixIs
  <2>5. Len(p) + 1 \in 1 .. Len(h[k + 1]) /\ Len(p) + 1 \in 1 .. Len(all)
    BY <1>2, <2>3, <2>4
  <2> QED
    BY <1>5, <2>3, <2>4, <2>5
<1> QED
  BY <1>1, <1>2, <1>6, <1>7 DEF x, p

LEMMA SubMore ==
    ASSUME NEW S, NEW f \in Seq(S), NEW b \in 1 .. Len(f), NEW k \in b .. Len(f)
    PROVE  /\ SubSeq(f, b, k) \in Seq(S) /\ Len(SubSeq(f, b, k)) = k - b + 1
           /\ \A m \in 1 .. k - b + 1 : SubSeq(f, b, k)[m] = f[b + m - 1]
           /\ SubSeq(f, b, b) = <<f[b]>>
           /\ k < Len(f) => SubSeq(f, b, k + 1) = Append(SubSeq(f, b, k), f[k + 1])
<1>1. /\ SubSeq(f, b, k) \in Seq(S) /\ Len(SubSeq(f, b, k)) = k - b + 1
      /\ \A m \in 1 .. k - b + 1 : SubSeq(f, b, k)[m] = f[b + m - 1]
  OBVIOUS
<1>2. SubSeq(f, b, b) = <<f[b]>>
  <2> DEFINE s == SubSeq(f, b, b)
             t == <<f[b]>>
  <2>1. s \in Seq(S) /\ Len(s) = 1 /\ s[1] = f[b]
    OBVIOUS
  <2>2. t \in Seq(S) /\ Len(t) = 1 /\ t[1] = f[b]
    OBVIOUS
  <2> HIDE DEF s, t
  <2>3. s = t
    BY <2>1, <2>2, SeqEqual
  <2> QED
    BY <2>3 DEF s, t
<1>3. ASSUME k < Len(f) PROVE SubSeq(f, b, k + 1) = Append(SubSeq(f, b, k), f[k + 1])
  <2> DEFINE s == SubSeq(f, b, k)
             t == SubSeq(f, b, k + 1)
             u == Append(s, f[k + 1])
  <2>1. /\ t \in Seq(S) /\ Len(t) = k - b + 2
        /\ \A m \in 1 .. k - b + 2 : t[m] = f[b + m - 1]
    BY <1>3
  <2>2. f[k + 1] \in S
    BY <1>3
  <2> HIDE DEF t, s
  <2>3. /\ u \in Seq(S) /\ Len(u) = k - b + 2 /\ u[k - b + 2] = f[k + 1]
        /\ \A m \in 1 .. k - b + 1 : u[m] = s[m]
    BY <1>1, <2>2 DEF s
  <2> HIDE DEF u
  <2>4. \A m \in 1 .. Len(t) : t[m] = u[m]
    <3> SUFFICES ASSUME NEW m \in 1 .. k - b + 2 PROVE t[m] = u[m]
      BY <2>1
    <3>1. CASE m \in 1 .. k - b + 1
      BY <1>1, <2>1, <2>3, <3>1 DEF s
    <3>2. CASE m = k - b + 2
      <4>1. b + m - 1 = k + 1
        BY <3>2
      <4> QED
        BY <2>1, <2>3, <3>2, <4>1
    <3> QED
      BY <3>1, <3>2
  <2>5. t = u
    BY <2>1, <2>3, <2>4, SeqEqual
  <2> QED
    BY <2>5 DEF t, u, s
<1> QED
  BY <1>1, <1>2, <1>3

LEMMA AppendConcat ==
    ASSUME NEW S, NEW w \in Seq(S), NEW v \in Seq(S), NEW x \in S
    PROVE  Append(w \o v, x) = w \o Append(v, x) /\ Len(Append(w \o v, x)) = Len(w \o v) + 1
<1> DEFINE p == Append(w \o v, x)
           o == w \o Append(v, x)
<1>1. /\ p \in Seq(S) /\ Len(p) = Len(w) + Len(v) + 1 /\ Len(w \o v) = Len(w) + Len(v)
      /\ \A k \in 1 .. Len(w) : p[k] = w[k]
      /\ \A k \in 1 .. Len(v) : p[Len(w) + k] = v[k]
      /\ p[Len(w) + Len(v) + 1] = x
  OBVIOUS
<1>2. /\ o \in Seq(S) /\ Len(o) = Len(w) + Len(v) + 1
      /\ \A k \in 1 .. Len(w) : o[k] = w[k]
      /\ \A k \in 1 .. Len(v) : o[Len(w) + k] = v[k]
      /\ o[Len(w) + Len(v) + 1] = x
  OBVIOUS
<1>3. Len(w) \in Nat /\ Len(v) \in Nat
  OBVIOUS
<1> HIDE DEF p, o
<1>4. ASSUME NEW k \in 1 .. Len(p) PROVE p[k] = o[k]
  <2>1. CASE k <= Len(w)
    BY <1>1, <1>2, <1>3, <2>1
  <2>2. CASE k > Len(w) /\ k <= Len(w) + Len(v)
    <3>1. k - Len(w) \in 1 .. Len(v) /\ Len(w) + (k - Len(w)) = k
      BY <1>3, <2>2
    <3> QED
      BY <1>1, <1>2, <3>1
  <2>3. CASE k > Len(w) + Len(v)
    <3>1. k = Len(w) + Len(v) + 1
      BY <1>1, <1>3, <2>3
    <3> QED
      BY <1>1, <1>2, <3>1
  <2> QED
    BY <1>3, <2>1, <2>2, <2>3
<1>5. p = o
  BY <1>1, <1>2, <1>4, SeqEqual
<1> QED
  BY <1>1, <1>3, <1>5 DEF p, o

(* Between b and e no fill word is inside of a frame.                      *)
Untorn(f, b, e) ==
    \A k \in b + 1 .. e :
        f[k].from = "pad" => f[k - 1].from = "pad" \/ f[k - 1].part = 3

LEMMA PadsUntorn ==
    ASSUME NEW f \in Seq(AnyEntry), NEW n \in 1 .. Len(f),
           PadsBetweenFrames(SubSeq(f, 1, n)), NEW b \in 1 .. n, NEW e \in b .. n
    PROVE  Untorn(f, b, e)
<1>1. Len(f) \in Nat
  OBVIOUS
<1>2. 1 \in 1 .. Len(f)
  BY <1>1
<1> DEFINE w == SubSeq(f, 1, n)
<1>3. w \in Seq(AnyEntry) /\ Len(w) = n /\ \A m \in 1 .. n : w[m] = f[m]
  OBVIOUS
<1>4. \A k \in DOMAIN w : w[k].from = "pad" /\ k > 1 => w[k - 1].from = "pad" \/ w[k - 1].part = 3
  BY DEF PadsBetweenFrames
<1> HIDE DEF w
<1>5. DOMAIN w = 1 .. n
  BY <1>3
<1> SUFFICES ASSUME NEW k \in b + 1 .. e, f[k].from = "pad"
             PROVE  f[k - 1].from = "pad" \/ f[k - 1].part = 3
  BY DEF Untorn
<1>6. k \in 1 .. n /\ k - 1 \in 1 .. n /\ k > 1
  OBVIOUS
<1> QED
  BY <1>3, <1>4, <1>5, <1>6

(* From the first word of a frame on: the words from b to e are a frame,   *)
(* or the part of one that is there.                                       *)
PieceAt(f, h, off, b, q, e) ==
    /\ f[b].value = 2 /\ e \in b .. Len(f) /\ e - b + 1 \in 1 .. 3
    /\ SubSeq(f, b, e) \in Seq(AnyEntry) /\ Len(SubSeq(f, b, e)) = e - b + 1
    /\ PartOfFrame(SubSeq(f, b, e))
    /\ h[e] = h[b - 1] \o SubSeq(f, b, e) /\ off + Len(h[e]) = 3 * q + (e - b + 1)

LEMMA NextFrame ==
    ASSUME NEW f, NEW h, NEW off, OfFrames(f, h, off), NEW b \in 1 .. Len(f), NEW q \in Nat,
           off + Len(h[b - 1]) = 3 * q, f[b].from # "pad",
           NEW e \in b .. Len(f), e <= b + 2, Untorn(f, b, e)
    PROVE  PieceAt(f, h, off, b, q, e)
<1> DEFINE N == Len(f)
           At(k) == /\ f[k] = FrameWord(3 * q + (k - b + 1))
                    /\ h[k] = h[b - 1] \o SubSeq(f, b, k)
                    /\ off + Len(h[k]) = 3 * q + (k - b + 1)
<1>0. /\ f \in Seq(AnyEntry) /\ N \in Nat /\ b \in Nat /\ off \in Nat /\ e \in Nat
      /\ b <= e /\ e <= N /\ b >= 1 /\ e <= b + 2
  BY DEF OfFrames
<1>1. ASSUME NEW k \in b .. N PROVE SubSeq(f, b, k) \in Seq(AnyEntry)
  BY <1>0, <1>1, SubMore
<1>2. h[b - 1] \in Seq(AnyEntry)
  <2>1. b - 1 \in 0 .. N
    BY <1>0
  <2> QED
    BY <2>1 DEF OfFrames
<1>3. At(b)
  <2>1. b - 1 \in 0 .. N - 1 /\ (b - 1) + 1 = b /\ b - b + 1 = 1
    BY <1>0
  <2> DEFINE k == b - 1
  <2>2. k \in 0 .. N - 1 /\ k + 1 = b
    BY <2>1
  <2> HIDE DEF k
  <2>3. f[k + 1].from # "pad" => /\ f[k + 1] = FrameWord(off + (Len(h[k]) + 1))
                                 /\ h[k + 1] = Append(h[k], f[k + 1])
    BY <2>2, WordAt
  <2>8. Len(h[b - 1]) \in Nat
    BY <1>2
  <2>9. off + (Len(h[b - 1]) + 1) = 3 * q + 1
    BY <1>0, <2>8
  <2>4. f[b] = FrameWord(3 * q + 1) /\ h[b] = Append(h[b - 1], f[b])
    BY <2>2, <2>3, <2>9 DEF k
  <2>5. SubSeq(f, b, b) = <<f[b]>> /\ f[b] \in AnyEntry
    BY <1>0, SubMore
  <2>6. \A w \in Seq(AnyEntry), x \in AnyEntry : Append(w, x) = w \o <<x>> /\ Len(Append(w, x)) = Len(w) + 1
    OBVIOUS
  <2>7. h[b] = h[b - 1] \o SubSeq(f, b, b) /\ Len(h[b]) = Len(h[b - 1]) + 1
    BY <1>2, <2>4, <2>5, <2>6
  <2> QED
    BY <2>1, <2>4, <2>7, <2>9
<1>4. ASSUME NEW k \in b .. b + 1, k < e, At(k) PROVE At(k + 1)
  <2>0. k \in b .. N /\ k \in 0 .. N - 1 /\ k + 1 \in 1 .. N /\ k \in 1 .. N /\ k - b + 1 \in 1 .. 2
    <3>1. k \in Int /\ b <= k /\ k <= b + 1 /\ k < e
      BY <1>0, <1>4
    <3> HIDE DEF N
    <3> QED
      BY ONLY <1>0, <3>1
  <2> DEFINE z == k - b + 1
  <2>1. f[k].from = "lane" /\ f[k].part # 3
    <3>1. z \in 1 .. 3 /\ z # 3 /\ f[k] = FrameWord(3 * q + z)
      BY <1>4, <2>0
    <3> HIDE DEF z
    <3>2. FrameWord(3 * q + z).from = "lane" /\ FrameWord(3 * q + z).part = z
      BY <3>1, FrameParts
    <3> QED
      BY <3>1, <3>2
  <2>2. f[k + 1].from # "pad"
    <3>1. \A m \in b + 1 .. e : f[m].from = "pad" => f[m - 1].from = "pad" \/ f[m - 1].part = 3
      BY DEF Untorn
    <3>2. k + 1 \in b + 1 .. e /\ (k + 1) - 1 = k
      BY <1>0, <1>4, <2>0
    <3> QED
      BY <2>1, <3>1, <3>2
  <2>3. f[k + 1] = FrameWord(off + (Len(h[k]) + 1)) /\ h[k + 1] = Append(h[k], f[k + 1])
    <3>1. k \in 0 .. Len(f) - 1 /\ OfFrames(f, h, off)
      BY <2>0
    <3> QED
      BY ONLY <2>2, <3>1, WordAt
  <2>4. off + (Len(h[k]) + 1) = 3 * q + ((k + 1) - b + 1)
    <3>1. Len(h[k]) \in Nat
      <4>1. k \in 0 .. N
        BY <1>0, <2>0
      <4>2. h[k] \in Seq(AnyEntry)
        BY <4>1 DEF OfFrames
      <4> QED
        BY <4>2
    <3>2. off + Len(h[k]) = 3 * q + (k - b + 1)
      BY <1>4
    <3>3. \A n \in Nat : off + n = 3 * q + (k - b + 1) => off + (n + 1) = 3 * q + ((k + 1) - b + 1)
      <4>1. k \in Int /\ b \in Int
        BY <1>0
      <4> QED
        BY ONLY <1>0, <4>1, q \in Nat
    <3> QED
      BY ONLY <3>1, <3>2, <3>3
  <2>5. SubSeq(f, b, k + 1) = Append(SubSeq(f, b, k), f[k + 1]) /\ SubSeq(f, b, k) \in Seq(AnyEntry)
    BY <1>0, <1>4, <2>0, SubMore
  <2>6. f[k + 1] \in AnyEntry
    BY <1>0, <2>0
  <2>7. h[k] = h[b - 1] \o SubSeq(f, b, k)
    BY <1>4
  <2>8. /\ Append(h[b - 1] \o SubSeq(f, b, k), f[k + 1]) = h[b - 1] \o Append(SubSeq(f, b, k), f[k + 1])
        /\ Len(Append(h[b - 1] \o SubSeq(f, b, k), f[k + 1])) = Len(h[b - 1] \o SubSeq(f, b, k)) + 1
    BY ONLY <1>2, <2>5, <2>6, AppendConcat
  <2>9. h[k + 1] = h[b - 1] \o SubSeq(f, b, k + 1) /\ Len(h[k + 1]) = Len(h[k]) + 1
    BY ONLY <2>3, <2>5, <2>7, <2>8
  <2> QED
    BY <2>3, <2>4, <2>9
<1> HIDE DEF At
<1>5. e \in b .. N /\ e \in b .. b + 2 /\ e - b + 1 \in 1 .. 3
  BY <1>0
<1>6. ASSUME NEW k \in b .. e PROVE At(k)
  <2>1. CASE k = b
    BY <1>3, <2>1
  <2>2. CASE k = b + 1
    <3>1. b \in b .. b + 1 /\ b < e
      BY <1>0, <1>5, <2>2
    <3> QED
      BY <1>3, <1>4, <2>2, <3>1
  <2>3. CASE k = b + 2
    <3> DEFINE k1 == b + 1
    <3>1. b \in b .. b + 1 /\ b < e /\ k1 \in b .. b + 1 /\ k1 < e /\ k = k1 + 1 /\ k1 = b + 1
      BY <1>0, <1>5, <2>3
    <3>2. At(k1)
      BY <1>3, <1>4, <3>1
    <3> HIDE DEF k1
    <3> QED
      BY <1>4, <3>1, <3>2
  <2> QED
    BY <1>0, <1>5, <2>1, <2>2, <2>3
<1> DEFINE s == SubSeq(f, b, e)
<1>7. s \in Seq(AnyEntry) /\ Len(s) = e - b + 1 /\ \A m \in 1 .. e - b + 1 : s[m] = f[b + m - 1]
  BY <1>0, <1>5, SubMore
<1> HIDE DEF s
<1>8. ASSUME NEW m \in 1 .. e - b + 1 PROVE s[m] = FrameWord(3 * q + m) /\ m \in 1 .. 3
  <2>1. b + m - 1 \in b .. e /\ (b + m - 1) - b + 1 = m /\ m \in 1 .. 3
    <3>1. m \in 1 .. e - b + 1
      OBVIOUS
    <3> HIDE DEF N
    <3> QED
      BY ONLY <1>0, <1>5, <3>1
  <2> DEFINE k == b + m - 1
  <2>2. k \in b .. e /\ k - b + 1 = m /\ s[m] = f[k]
    BY <1>7, <2>1
  <2> HIDE DEF k
  <2>3. At(k)
    BY <1>6, <2>2
  <2> QED
    BY <2>1, <2>2, <2>3 DEF At
<1>9. PartOfFrame(s)
  <2>1. DOMAIN s = 1 .. e - b + 1 /\ 1 \in 1 .. e - b + 1
    BY <1>5, <1>7
  <2>2. \A m \in 1 .. e - b + 1 : s[m].part = m /\ s[m].frame = q + 1
    <3> SUFFICES ASSUME NEW m \in 1 .. e - b + 1 PROVE s[m].part = m /\ s[m].frame = q + 1
      OBVIOUS
    <3>1. s[m] = FrameWord(3 * q + m) /\ m \in 1 .. 3
      BY <1>8
    <3>2. FrameWord(3 * q + m).part = m /\ FrameWord(3 * q + m).frame = q + 1
      BY <3>1, FrameParts
    <3> QED
      BY <3>1, <3>2
  <2> QED
    BY <2>1, <2>2 DEF PartOfFrame
<1>10. f[b].value = 2
  <2>1. f[b] = FrameWord(3 * q + 1)
    BY <1>0, <1>3 DEF At
  <2>2. 1 \in 1 .. 3
    OBVIOUS
  <2> QED
    BY <2>1, <2>2, FrameParts
<1>11. At(e)
  <2>1. e \in b .. e
    BY <1>5
  <2> QED
    BY <1>6, <2>1
<1> QED
  BY <1>5, <1>7, <1>9, <1>10, <1>11 DEF At, s, PieceAt

-----------------------------------------------------------------------------
(* Packets that are frames, the last one perhaps a part of one.            *)
Split(hits) ==
    /\ hits \in Seq(Seq(AnyEntry))
    /\ \A k \in 1 .. Len(hits) : PartOfFrame(hits[k]) /\ (k < Len(hits) => Len(hits[k]) = 3)

LEMMA SplitFirst ==
    ASSUME NEW s \in Seq(AnyEntry), PartOfFrame(s), NEW rest, Split(rest),
           rest = <<>> \/ Len(s) = 3
    PROVE  Split(<<s>> \o rest)
<1> DEFINE all == <<s>> \o rest
<1>1. rest \in Seq(Seq(AnyEntry)) /\ Len(rest) \in Nat
  BY DEF Split
<1>2. /\ all \in Seq(Seq(AnyEntry)) /\ Len(all) = Len(rest) + 1 /\ all[1] = s
      /\ \A k \in 2 .. Len(rest) + 1 : all[k] = rest[k - 1]
  BY <1>1
<1>3. ASSUME NEW k \in 1 .. Len(all)
      PROVE  PartOfFrame(all[k]) /\ (k < Len(all) => Len(all[k]) = 3)
  <2>1. CASE k = 1
    <3>1. rest = <<>> => Len(rest) = 0
      OBVIOUS
    <3> HIDE DEF all
    <3> QED
      BY <1>1, <1>2, <2>1, <3>1
  <2>2. CASE k # 1
    <3>1. k \in 2 .. Len(rest) + 1 /\ k - 1 \in 1 .. Len(rest)
      BY <1>1, <1>2, <2>2
    <3>2. PartOfFrame(rest[k - 1]) /\ (k - 1 < Len(rest) => Len(rest[k - 1]) = 3)
      BY <3>1 DEF Split
    <3> HIDE DEF all
    <3> QED
      BY <1>1, <1>2, <3>1, <3>2
  <2> QED
    BY <2>1, <2>2
<1> HIDE DEF all
<1>4. Split(all)
  BY <1>2, <1>3 DEF Split
<1> QED
  BY <1>4 DEF all

(* Position b of f is between frames, or nothing but fill words is before. *)
Between(h, off, b) ==
    Len(h[b - 1]) = 0 \/ \E q \in Nat : off + Len(h[b - 1]) = 3 * q

LEMMA FrameBegins ==
    ASSUME NEW f, NEW h, NEW off, OfFrames(f, h, off), NEW b \in 1 .. Len(f),
           f[b].from # "pad", Between(h, off, b)
    PROVE  \E q \in Nat : off + Len(h[b - 1]) = 3 * q
<1>0. f \in Seq(AnyEntry) /\ Len(f) \in Nat /\ off \in Nat /\ b \in Nat
  BY DEF OfFrames
<1> SUFFICES ASSUME Len(h[b - 1]) = 0 PROVE \E q \in Nat : off + Len(h[b - 1]) = 3 * q
  BY DEF Between
<1>1. ASSUME NEW m \in 1 .. b - 1 PROVE f[m].from = "pad"
  <2> SUFFICES ASSUME f[m].from # "pad" PROVE FALSE
    OBVIOUS
  <2> DEFINE k == m - 1
  <2>1. k \in 0 .. Len(f) - 1 /\ k + 1 = m /\ m \in 0 .. Len(f) /\ b - 1 \in m .. Len(f)
        /\ b - 1 \in 0 .. Len(f)
    BY <1>0
  <2> HIDE DEF k
  <2>2. h[m] = Append(h[k], f[m]) /\ h[k] \in Seq(AnyEntry) /\ f[m] \in AnyEntry
    <3>1. /\ f[k + 1] \in AnyEntry /\ h[k] \in Seq(AnyEntry)
          /\ f[k + 1].from # "pad" => h[k + 1] = Append(h[k], f[k + 1])
      BY <2>1, WordAt
    <3> QED
      BY <2>1, <3>1
  <2>3. Len(h[m]) \in Nat /\ Len(h[m]) > 0 /\ h[m] \in Seq(AnyEntry)
    BY <2>2
  <2>4. IsPrefix(h[m], h[b - 1])
    <3>1. PadChain(f, h) /\ \A n \in 0 .. Len(f) : h[n] \in Seq(AnyEntry)
      BY DEF OfFrames
    <3> QED
      BY <1>0, <2>1, <3>1, PadChainGrows
  <2>5. Len(h[m]) <= Len(h[b - 1])
    <3>1. h[b - 1] \in Seq(AnyEntry)
      BY <2>1 DEF OfFrames
    <3> QED
      BY <2>3, <2>4, <3>1, PrefixIs
  <2> QED
    BY <2>3, <2>5
<1>2. f[b].part = 1
  <2>1. \A k \in DOMAIN f : f[k].from # "pad" /\ (\A m \in 1 .. k - 1 : f[m].from = "pad")
                              => f[k].part = 1
    BY DEF OfFrames, BeginsWithFrame
  <2>2. b \in DOMAIN f
    BY <1>0
  <2> QED
    BY <1>1, <2>1, <2>2
<1>3. f[b] = FrameWord(off + 1)
  <2> DEFINE k == b - 1
  <2>1. k \in 0 .. Len(f) - 1 /\ k + 1 = b /\ Len(h[k]) = 0
    BY <1>0
  <2> HIDE DEF k
  <2>2. f[b] = FrameWord(off + (Len(h[k]) + 1))
    BY <2>1, WordAt
  <2> QED
    BY <2>1, <2>2
<1>4. off % 3 = 0
  <2>1. (off + 1) - 1 = off
    BY <1>0
  <2>2. FrameWord(off + 1).part = (off % 3) + 1
    BY <2>1 DEF FrameWord
  <2>3. off % 3 \in Nat
    BY <1>0
  <2> QED
    BY <1>2, <1>3, <2>2, <2>3
<1> DEFINE q == off \div 3
<1>5. q \in Nat /\ off = 3 * q
  BY <1>0, <1>4
<1> HIDE DEF q
<1> QED
  BY <1>0, <1>5

(* What is found from position b on, when b is between frames.             *)
Found(h, off, it, n, b) ==
    Between(h, off, b) => Split(it[b]) /\ h[b - 1] \o FlattenSeq(it[b]) = h[n]

LEMMA FoundEnd ==
    ASSUME NEW f, NEW h, NEW off, OfFrames(f, h, off), NEW it, Solves(f, it, 1)
    PROVE  Found(h, off, it, Len(f), Len(f) + 1)
<1>0. f \in Seq(AnyEntry) /\ Len(f) \in Nat
  BY DEF OfFrames
<1> DEFINE b == Len(f) + 1
<1>1. b \in 1 .. Len(f) + 1 /\ b > Len(f) /\ b - 1 = Len(f) /\ Len(f) \in 0 .. Len(f)
  BY <1>0
<1> HIDE DEF b
<1>2. it[b] = <<>>
  BY <1>1 DEF Solves, HitsFrom
<1>3. h[Len(f)] \in Seq(AnyEntry)
  BY <1>1 DEF OfFrames
<1>4. h[Len(f)] \o <<>> = h[Len(f)]
  BY <1>3
<1>5. Split(<<>>)
  BY DEF Split
<1> QED
  BY <1>1, <1>2, <1>4, <1>5, FlattenNothing DEF Found, b

LEMMA FoundPad ==
    ASSUME NEW f, NEW h, NEW off, OfFrames(f, h, off), NEW it, Solves(f, it, 1), NEW b \in 1 .. Len(f),
           f[b].from = "pad", Found(h, off, it, Len(f), b + 1)
    PROVE  Found(h, off, it, Len(f), b)
<1>0. f \in Seq(AnyEntry) /\ Len(f) \in Nat /\ MaxPacket \in 2 .. 254
  BY DEF OfFrames
<1> DEFINE k == b - 1
<1>1. k \in 0 .. Len(f) - 1 /\ k + 1 = b /\ (b + 1) - 1 = b /\ b \in 1 .. Len(f) + 1 /\ ~(b > Len(f))
  BY <1>0
<1> HIDE DEF k
<1>2. f[k + 1].from = "pad" => f[k + 1].value = 255 /\ h[k + 1] = h[k]
  BY <1>1, WordAt
<1>3. f[b].value = 255 /\ h[b] = h[b - 1]
  BY <1>1, <1>2 DEF k
<1>4. it[b] = HitsFrom(f, it, b)
  BY <1>1 DEF Solves
<1>5. f[b].value > MaxPacket
  <2>1. \A v : v = 255 => v > MaxPacket
    BY <1>0
  <2> QED
    BY <1>3, <2>1
<1>6. it[b] = it[b + 1]
  BY <1>1, <1>4, <1>5 DEF HitsFrom
<1>7. h[(b + 1) - 1] = h[b - 1]
  BY <1>1, <1>3
<1> QED
  BY <1>6, <1>7 DEF Found, Between

LEMMA FoundFrame ==
    ASSUME NEW f, NEW h, NEW off, OfFrames(f, h, off), NEW it, Solves(f, it, 1), NEW b \in 1 .. Len(f),
           f[b].from # "pad", PadsBetweenFrames(f),
           \A c \in b + 1 .. Len(f) + 1 : Found(h, off, it, Len(f), c)
    PROVE  Found(h, off, it, Len(f), b)
<1> DEFINE N == Len(f)
<1>0. f \in Seq(AnyEntry) /\ N \in Nat /\ MaxPacket \in 2 .. 254 /\ b \in 1 .. N
  BY DEF OfFrames
<1> SUFFICES ASSUME Between(h, off, b)
             PROVE  Split(it[b]) /\ h[b - 1] \o FlattenSeq(it[b]) = h[N]
  BY DEF Found
<1>10. PICK q \in Nat : off + Len(h[b - 1]) = 3 * q
  BY FrameBegins
<1> DEFINE e == IF b + 2 > N THEN N ELSE b + 2
           s == SubSeq(f, b, e)
<1>9. e = IF b + 2 > N THEN N ELSE b + 2
  OBVIOUS
<1> HIDE DEF e
<1>1. /\ f[b].value = 2 /\ e \in b .. N /\ e - b + 1 \in 1 .. 3
      /\ s \in Seq(AnyEntry) /\ Len(s) = e - b + 1 /\ PartOfFrame(s)
      /\ h[e] = h[b - 1] \o s /\ off + Len(h[e]) = 3 * q + (e - b + 1)
  <2>1. e \in b .. N /\ e <= b + 2
    BY <1>0, <1>9
  <2>2. Untorn(f, b, e)
    <3>1. SubSeq(f, 1, N) = f /\ N \in 1 .. Len(f) /\ b \in 1 .. N
      BY <1>0, SubSeqFull
    <3> QED
      BY <1>0, <2>1, <3>1, PadsUntorn
  <2>3. PieceAt(f, h, off, b, q, e)
    BY <1>10, <2>1, <2>2, NextFrame
  <2> QED
    BY <2>3 DEF PieceAt
<1>2. it[b] = <<s>> \o it[e + 1]
  <2>1. it[b] = HitsFrom(f, it, b)
    BY <1>0 DEF Solves
  <2>2. ~(b > N) /\ ~(f[b].value > MaxPacket)
    <3>1. ~(2 > MaxPacket)
      BY ONLY <1>0
    <3> QED
      BY <1>0, <1>1, <3>1
  <2>3. HitsFrom(f, it, b) = LET d == IF b + f[b].value > N THEN N ELSE b + f[b].value
                             IN <<SubSeq(f, b, d)>> \o it[d + 1]
    BY <2>2 DEF HitsFrom
  <2> QED
    BY <1>1, <1>9, <2>1, <2>3
<1>3. e < N => e = b + 2
  BY <1>0, <1>9
<1> HIDE DEF s
<1>4. Split(it[e + 1]) /\ (it[e + 1] = <<>> \/ Len(s) = 3)
      /\ h[e] \o FlattenSeq(it[e + 1]) = h[N]
  <2>1. CASE e < N
    <3>1. e + 1 \in b + 1 .. N + 1 /\ (e + 1) - 1 = e /\ Len(s) = 3 /\ off + Len(h[e]) = 3 * (q + 1)
      BY <1>0, <1>1, <1>3, <2>1
    <3>2. Found(h, off, it, N, e + 1)
      BY <3>1
    <3>3. q + 1 \in Nat
      OBVIOUS
    <3> QED
      BY <3>1, <3>2, <3>3 DEF Found, Between
  <2>2. CASE ~(e < N)
    <3>1. e = N /\ e + 1 \in 1 .. N + 1 /\ e + 1 > N /\ N \in 0 .. N
      BY <1>0, <1>1, <2>2
    <3>2. it[e + 1] = <<>>
      BY <3>1 DEF Solves, HitsFrom
    <3>3. h[N] \in Seq(AnyEntry)
      BY <3>1 DEF OfFrames
    <3>4. h[N] \o <<>> = h[N]
      BY <3>3
    <3>5. Split(<<>>)
      BY DEF Split
    <3> QED
      BY <3>1, <3>2, <3>4, <3>5, FlattenNothing
  <2> QED
    BY <2>1, <2>2
<1>5. Split(it[b])
  <2>1. Split(<<s>> \o it[e + 1])
    BY <1>1, <1>4, SplitFirst
  <2> QED
    BY <1>2, <2>1
<1>6. h[b - 1] \o FlattenSeq(it[b]) = h[N]
  <2> DEFINE r == it[e + 1]
             fr == FlattenSeq(r)
  <2>1. r \in Seq(Seq(AnyEntry))
    BY <1>4 DEF Split
  <2>2. fr \in Seq(AnyEntry) /\ FlattenSeq(<<s>> \o r) = s \o fr
    BY <1>1, <2>1, FlattenFirst
  <2>3. h[b - 1] \in Seq(AnyEntry)
    <3>1. b - 1 \in 0 .. N
      BY <1>0
    <3> QED
      BY <3>1 DEF OfFrames
  <2> HIDE DEF fr
  <2>4. (h[b - 1] \o s) \o fr = h[b - 1] \o (s \o fr)
    <3>1. \A x \in Seq(AnyEntry), y \in Seq(AnyEntry), z \in Seq(AnyEntry) : (x \o y) \o z = x \o (y \o z)
      OBVIOUS
    <3> QED
      BY <1>1, <2>2, <2>3, <3>1
  <2> QED
    BY <1>1, <1>2, <1>4, <2>2, <2>4 DEF fr
<1> QED
  BY <1>5, <1>6

LEMMA HitsAreFrames ==
    ASSUME NEW f, NEW h, NEW off, OfFrames(f, h, off), PadsBetweenFrames(f)
    PROVE  Split(list_hits(f)) /\ FlattenSeq(list_hits(f)) = h[Len(f)]
<1> DEFINE N == Len(f)
<1>0. f \in Seq(AnyEntry) /\ N \in Nat
  BY DEF OfFrames
<1>1. PICK it : list_hits(f) = it[1] /\ Solves(f, it, 1)
  BY <1>0, HitsAre
<1> DEFINE T == {n \in Nat : \A b \in 1 .. N + 1 : b >= N + 1 - n => Found(h, off, it, N, b)}
<1>2. 0 \in T
  <2>1. ASSUME NEW b \in 1 .. N + 1, b >= N + 1 - 0 PROVE Found(h, off, it, N, b)
    <3>1. b = N + 1
      BY <1>0, <2>1
    <3> QED
      BY <1>1, <3>1, FoundEnd
  <2> QED
    BY <2>1
<1>3. ASSUME NEW n \in Nat, n \in T PROVE n + 1 \in T
  <2>1. ASSUME NEW b \in 1 .. N + 1, b >= N + 1 - (n + 1) PROVE Found(h, off, it, N, b)
    <3>1. \A c \in b + 1 .. N + 1 : c \in 1 .. N + 1 /\ c >= N + 1 - n
      BY <1>0, <2>1
    <3>2. \A c \in b + 1 .. N + 1 : Found(h, off, it, N, c)
      BY <1>3, <3>1
    <3>3. CASE b = N + 1
      BY <1>1, <3>3, FoundEnd
    <3>4. CASE b # N + 1
      <4>1. b \in 1 .. N /\ b + 1 \in b + 1 .. N + 1
        BY <1>0, <3>4
      <4>2. CASE f[b].from = "pad"
        <5>1. Found(h, off, it, N, b + 1)
          BY <3>2, <4>1
        <5> QED
          BY <1>1, <4>1, <4>2, <5>1, FoundPad
      <4>3. CASE f[b].from # "pad"
        BY <1>1, <3>2, <4>1, <4>3, FoundFrame
      <4> QED
        BY <4>2, <4>3
    <3> QED
      BY <3>3, <3>4
  <2> QED
    BY <2>1
<1> HIDE DEF T
<1>4. N \in T
  BY <1>0, <1>2, <1>3, Induction
<1>5. Found(h, off, it, N, 1)
  <2>1. 1 \in 1 .. N + 1 /\ 1 >= N + 1 - N
    BY <1>0
  <2> QED
    BY <1>4, <2>1 DEF T
<1>6. h[0] = <<>> /\ Len(h[0]) = 0
  <2>1. h[0] = <<>> /\ Len(<<>>) = 0
    BY DEF OfFrames, PadChain
  <2> QED
    BY <2>1
<1>7. Split(it[1]) /\ h[0] \o FlattenSeq(it[1]) = h[N]
  <2>1. 1 - 1 = 0
    OBVIOUS
  <2> QED
    BY <1>5, <1>6, <2>1 DEF Found, Between
<1>8. FlattenSeq(it[1]) \in Seq(AnyEntry)
  <2>1. it[1] \in Seq(Seq(AnyEntry)) /\ <<>> \in Seq(AnyEntry)
    BY <1>7 DEF Split
  <2> QED
    BY <2>1, FlattenFirst
<1>9. <<>> \o FlattenSeq(it[1]) = FlattenSeq(it[1])
  BY <1>8
<1> QED
  BY <1>1, <1>6, <1>7, <1>9

(* Packets are sequences of words.                                         *)
LEMMA HitsSeq ==
    ASSUME NEW f \in Seq(AnyEntry), NEW it, Solves(f, it, 1)
    PROVE  \A b \in 1 .. Len(f) + 1 : it[b] \in Seq(Seq(AnyEntry))
<1> DEFINE N == Len(f)
           T == {n \in Nat : \A b \in 1 .. N + 1 : b >= N + 1 - n => it[b] \in Seq(Seq(AnyEntry))}
<1>0. N \in Nat
  OBVIOUS
<1>1. ASSUME NEW b \in 1 .. N + 1, \A c \in b + 1 .. N + 1 : it[c] \in Seq(Seq(AnyEntry))
      PROVE  it[b] \in Seq(Seq(AnyEntry))
  <2>1. it[b] = HitsFrom(f, it, b)
    BY DEF Solves
  <2>2. CASE b > N
    BY <2>1, <2>2 DEF HitsFrom
  <2>3. CASE ~(b > N)
    <3>1. b \in 1 .. N /\ b + 1 \in b + 1 .. N + 1 /\ f[b] \in AnyEntry
      BY <1>0, <2>3
    <3>2. f[b].value \in Nat
      BY <3>1 DEF AnyEntry, Entry, Pad
    <3>3. CASE f[b].value > MaxPacket
      BY <1>1, <2>1, <2>3, <3>1, <3>3 DEF HitsFrom
    <3>4. CASE ~(f[b].value > MaxPacket)
      <4> DEFINE e == IF b + f[b].value > N THEN N ELSE b + f[b].value
                 s == SubSeq(f, b, e)
      <4>1. e \in b .. N /\ e + 1 \in b + 1 .. N + 1
        BY <1>0, <3>1, <3>2
      <4>2. it[b] = <<s>> \o it[e + 1]
        BY <2>1, <2>3, <3>4 DEF HitsFrom
      <4> HIDE DEF e
      <4>3. s \in Seq(AnyEntry)
        BY <3>1, <4>1, SubMore
      <4> HIDE DEF s
      <4>4. it[e + 1] \in Seq(Seq(AnyEntry))
        BY <1>1, <4>1
      <4> QED
        BY <4>2, <4>3, <4>4, FlattenFirst
    <3> QED
      BY <3>3, <3>4
  <2> QED
    BY <2>2, <2>3
<1>2. 0 \in T
  <2>1. ASSUME NEW b \in 1 .. N + 1, b >= N + 1 - 0 PROVE it[b] \in Seq(Seq(AnyEntry))
    <3>1. \A c \in b + 1 .. N + 1 : FALSE
      BY <1>0, <2>1
    <3> QED
      BY <1>1, <3>1
  <2> QED
    BY <2>1
<1>3. ASSUME NEW n \in Nat, n \in T PROVE n + 1 \in T
  <2>1. ASSUME NEW b \in 1 .. N + 1, b >= N + 1 - (n + 1) PROVE it[b] \in Seq(Seq(AnyEntry))
    <3>1. \A c \in b + 1 .. N + 1 : c \in 1 .. N + 1 /\ c >= N + 1 - n
      BY <1>0, <2>1
    <3>2. \A c \in b + 1 .. N + 1 : it[c] \in Seq(Seq(AnyEntry))
      BY <1>3, <3>1
    <3> QED
      BY <1>1, <3>2
  <2> QED
    BY <2>1
<1> HIDE DEF T
<1>4. N \in T
  BY <1>0, <1>2, <1>3, Induction
<1>5. \A b \in 1 .. N + 1 : b >= N + 1 - N
  BY <1>0
<1> QED
  BY <1>4, <1>5 DEF T

LEMMA InFront ==
    ASSUME NEW S, NEW s \in S, NEW r \in Seq(S)
    PROVE  /\ s \in ToSet(<<s>> \o r)
           /\ \A x \in ToSet(r) : x \in ToSet(<<s>> \o r)
<1> DEFINE w == <<s>> \o r
<1>1. /\ Len(r) \in Nat /\ Len(w) = Len(r) + 1 /\ DOMAIN w = 1 .. Len(w) /\ w[1] = s
      /\ \A k \in 1 .. Len(r) : w[k + 1] = r[k]
  OBVIOUS
<1> HIDE DEF w
<1>2. ToSet(w) = {w[k] : k \in DOMAIN w} /\ ToSet(r) = {r[k] : k \in DOMAIN r}
  BY DEF ToSet
<1>3. 1 \in DOMAIN w
  BY <1>1
<1>4. ASSUME NEW x \in ToSet(r) PROVE x \in ToSet(w)
  <2>1. PICK k \in DOMAIN r : x = r[k]
    BY <1>2
  <2>2. k \in 1 .. Len(r) /\ k + 1 \in DOMAIN w
    BY <1>1, <2>1
  <2> QED
    BY <1>1, <1>2, <2>1, <2>2
<1> QED
  BY <1>1, <1>2, <1>3, <1>4 DEF w

(* The frame at n is among the packets found from b on.                    *)
Seen(f, h, off, it, n, b) ==
    Between(h, off, b) => SubSeq(f, n, n + 2) \in ToSet(it[b])

(* The first word of a frame, and its packet.                              *)
LEMMA FrameHere ==
    ASSUME NEW f, NEW h, NEW off, OfFrames(f, h, off), NEW it, Solves(f, it, 1),
           NEW n \in DOMAIN f, FrameAt(f, n)
    PROVE  /\ f[n].part = 1 /\ n + 2 <= Len(f)
           /\ SubSeq(f, n, n + 2) \in ToSet(it[n])
<1> DEFINE N == Len(f)
           s == SubSeq(f, n, n + 2)
<1>0. f \in Seq(AnyEntry) /\ N \in Nat /\ MaxPacket \in 2 .. 254 /\ off \in Nat
  BY DEF OfFrames
<1>1. n \in 1 .. N /\ n + 2 \in 1 .. N /\ n + 2 \in n .. N
  BY <1>0 DEF FrameAt
<1>2. s \in Seq(AnyEntry) /\ Len(s) = 3 /\ s[1] = f[n]
  BY <1>0, <1>1
<1>3. f[n].part = 1
  <2>1. \A k \in DOMAIN s : s[k].part = k
    BY DEF FrameAt, PartOfFrame
  <2> HIDE DEF s
  <2>2. 1 \in DOMAIN s
    BY <1>2
  <2> QED
    BY <1>2, <2>1, <2>2
<1>4. f[n].value = 2
  <2> DEFINE k == n - 1
             m == Len(h[k]) + 1
  <2>1. k \in 0 .. N - 1 /\ k + 1 = n /\ k \in 0 .. N
    BY <1>0, <1>1
  <2> HIDE DEF k
  <2>2. /\ f[k + 1] \in AnyEntry /\ h[k] \in Seq(AnyEntry)
        /\ f[k + 1].from # "pad" => f[k + 1] = FrameWord(off + m)
    BY <2>1, WordAt
  <2>3. f[n].from # "pad"
    <3>1. f[n] = Pad \/ f[n].from # "pad"
      BY <2>1, <2>2 DEF AnyEntry, Entry
    <3> QED
      BY <1>3, <3>1 DEF Pad
  <2>4. m \in Nat
    BY <2>2
  <2>5. f[n] = FrameWord(off + m)
    BY <2>1, <2>2, <2>3
  <2> HIDE DEF m
  <2> DEFINE d == ((off + m) - 1) % 3
  <2>6. FrameWord(off + m).part = d + 1 /\ FrameWord(off + m).value = IF d = 0 THEN 2 ELSE 9
    <3>1. \A x : /\ FrameWord(x).part = ((x - 1) % 3) + 1
                 /\ FrameWord(x).value = IF (x - 1) % 3 = 0 THEN 2 ELSE 9
      BY DEF FrameWord
    <3> QED
      BY <3>1
  <2>7. d \in Int
    BY <1>0, <2>4
  <2> HIDE DEF d
  <2> QED
    BY <1>3, <2>5, <2>6, <2>7
<1>5. it[n] = <<s>> \o it[n + 3]
  <2>1. it[n] = HitsFrom(f, it, n)
    BY <1>0, <1>1 DEF Solves
  <2>2. ~(n > N) /\ ~(2 > MaxPacket) /\ ~(n + 2 > N) /\ n + 2 + 1 = n + 3
    BY ONLY <1>0, <1>1
  <2>3. HitsFrom(f, it, n) = <<SubSeq(f, n, n + 2)>> \o it[n + 2 + 1]
    BY <1>4, <2>2 DEF HitsFrom
  <2> QED
    BY <2>1, <2>2, <2>3
<1>6. it[n + 3] \in Seq(Seq(AnyEntry))
  <2>1. n + 3 \in 1 .. N + 1
    BY <1>0, <1>1
  <2> QED
    BY <1>0, <2>1, HitsSeq
<1> HIDE DEF s
<1>7. s \in ToSet(it[n])
  BY <1>2, <1>5, <1>6, InFront
<1> QED
  BY <1>0, <1>1, <1>3, <1>7 DEF s

LEMMA SeenPad ==
    ASSUME NEW f, NEW h, NEW off, OfFrames(f, h, off), NEW it, Solves(f, it, 1),
           NEW n \in DOMAIN f, NEW b \in 1 .. Len(f), f[b].from = "pad",
           Seen(f, h, off, it, n, b + 1)
    PROVE  Seen(f, h, off, it, n, b)
<1>0. f \in Seq(AnyEntry) /\ Len(f) \in Nat /\ MaxPacket \in 2 .. 254
  BY DEF OfFrames
<1> DEFINE k == b - 1
<1>1. k \in 0 .. Len(f) - 1 /\ k + 1 = b /\ (b + 1) - 1 = b /\ b \in 1 .. Len(f) + 1 /\ ~(b > Len(f))
  BY <1>0
<1> HIDE DEF k
<1>2. f[k + 1].from = "pad" => f[k + 1].value = 255 /\ h[k + 1] = h[k]
  <2>1. k \in 0 .. Len(f) - 1
    BY <1>1
  <2> QED
    BY <2>1, WordAt
<1>3. f[b].value = 255 /\ h[b] = h[b - 1]
  BY <1>1, <1>2 DEF k
<1>4. it[b] = HitsFrom(f, it, b)
  BY <1>1 DEF Solves
<1>5. f[b].value > MaxPacket
  <2>1. \A v : v = 255 => v > MaxPacket
    BY <1>0
  <2> QED
    BY <1>3, <2>1
<1>6. it[b] = it[b + 1]
  BY <1>1, <1>4, <1>5 DEF HitsFrom
<1>7. h[(b + 1) - 1] = h[b - 1]
  BY <1>1, <1>3
<1> QED
  BY <1>6, <1>7 DEF Seen, Between

LEMMA SeenFrame ==
    ASSUME NEW f, NEW h, NEW off, OfFrames(f, h, off), NEW it, Solves(f, it, 1),
           NEW n \in DOMAIN f, FrameAt(f, n), PadsBetweenFrames(SubSeq(f, 1, n)),
           NEW b \in 1 .. n - 1, f[b].from # "pad",
           \A c \in b + 1 .. n : Seen(f, h, off, it, n, c)
    PROVE  Seen(f, h, off, it, n, b)
<1> DEFINE N == Len(f)
<1>0. /\ f \in Seq(AnyEntry) /\ N \in Nat /\ MaxPacket \in 2 .. 254 /\ off \in Nat
      /\ n \in 1 .. N /\ b \in 1 .. N /\ b \in 1 .. n /\ b + 1 \in b .. n /\ n \in Nat /\ b \in Nat
  <2>1. f \in Seq(AnyEntry) /\ MaxPacket \in 2 .. 254 /\ off \in Nat
    BY DEF OfFrames
  <2> QED
    BY <2>1
<1> SUFFICES ASSUME Between(h, off, b)
             PROVE  SubSeq(f, n, n + 2) \in ToSet(it[b])
  BY DEF Seen
<1>1. PICK q \in Nat : off + Len(h[b - 1]) = 3 * q
  <2>1. b \in 1 .. Len(f)
    BY <1>0
  <2> QED
    BY <2>1, FrameBegins
<1>2. f[n].part = 1
  BY FrameHere
<1>3. ASSUME NEW e \in b .. n, e <= b + 2
      PROVE  PieceAt(f, h, off, b, q, e)
  <2>1. e \in b .. N
    BY <1>0
  <2>2. Untorn(f, b, e)
    BY <1>0, PadsUntorn
  <2> QED
    BY <1>0, <1>1, <1>3, <2>1, <2>2, NextFrame
<1>4. ASSUME NEW e \in b .. n, e <= b + 2 PROVE f[e].part = e - b + 1
  <2> DEFINE s == SubSeq(f, b, e)
  <2>1. PartOfFrame(s)
    BY <1>3, <1>4 DEF PieceAt
  <2>2. e \in b .. N /\ e - b + 1 \in 1 .. e - b + 1 /\ b + (e - b + 1) - 1 = e
    BY <1>0
  <2>3. s \in Seq(AnyEntry) /\ Len(s) = e - b + 1 /\ \A m \in 1 .. e - b + 1 : s[m] = f[b + m - 1]
    BY <1>0, <2>2, SubMore
  <2> HIDE DEF s
  <2>4. e - b + 1 \in DOMAIN s
    BY <2>2, <2>3
  <2>5. s[e - b + 1].part = e - b + 1
    BY <2>1, <2>4 DEF PartOfFrame
  <2> QED
    BY <2>2, <2>3, <2>5
<1>5. n > b + 2
  <2>1. n # b + 1
    <3>1. n = b + 1 => n \in b .. n /\ n <= b + 2 /\ n - b + 1 = 2
      BY <1>0
    <3> QED
      BY <1>2, <1>4, <3>1
  <2>2. n # b + 2
    <3>1. n = b + 2 => n \in b .. n /\ n <= b + 2 /\ n - b + 1 = 3
      BY <1>0
    <3> QED
      BY <1>2, <1>4, <3>1
  <2> QED
    BY <1>0, <2>1, <2>2
<1> DEFINE e == b + 2
           s == SubSeq(f, b, e)
<1>6. e \in b .. n /\ e <= b + 2 /\ e + 1 \in b + 1 .. n /\ e + 1 \in 1 .. N + 1 /\ ~(e > N) /\ ~(b > N)
      /\ e - b + 1 = 3 /\ (e + 1) - 1 = e /\ e = b + 2
  BY <1>0, <1>5
<1> HIDE DEF e
<1>7. /\ f[b].value = 2 /\ s \in Seq(AnyEntry) /\ off + Len(h[e]) = 3 * q + 3
  BY <1>3, <1>6 DEF PieceAt
<1>8. it[b] = <<s>> \o it[e + 1]
  <2>1. it[b] = HitsFrom(f, it, b)
    BY <1>0 DEF Solves
  <2>2. ~(2 > MaxPacket)
    BY ONLY <1>0
  <2>3. HitsFrom(f, it, b) = <<SubSeq(f, b, b + 2)>> \o it[b + 2 + 1]
    BY <1>6, <1>7, <2>2 DEF HitsFrom
  <2> QED
    BY <1>6, <2>1, <2>3
<1>9. Between(h, off, e + 1)
  <2>1. 3 * q + 3 = 3 * (q + 1) /\ q + 1 \in Nat
    OBVIOUS
  <2> QED
    BY <1>6, <1>7, <2>1 DEF Between
<1>10. SubSeq(f, n, n + 2) \in ToSet(it[e + 1])
  BY <1>6, <1>9 DEF Seen
<1>11. it[e + 1] \in Seq(Seq(AnyEntry))
  BY <1>0, <1>6, HitsSeq
<1> HIDE DEF s
<1> QED
  BY <1>7, <1>8, <1>10, <1>11, InFront

LEMMA FramesAreHits ==
    ASSUME NEW f, NEW h, NEW off, OfFrames(f, h, off)
    PROVE  FramesFound(f)
<1> SUFFICES ASSUME NEW n \in DOMAIN f, FrameAt(f, n), PadsBetweenFrames(SubSeq(f, 1, n))
             PROVE  SubSeq(f, n, n + 2) \in ToSet(list_hits(f))
  BY DEF FramesFound
<1>0. f \in Seq(AnyEntry) /\ Len(f) \in Nat /\ n \in 1 .. Len(f)
  BY DEF OfFrames
<1>1. PICK it : list_hits(f) = it[1] /\ Solves(f, it, 1)
  BY <1>0, HitsAre
<1> DEFINE T == {d \in Nat : \A b \in 1 .. n : b >= n - d => Seen(f, h, off, it, n, b)}
<1>2. 0 \in T
  <2>1. ASSUME NEW b \in 1 .. n, b >= n - 0 PROVE Seen(f, h, off, it, n, b)
    <3>1. b = n
      BY <1>0, <2>1
    <3> QED
      BY <1>1, <3>1, FrameHere DEF Seen
  <2> QED
    BY <2>1
<1>3. ASSUME NEW d \in Nat, d \in T PROVE d + 1 \in T
  <2>1. ASSUME NEW b \in 1 .. n, b >= n - (d + 1) PROVE Seen(f, h, off, it, n, b)
    <3>1. \A c \in b + 1 .. n : c \in 1 .. n /\ c >= n - d
      BY <1>0, <2>1
    <3>2. \A c \in b + 1 .. n : Seen(f, h, off, it, n, c)
      BY <1>3, <3>1
    <3>3. CASE b = n
      BY <1>1, <3>3, FrameHere DEF Seen
    <3>4. CASE b # n
      <4>1. b \in 1 .. n - 1 /\ b + 1 \in b + 1 .. n /\ b \in 1 .. Len(f)
        BY <1>0, <3>4
      <4>2. CASE f[b].from = "pad"
        <5>1. Seen(f, h, off, it, n, b + 1)
          BY <3>2, <4>1
        <5> QED
          BY <1>1, <4>1, <4>2, <5>1, SeenPad
      <4>3. CASE f[b].from # "pad"
        BY <1>1, <3>2, <4>1, <4>3, SeenFrame
      <4> QED
        BY <4>2, <4>3
    <3> QED
      BY <3>3, <3>4
  <2> QED
    BY <2>1
<1> HIDE DEF T
<1>4. n \in T
  BY <1>0, <1>2, <1>3, Induction
<1>5. Seen(f, h, off, it, n, 1)
  <2>1. 1 \in 1 .. n /\ 1 >= n - n
    BY <1>0
  <2> QED
    BY <1>4, <2>1 DEF T
<1>6. Between(h, off, 1)
  <2>1. h[0] = <<>> /\ Len(<<>>) = 0 /\ 1 - 1 = 0
    BY DEF OfFrames, PadChain
  <2> QED
    BY <2>1 DEF Between
<1> QED
  BY <1>1, <1>5, <1>6 DEF Seen

(* One sequence after another.                                             *)
Joined(x, y) == x \o y

LEMMA JoinedNone == ASSUME NEW S, NEW x \in Seq(S) PROVE Joined(x, <<>>) = x
  BY DEF Joined

LEMMA JoinedTwice ==
    ASSUME NEW S, NEW x \in Seq(S), NEW y \in Seq(S), NEW w \in Seq(S)
    PROVE  Joined(Joined(x, y), w) = Joined(x, Joined(y, w))
<1> DEFINE xy == Joined(x, y)
           yw == Joined(y, w)
           p == Joined(xy, w)
           o == Joined(x, yw)
<1>1. /\ xy \in Seq(S) /\ Len(xy) = Len(x) + Len(y)
      /\ \A k \in 1 .. Len(x) : xy[k] = x[k]
      /\ \A k \in 1 .. Len(y) : xy[Len(x) + k] = y[k]
  BY DEF Joined
<1>2. /\ yw \in Seq(S) /\ Len(yw) = Len(y) + Len(w)
      /\ \A k \in 1 .. Len(y) : yw[k] = y[k]
      /\ \A k \in 1 .. Len(w) : yw[Len(y) + k] = w[k]
  BY DEF Joined
<1> HIDE DEF xy, yw
<1>3. /\ p \in Seq(S) /\ Len(p) = Len(xy) + Len(w)
      /\ \A k \in 1 .. Len(xy) : p[k] = xy[k]
      /\ \A k \in 1 .. Len(w) : p[Len(xy) + k] = w[k]
  <2>1. xy \in Seq(S) /\ w \in Seq(S)
    BY <1>1
  <2> QED
    BY ONLY <2>1 DEF Joined
<1>4. /\ o \in Seq(S) /\ Len(o) = Len(x) + Len(yw)
      /\ \A k \in 1 .. Len(x) : o[k] = x[k]
      /\ \A k \in 1 .. Len(yw) : o[Len(x) + k] = yw[k]
  <2>1. x \in Seq(S) /\ yw \in Seq(S)
    BY <1>2
  <2> QED
    BY ONLY <2>1 DEF Joined
<1>5. Len(x) \in Nat /\ Len(y) \in Nat /\ Len(w) \in Nat
  OBVIOUS
<1> HIDE DEF p, o
<1>6. ASSUME NEW k \in 1 .. Len(p) PROVE p[k] = o[k]
  <2>1. CASE k <= Len(x)
    BY <1>1, <1>3, <1>4, <1>5, <2>1, SMTT(40)
  <2>2. CASE k > Len(x) /\ k <= Len(x) + Len(y)
    <3> DEFINE m == k - Len(x)
    <3>1. m \in 1 .. Len(y) /\ m \in 1 .. Len(yw) /\ Len(x) + m = k /\ k \in 1 .. Len(xy)
      BY <1>1, <1>2, <1>5, <2>2
    <3> HIDE DEF m
    <3>2. p[k] = xy[k] /\ xy[k] = y[m] /\ o[k] = yw[m] /\ yw[m] = y[m]
      BY <1>1, <1>2, <1>3, <1>4, <3>1
    <3> QED
      BY <3>2
  <2>3. CASE k > Len(x) + Len(y)
    <3> DEFINE m == k - (Len(x) + Len(y))
               n == Len(y) + m
    <3>1. m \in 1 .. Len(w) /\ Len(xy) + m = k /\ n \in 1 .. Len(yw) /\ Len(x) + n = k
      BY <1>1, <1>2, <1>3, <1>5, <2>3
    <3>2. p[k] = w[m] /\ yw[n] = w[m]
      BY <1>2, <1>3, <3>1
    <3> HIDE DEF n, m
    <3>3. o[k] = yw[n]
      BY <1>4, <3>1
    <3> QED
      BY <3>2, <3>3
  <2> QED
    BY <1>1, <1>3, <1>5, <2>1, <2>2, <2>3
<1>7. p = o
  <2>1. Len(p) = Len(o)
    BY <1>1, <1>2, <1>3, <1>4, <1>5
  <2> QED
    BY <1>3, <1>4, <1>6, <2>1, SeqEqual
<1> QED
  BY <1>7 DEF p, o, xy, yw

(* A slice of a file: what is kept up to its end is what is kept before it *)
(* and what is kept of it.                                                 *)
KeptChain(f, h) == PadChain(f, h) /\ \A k \in 0 .. Len(f) : h[k] \in Seq(AnyEntry)

SliceOf(f, c, a) == a + Len(f) <= Len(c) /\ \A m \in 1 .. Len(f) : f[m] = c[a + m]

LEMMA SliceChain ==
    ASSUME NEW c \in Seq(AnyEntry), NEW f \in Seq(AnyEntry), NEW a \in Nat, NEW g, NEW h,
           KeptChain(c, g), KeptChain(f, h), SliceOf(f, c, a)
    PROVE  g[a + Len(f)] = Joined(g[a], h[Len(f)])
<1> DEFINE T == {d \in Nat : d <= Len(f) => g[a + d] = Joined(g[a], h[d])}
<1>0. /\ Len(c) \in Nat /\ Len(f) \in Nat /\ a + Len(f) <= Len(c)
      /\ \A m \in 1 .. Len(f) : f[m] = c[a + m]
      /\ \A k \in 0 .. Len(c) : g[k] \in Seq(AnyEntry)
      /\ \A k \in 0 .. Len(f) : h[k] \in Seq(AnyEntry)
  BY DEF KeptChain, SliceOf
<1>1. /\ h[0] = <<>>
      /\ \A k \in 0 .. Len(c) - 1 : g[k + 1] = Joined(g[k], Unpad(c[k + 1]))
      /\ \A k \in 0 .. Len(f) - 1 : h[k + 1] = Joined(h[k], Unpad(f[k + 1]))
  BY DEF KeptChain, PadChain, Joined
<1>2. 0 \in T
  <2>1. a + 0 = a /\ a \in 0 .. Len(c)
    BY <1>0
  <2>2. g[a] \in Seq(AnyEntry)
    BY <1>0, <2>1
  <2> QED
    BY <1>1, <2>1, <2>2, JoinedNone
<1>3. ASSUME NEW d \in Nat, d \in T PROVE d + 1 \in T
  <2>1. d <= Len(f) => g[a + d] = Joined(g[a], h[d])
    BY <1>3
  <2>2. ASSUME d + 1 <= Len(f) PROVE g[a + (d + 1)] = Joined(g[a], h[d + 1])
    <3> DEFINE n == a + d
               u == Unpad(f[d + 1])
    <3>1. /\ d \in 0 .. Len(f) - 1 /\ d \in 0 .. Len(f) /\ d + 1 \in 1 .. Len(f) /\ d <= Len(f)
          /\ n \in 0 .. Len(c) - 1 /\ a + (d + 1) = n + 1 /\ a \in 0 .. Len(c)
      BY <1>0, <2>2
    <3>2. g[n] = Joined(g[a], h[d])
      BY <2>1, <3>1
    <3>3. f[d + 1] = c[n + 1] /\ f[d + 1] \in AnyEntry
      BY <1>0, <3>1
    <3> HIDE DEF n
    <3>4. g[n + 1] = Joined(g[n], u) /\ h[d + 1] = Joined(h[d], u)
      BY <1>1, <3>1, <3>3
    <3>5. u \in Seq(AnyEntry) /\ g[a] \in Seq(AnyEntry) /\ h[d] \in Seq(AnyEntry)
      BY <1>0, <3>1, <3>3, UnpadSeq
    <3> HIDE DEF u
    <3>6. Joined(Joined(g[a], h[d]), u) = Joined(g[a], Joined(h[d], u))
      BY ONLY <3>5, JoinedTwice
    <3> QED
      BY ONLY <3>1, <3>2, <3>4, <3>6
  <2> QED
    BY <2>2
<1> HIDE DEF T
<1>4. Len(f) \in T
  BY <1>0, <1>2, <1>3, Induction
<1> QED
  BY <1>0, <1>4 DEF T

(* A slice of a file of frames is one.                                     *)
LEMMA SliceOfFrames ==
    ASSUME NEW c \in Seq(AnyEntry), WithoutPads(c) \in Seq(AnyEntry),
           \A k \in 1 .. Len(WithoutPads(c)) : WithoutPads(c)[k] = FrameWord(k),
           NEW a \in Nat, NEW f \in Seq(AnyEntry), SliceOf(f, c, a),
           BeginsWithFrame(f), MaxPacket \in 2 .. 254
    PROVE  \E h, off : OfFrames(f, h, off) /\ h[Len(f)] = WithoutPads(f)
<1>0. Len(c) \in Nat /\ Len(f) \in Nat /\ a + Len(f) <= Len(c)
  BY DEF SliceOf
<1>1. PICK h : /\ PadChain(f, h)
               /\ \A k \in 0 .. Len(f) : /\ h[k] \in Seq(AnyEntry)
                                         /\ WithoutPads(SubSeq(f, 1, k)) = h[k]
  BY PadsChain
<1>2. PICK g : /\ PadChain(c, g)
               /\ \A k \in 0 .. Len(c) : /\ g[k] \in Seq(AnyEntry)
                                         /\ WithoutPads(SubSeq(c, 1, k)) = g[k]
  BY PadsChain
<1> DEFINE all == g[Len(c)]
           top == g[a + Len(f)]
           w   == h[Len(f)]
           v   == g[a]
           off == Len(v)
<1>3. w = WithoutPads(f)
  <2>1. SubSeq(f, 1, Len(f)) = f /\ Len(f) \in 0 .. Len(f)
    BY <1>0, SubSeqFull
  <2> QED
    BY <1>1, <2>1
<1>4. all = WithoutPads(c)
  <2>1. SubSeq(c, 1, Len(c)) = c /\ Len(c) \in 0 .. Len(c)
    BY <1>0, SubSeqFull
  <2> QED
    BY <1>2, <2>1
<1>5. /\ \A k \in 0 .. Len(c) : g[k] \in Seq(AnyEntry)
      /\ \A k \in 0 .. Len(f) : h[k] \in Seq(AnyEntry)
  BY <1>1, <1>2
<1>6. top = Joined(v, w)
  <2>1. KeptChain(c, g) /\ KeptChain(f, h)
    BY <1>1, <1>2 DEF KeptChain
  <2> QED
    BY <2>1, SliceChain
<1>7. a + Len(f) \in 0 .. Len(c) /\ Len(c) \in a + Len(f) .. Len(c) /\ Len(c) \in 0 .. Len(c)
      /\ a \in 0 .. Len(c) /\ Len(f) \in 0 .. Len(f)
  BY <1>0
<1>8. top \in Seq(AnyEntry) /\ all \in Seq(AnyEntry) /\ v \in Seq(AnyEntry) /\ w \in Seq(AnyEntry)
  BY <1>5, <1>7
<1>9. IsPrefix(top, all)
  BY <1>2, <1>5, <1>7, PadChainGrows
<1>10. \A k \in 1 .. Len(all) : all[k] = FrameWord(k)
  BY <1>4
<1> HIDE DEF all, top, w, v
<1>11. Len(top) <= Len(all) /\ \A k \in 1 .. Len(top) : top[k] = all[k]
  BY <1>8, <1>9, PrefixIs
<1>12. ASSUME NEW k \in 1 .. Len(w) PROVE w[k] = FrameWord(off + k)
  <2>1. Len(w) \in Nat /\ Len(top) = off + Len(w) /\ w[k] = top[off + k] /\ off + k \in 1 .. Len(top)
    <3>1. /\ \A y \in Seq(AnyEntry) : Len(y) \in Nat
          /\ Len(Joined(v, w)) = Len(v) + Len(w)
          /\ \A m \in 1 .. Len(w) : Joined(v, w)[Len(v) + m] = w[m]
      BY <1>8 DEF Joined
    <3>2. Len(v) \in Nat /\ Len(w) \in Nat
      BY <1>8
    <3> HIDE DEF off
    <3> QED
      BY <1>6, <3>1, <3>2 DEF off
  <2>2. off + k \in 1 .. Len(all)
    BY <1>8, <1>11, <2>1
  <2> QED
    BY <1>10, <1>11, <2>1, <2>2
<1>13. off \in Nat
  BY <1>8
<1>14. OfFrames(f, h, off)
  BY <1>1, <1>5, <1>12, <1>13 DEF OfFrames, w
<1> QED
  BY <1>3, <1>14 DEF w

LEMMA PiecesFound ==
    ASSUME NEW f, NEW h, NEW off, OfFrames(f, h, off), h[Len(f)] = WithoutPads(f)
    PROVE  FramesFound(f) /\ (PadsBetweenFrames(f) => NothingElseFound(f))
<1>1. ASSUME PadsBetweenFrames(f) PROVE NothingElseFound(f)
  <2>1. Split(list_hits(f)) /\ FlattenSeq(list_hits(f)) = h[Len(f)]
    BY <1>1, HitsAreFrames
  <2>2. DOMAIN list_hits(f) = 1 .. Len(list_hits(f))
    BY <2>1 DEF Split
  <2> QED
    BY <2>1, <2>2 DEF Split, NothingElseFound
<1> QED
  BY <1>1, FramesAreHits

(* A chunk of the file is a slice of it.                                   *)
LEMMA ChunkIsSlice ==
    ASSUME NEW file, Len(file) \in Nat, NEW k \in 1 .. chunks(file), ChunkSize \in Nat
    PROVE  \E a \in Nat, z \in 0 .. Len(file) : chunk(file, k) = SubSeq(file, a + 1, z)
<1> DEFINE a == (k - 1) * ChunkSize
           z == IF k * ChunkSize > Len(file) THEN Len(file) ELSE k * ChunkSize
<1>1. k - 1 \in Nat /\ k \in Nat
  OBVIOUS
<1>2. a \in Nat /\ k * ChunkSize \in Nat
  BY ONLY <1>1, ChunkSize \in Nat
<1>3. z \in 0 .. Len(file)
  BY <1>2
<1>4. chunk(file, k) = SubSeq(file, a + 1, z)
  BY DEF chunk
<1> QED
  BY <1>2, <1>3, <1>4

(* In every chunk of the file that begins with a frame the decoder, which  *)
(* knows frames by one length byte only, finds each frame up to the first  *)
(* that is torn by a fill word, and, when none is, just the frames.        *)
THEOREM ScriptPacketsAreFrames ==
    ASSUME MaxBacklog <= FlushExtra, MaxPacket \in 2 .. 254
    PROVE  Spec => []PacketsAreFrames
<1>1. ASSUME StreamInv, KeepInv PROVE PacketsAreFrames
  <2> SUFFICES ASSUME pc = "done", args.readout = 0, NEW k \in 1 .. chunks(ofile),
                      BeginsWithFrame(chunk(ofile, k))
               PROVE  /\ FramesFound(chunk(ofile, k))
                      /\ PadsBetweenFrames(chunk(ofile, k)) => NothingElseFound(chunk(ofile, k))
    BY DEF PacketsAreFrames
  <2>1. KeptTypes /\ inject = <<>> /\ readout = <<>>
    BY <1>1 DEF KeepInv
  <2>2. ofile \in Seq(AnyEntry) /\ Len(ofile) \in Nat
    BY <2>1 DEF KeptTypes
  <2>3. Data = ofile
    BY <2>1, <2>2 DEF Data
  <2> DEFINE all == WithoutPads(ofile)
  <2>4. all \in Seq(AnyEntry)
    <3>1. PICK h : \A m \in 0 .. Len(ofile) : /\ h[m] \in Seq(AnyEntry)
                                              /\ WithoutPads(SubSeq(ofile, 1, m)) = h[m]
      BY <2>2, PadsChain
    <3>2. SubSeq(ofile, 1, Len(ofile)) = ofile /\ Len(ofile) \in 0 .. Len(ofile)
      BY <2>2, SubSeqFull
    <3> QED
      BY <3>1, <3>2
  <2>5. IsPrefix(all, taken)
    BY <1>1, <2>3 DEF KeepInv, StreamKept
  <2>6. taken \in Seq(AnyEntry) /\ \A m \in 1 .. Len(taken) : taken[m] = FrameWord(m)
    BY <1>1, EntryIsAny DEF StreamInv
  <2> HIDE DEF all
  <2>7. \A m \in 1 .. Len(all) : all[m] = FrameWord(m)
    <3>1. Len(all) <= Len(taken) /\ \A m \in 1 .. Len(all) : all[m] = taken[m]
      BY <2>4, <2>5, <2>6, PrefixIs
    <3>2. \A m \in 1 .. Len(all) : m \in 1 .. Len(taken)
      BY <2>4, <2>6, <3>1
    <3> QED
      BY <2>6, <3>1, <3>2
  <2>8. PICK a \in Nat, z \in 0 .. Len(ofile) : chunk(ofile, k) = SubSeq(ofile, a + 1, z)
    BY <2>2, ChunkIsSlice, DecodeAssumption
  <2> DEFINE f == chunk(ofile, k)
  <2>9. PICK h, off : OfFrames(f, h, off) /\ h[Len(f)] = WithoutPads(f)
    <3> HIDE DEF f
    <3>1. BeginsWithFrame(f) /\ f = SubSeq(ofile, a + 1, z)
      BY <2>8 DEF f
    <3>2. /\ f \in Seq(AnyEntry) /\ (f = <<>> \/ a + Len(f) <= Len(ofile))
          /\ \A m \in 1 .. Len(f) : f[m] = ofile[a + m]
      BY <2>2, <2>8, <3>1
    <3>3. PICK o \in Nat : SliceOf(f, ofile, o)
      <4>1. CASE f = <<>>
        BY <2>2, <4>1 DEF SliceOf
      <4> QED
        BY <2>8, <3>2, <4>1 DEF SliceOf
    <3>4. all = WithoutPads(ofile)
      BY DEF all
    <3>5. WithoutPads(ofile) \in Seq(AnyEntry)
          /\ \A m \in 1 .. Len(WithoutPads(ofile)) : WithoutPads(ofile)[m] = FrameWord(m)
      BY <2>4, <2>7, <3>4
    <3> QED
      BY <2>2, <3>1, <3>2, <3>3, <3>5, SliceOfFrames
  <2> HIDE DEF f
  <2>10. FramesFound(f) /\ (PadsBetweenFrames(f) => NothingElseFound(f))
    BY <2>9, PiecesFound
  <2> QED
    BY <2>10 DEF f
<1>2. StreamInv /\ SessionInv /\ [Next]_vars => StreamInv'
  BY StreamNext
<1>3. SessionInv => Counters
  BY DEF SessionInv
<1>4. KeepInv /\ Counters /\ [Next]_vars => KeepInv'
  BY KeepNext
<1> QED
  BY <1>1, <1>2, <1>3, <1>4, StreamInit, KeepInit, SessionAlways, PTL DEF Spec

-----------------------------------------------------------------------------
(* The words of a chip and the configuration that was asked for.           *)
Pixels == 0 .. Side - 1

(* Pixels of one configuration and of another.                             *)
SamePixels(v, w) == Rows(v) = Rows(w) /\ Columns(v) = Columns(w) /\ On(v) = On(w)

LEMMA BitsDiffer ==
    /\ InjectRow # InjectColumn /\ AnalogOut # InjectRow /\ AnalogOut # InjectColumn
    /\ \A r \in Pixels : Comparator(r) \notin {InjectRow, InjectColumn, AnalogOut}
    /\ \A r, q \in Pixels : Comparator(r) = Comparator(q) => r = q
  BY SideAssumption DEF Pixels, InjectRow, InjectColumn, AnalogOut, Comparator

LEMMA RowSwitched ==
    ASSUME NEW w \in Words, NEW row \in Pixels
    PROVE  LET v == [w EXCEPT ![row] = @ \cup {InjectRow}] IN
           /\ Rows(v) = Rows(w) \cup {row} /\ Columns(v) = Columns(w) /\ On(v) = On(w)
<1> DEFINE v == [w EXCEPT ![row] = @ \cup {InjectRow}]
<1>1. /\ DOMAIN w = Pixels /\ DOMAIN v = Pixels
      /\ \A c \in Pixels : v[c] = IF c = row THEN w[c] \cup {InjectRow} ELSE w[c]
  BY DEF Words, Pixels
<1> HIDE DEF v
<1>2. Rows(v) = Rows(w) \cup {row}
  BY <1>1 DEF Rows
<1>3. Columns(v) = Columns(w)
  BY <1>1, BitsDiffer DEF Columns
<1>4. On(v) = On(w)
  <2>1. \A c, r \in Pixels : Comparator(r) \notin v[c] <=> Comparator(r) \notin w[c]
    BY <1>1, BitsDiffer
  <2> QED
    BY <2>1 DEF On, Pixels
<1> QED
  BY <1>2, <1>3, <1>4 DEF v

LEMMA ColumnSwitched ==
    ASSUME NEW w \in Words, NEW col \in Pixels
    PROVE  LET v == [w EXCEPT ![col] = @ \cup {InjectColumn}] IN
           /\ Rows(v) = Rows(w) /\ Columns(v) = Columns(w) \cup {col} /\ On(v) = On(w)
<1> DEFINE v == [w EXCEPT ![col] = @ \cup {InjectColumn}]
<1>1. /\ DOMAIN w = Pixels /\ DOMAIN v = Pixels
      /\ \A c \in Pixels : v[c] = IF c = col THEN w[c] \cup {InjectColumn} ELSE w[c]
  BY DEF Words, Pixels
<1> HIDE DEF v
<1>2. Rows(v) = Rows(w)
  BY <1>1, BitsDiffer DEF Rows
<1>3. Columns(v) = Columns(w) \cup {col}
  BY <1>1 DEF Columns
<1>4. On(v) = On(w)
  <2>1. \A c, r \in Pixels : Comparator(r) \notin v[c] <=> Comparator(r) \notin w[c]
    BY <1>1, BitsDiffer
  <2> QED
    BY <2>1 DEF On, Pixels
<1> QED
  BY <1>2, <1>3, <1>4 DEF v

LEMMA PixelSwitched ==
    ASSUME NEW w \in Words, NEW col \in Pixels, NEW row \in Pixels
    PROVE  LET v == [w EXCEPT ![col] = @ \ {Comparator(row)}] IN
           /\ Rows(v) = Rows(w) /\ Columns(v) = Columns(w)
           /\ On(v) = On(w) \cup {<<col, row>>}
<1> DEFINE v == [w EXCEPT ![col] = @ \ {Comparator(row)}]
<1>1. /\ DOMAIN w = Pixels /\ DOMAIN v = Pixels
      /\ \A c \in Pixels : v[c] = IF c = col THEN w[c] \ {Comparator(row)} ELSE w[c]
  BY DEF Words, Pixels
<1> HIDE DEF v
<1>2. Rows(v) = Rows(w)
  BY <1>1, BitsDiffer DEF Rows
<1>3. Columns(v) = Columns(w)
  BY <1>1, BitsDiffer DEF Columns
<1>4. \A c, r \in Pixels : Comparator(r) \notin v[c]
                           <=> (Comparator(r) \notin w[c] \/ (c = col /\ r = row))
  BY <1>1, BitsDiffer
<1>5. /\ On(v) = {p \in Pixels \X Pixels : Comparator(p[2]) \notin v[p[1]]}
      /\ On(w) = {p \in Pixels \X Pixels : Comparator(p[2]) \notin w[p[1]]}
  BY DEF On, Pixels
<1>6. ASSUME NEW p \in Pixels \X Pixels
      PROVE  p \in On(v) <=> p \in On(w) \cup {<<col, row>>}
  <2>1. PICK c \in Pixels, r \in Pixels : p = <<c, r>>
    OBVIOUS
  <2>2. p[1] = c /\ p[2] = r /\ (p = <<col, row>> <=> c = col /\ r = row)
    BY <2>1
  <2> QED
    BY <1>4, <1>5, <2>2
<1>7. On(v) \subseteq Pixels \X Pixels /\ On(w) \cup {<<col, row>>} \subseteq Pixels \X Pixels
  BY <1>5
<1>8. On(v) = On(w) \cup {<<col, row>>}
  BY <1>6, <1>7
<1> QED
  BY <1>2, <1>3, <1>8 DEF v

LEMMA AnalogSwitched ==
    ASSUME NEW w \in Words, NEW col \in Pixels
    PROVE  SamePixels([w EXCEPT ![col] = (@ \ {AnalogOut}) \cup {AnalogOut}], w)
<1> DEFINE v == [w EXCEPT ![col] = (@ \ {AnalogOut}) \cup {AnalogOut}]
<1>1. /\ DOMAIN w = Pixels /\ DOMAIN v = Pixels
      /\ \A c \in Pixels : v[c] = IF c = col THEN (w[c] \ {AnalogOut}) \cup {AnalogOut} ELSE w[c]
  BY DEF Words, Pixels
<1> HIDE DEF v
<1>2. Rows(v) = Rows(w)
  BY <1>1, BitsDiffer DEF Rows
<1>3. Columns(v) = Columns(w)
  BY <1>1, BitsDiffer DEF Columns
<1>4. On(v) = On(w)
  <2>1. \A c, r \in Pixels : Comparator(r) \notin v[c] <=> Comparator(r) \notin w[c]
    BY <1>1, BitsDiffer
  <2> QED
    BY <2>1 DEF On, Pixels
<1> QED
  BY <1>2, <1>3, <1>4 DEF v, SamePixels

-----------------------------------------------------------------------------
(* The configurations in memory.                                           *)
Filled(asic) ==
    /\ Chained(asic)
    /\ \A k \in DOMAIN asic.config :
          asic.config[k] \in [recconfig : Words, vinj : {asic.config[k].vinj}]

(* One word of a chip is changed.                                          *)
WordIs(a, b, chip, words) ==
    /\ Filled(b) /\ DOMAIN b.config = DOMAIN a.config
    /\ \A k \in DOMAIN a.config : k # chip => b.config[k] = a.config[k]
    /\ b.config[chip].recconfig = words
    /\ b.config[chip].vinj = a.config[chip].vinj

LEMMA ChangedIs ==
    ASSUME NEW a, Filled(a), NEW chip \in DOMAIN a.config, NEW col \in Pixels,
           NEW word \in SUBSET (0 .. Side + 2)
    PROVE  WordIs(a, Changed(a, chip, col, word), chip,
                  [a.config[chip].recconfig EXCEPT ![col] = word])
<1> DEFINE b == Changed(a, chip, col, word)
           v == [a.config[chip].recconfig EXCEPT ![col] = word]
<1>1. a.config[chip].recconfig \in Words /\ v \in Words
  <2>1. a.config[chip].recconfig \in Words
    BY DEF Filled
  <2> QED
    BY <2>1 DEF Words, Pixels
<1>2. b = [a EXCEPT !.config = [a.config EXCEPT ![chip] = [a.config[chip] EXCEPT !.recconfig = v]]]
  BY DEF Changed
<1> HIDE DEF v
<1>3. Chained(b)
  BY ChangedChained DEF Filled
<1> HIDE DEF b
<1>4. a = [numChips |-> a.numChips, config |-> a.config]
  BY DEF Filled, Chained
<1>5. b.config = [a.config EXCEPT ![chip] = [a.config[chip] EXCEPT !.recconfig = v]]
  BY <1>2, <1>4
<1> DEFINE e == [a.config[chip] EXCEPT !.recconfig = v]
<1>6. a.config[chip] \in [recconfig : Words, vinj : {a.config[chip].vinj}]
  BY DEF Filled
<1>7. e \in [recconfig : Words, vinj : {e.vinj}] /\ e.recconfig = v /\ e.vinj = a.config[chip].vinj
  BY <1>1, <1>6
<1> HIDE DEF e
<1>8. /\ DOMAIN b.config = DOMAIN a.config
      /\ \A k \in DOMAIN a.config : b.config[k] = IF k = chip THEN e ELSE a.config[k]
  BY <1>5 DEF e
<1>9. Filled(b)
  <2> SUFFICES ASSUME NEW k \in DOMAIN a.config
               PROVE  b.config[k] \in [recconfig : Words, vinj : {b.config[k].vinj}]
    BY <1>3, <1>8 DEF Filled
  <2>1. a.config[k] \in [recconfig : Words, vinj : {a.config[k].vinj}]
    BY DEF Filled
  <2> QED
    BY <1>7, <1>8, <2>1
<1> QED
  BY <1>7, <1>8, <1>9 DEF WordIs, b, v

(* What was asked for of a chip whose file says y.                         *)
Asked(c, y, here) ==
    LET extra(set, x) == IF here THEN set \cup {x} ELSE set
    IN /\ Rows(c.recconfig) = extra(Rows(y.recconfig), args.inject[3])
       /\ Columns(c.recconfig) = extra(Columns(y.recconfig), args.inject[4])
       /\ On(c.recconfig) = extra(On(y.recconfig), <<args.inject[4], args.inject[3]>>)
       /\ c.vinj = IF here /\ args.vinj # "default" THEN args.vinj ELSE y.vinj

LEMMA WordsChange ==
    ASSUME NEW w \in Words, NEW c \in Pixels
    PROVE  /\ w[c] \cup {InjectRow} \in SUBSET (0 .. Side + 2)
           /\ w[c] \cup {InjectColumn} \in SUBSET (0 .. Side + 2)
           /\ (w[c] \ {AnalogOut}) \cup {AnalogOut} \in SUBSET (0 .. Side + 2)
           /\ \A b : w[c] \ {b} \in SUBSET (0 .. Side + 2)
<1>1. w[c] \in SUBSET (0 .. Side + 2)
  BY DEF Words, Pixels
<1>2. InjectRow \in 0 .. Side + 2 /\ InjectColumn \in 0 .. Side + 2 /\ AnalogOut \in 0 .. Side + 2
  BY SideAssumption DEF InjectRow, InjectColumn, AnalogOut
<1> QED
  BY <1>1, <1>2

LEMMA InjectionIs ==
    ASSUME NEW a, Filled(a), args.inject[2] \in DOMAIN a.config,
           args.inject[3] \in Pixels, args.inject[4] \in Pixels
    PROVE  LET b == EnableInjection(a) IN
           /\ Filled(b) /\ DOMAIN b.config = DOMAIN a.config
           /\ \A k \in DOMAIN a.config :
                 IF k = args.inject[2] THEN Asked(b.config[k], a.config[k], TRUE)
                 ELSE b.config[k] = a.config[k]
<1> DEFINE chip == args.inject[2]
           row  == args.inject[3]
           col  == args.inject[4]
           a1   == enable_inj_col(a, chip, col)
           a2   == enable_inj_row(a1, chip, row)
           a3   == enable_pixel(a2, chip, col, row)
           w0   == a.config[chip].recconfig
           w1   == [w0 EXCEPT ![col] = @ \cup {InjectColumn}]
           w2   == [w1 EXCEPT ![row] = @ \cup {InjectRow}]
           w3   == [w2 EXCEPT ![col] = @ \ {Comparator(row)}]
<1>1. row < Side /\ col < Side /\ row \in Pixels /\ col \in Pixels /\ chip \in DOMAIN a.config
  BY SideAssumption DEF Pixels
<1>2. EnableInjection(a) = IF args.vinj = "default" THEN a3
                           ELSE SetInjectionVoltage(a3, chip, args.vinj)
  BY DEF EnableInjection
<1> HIDE DEF chip, row, col
<1>3. \A c : Filled(c) /\ chip \in DOMAIN c.config => c.config[chip].recconfig \in Words
  BY DEF Filled
<1>4. w0 \in Words
  BY <1>1, <1>3
<1> HIDE DEF w0
<1>5. WordIs(a, a1, chip, w1)
  <2>1. w0[col] \cup {InjectColumn} \in SUBSET (0 .. Side + 2)
    BY <1>1, <1>4, WordsChange
  <2>2. a1 = Changed(a, chip, col, w0[col] \cup {InjectColumn})
    BY <1>1 DEF enable_inj_col, Word, w0
  <2> HIDE DEF a1
  <2>3. WordIs(a, a1, chip, [a.config[chip].recconfig EXCEPT ![col] = w0[col] \cup {InjectColumn}])
    BY <1>1, <2>1, <2>2, ChangedIs
  <2> QED
    BY <2>3 DEF w0
<1> HIDE DEF a1
<1>6. Filled(a1) /\ chip \in DOMAIN a1.config /\ a1.config[chip].recconfig = w1
  BY <1>1, <1>5 DEF WordIs
<1> HIDE DEF w1
<1>7. w1 \in Words
  BY <1>3, <1>6
<1>8. WordIs(a1, a2, chip, w2)
  <2>1. w1[row] \cup {InjectRow} \in SUBSET (0 .. Side + 2)
    BY <1>1, <1>7, WordsChange
  <2>2. a2 = Changed(a1, chip, row, w1[row] \cup {InjectRow})
    BY <1>1, <1>6 DEF enable_inj_row, Word
  <2> HIDE DEF a2
  <2>3. WordIs(a1, a2, chip, [a1.config[chip].recconfig EXCEPT ![row] = w1[row] \cup {InjectRow}])
    BY <1>1, <1>6, <2>1, <2>2, ChangedIs
  <2> QED
    BY <1>6, <2>3
<1> HIDE DEF a2
<1>9. Filled(a2) /\ chip \in DOMAIN a2.config /\ a2.config[chip].recconfig = w2
  BY <1>6, <1>8 DEF WordIs
<1> HIDE DEF w2
<1>10. w2 \in Words
  BY <1>3, <1>9
<1>11. WordIs(a2, a3, chip, w3)
  <2>1. w2[col] \ {Comparator(row)} \in SUBSET (0 .. Side + 2)
    BY <1>1, <1>10, WordsChange
  <2>2. a3 = Changed(a2, chip, col, w2[col] \ {Comparator(row)})
    BY <1>9 DEF enable_pixel, Word
  <2> HIDE DEF a3
  <2>3. WordIs(a2, a3, chip, [a2.config[chip].recconfig EXCEPT ![col] = w2[col] \ {Comparator(row)}])
    BY <1>1, <1>9, <2>1, <2>2, ChangedIs
  <2> QED
    BY <1>9, <2>3
<1> HIDE DEF a3
<1>12. /\ Filled(a3) /\ DOMAIN a3.config = DOMAIN a.config
       /\ \A k \in DOMAIN a.config : k # chip => a3.config[k] = a.config[k]
       /\ a3.config[chip].recconfig = w3 /\ a3.config[chip].vinj = a.config[chip].vinj
  BY <1>5, <1>8, <1>11 DEF WordIs
<1>13. Rows(w3) = Rows(w0) \cup {row}
       /\ Columns(w3) = Columns(w0) \cup {col} /\ On(w3) = On(w0) \cup {<<col, row>>}
  <2>1. Rows(w1) = Rows(w0) /\ Columns(w1) = Columns(w0) \cup {col} /\ On(w1) = On(w0)
    BY <1>1, <1>4, ColumnSwitched DEF w1
  <2>2. Rows(w2) = Rows(w1) \cup {row} /\ Columns(w2) = Columns(w1) /\ On(w2) = On(w1)
    BY <1>1, <1>7, RowSwitched DEF w2
  <2>3. Rows(w3) = Rows(w2) /\ Columns(w3) = Columns(w2) /\ On(w3) = On(w2) \cup {<<col, row>>}
    BY <1>1, <1>10, PixelSwitched
  <2> QED
    BY <2>1, <2>2, <2>3
<1> HIDE DEF w3
<1> DEFINE b == EnableInjection(a)
<1>14. /\ Filled(b) /\ DOMAIN b.config = DOMAIN a.config
       /\ \A k \in DOMAIN a.config : k # chip => b.config[k] = a.config[k]
       /\ b.config[chip].recconfig = w3
       /\ b.config[chip].vinj = IF args.vinj # "default" THEN args.vinj ELSE a.config[chip].vinj
  <2>1. CASE args.vinj = "default"
    BY <1>2, <1>12, <2>1
  <2>2. CASE args.vinj # "default"
    <3>1. b = [a3 EXCEPT !.config = [a3.config EXCEPT ![chip] = [a3.config[chip] EXCEPT !.vinj = args.vinj]]]
      BY <1>2, <2>2 DEF SetInjectionVoltage
    <3>2. Chained(b)
      BY <1>2, <1>12, <2>2, VoltageChained DEF Filled
    <3> HIDE DEF b
    <3>3. a3 = [numChips |-> a3.numChips, config |-> a3.config]
      BY <1>12 DEF Filled, Chained
    <3>4. b.config = [a3.config EXCEPT ![chip] = [a3.config[chip] EXCEPT !.vinj = args.vinj]]
      BY <3>1, <3>3
    <3> DEFINE e == [a3.config[chip] EXCEPT !.vinj = args.vinj]
    <3>5. a3.config[chip] \in [recconfig : Words, vinj : {a3.config[chip].vinj}]
      BY <1>1, <1>12 DEF Filled
    <3>6. e \in [recconfig : Words, vinj : {e.vinj}] /\ e.recconfig = w3 /\ e.vinj = args.vinj
      BY <1>12, <3>5
    <3> HIDE DEF e
    <3>7. /\ DOMAIN b.config = DOMAIN a.config
          /\ \A k \in DOMAIN a.config : b.config[k] = IF k = chip THEN e ELSE a3.config[k]
      BY <1>12, <3>4 DEF e
    <3>8. Filled(b)
      <4> SUFFICES ASSUME NEW k \in DOMAIN a.config
                   PROVE  b.config[k] \in [recconfig : Words, vinj : {b.config[k].vinj}]
        BY <3>2, <3>7 DEF Filled
      <4>1. a3.config[k] \in [recconfig : Words, vinj : {a3.config[k].vinj}]
        BY <1>12 DEF Filled
      <4> QED
        BY <3>6, <3>7, <4>1
    <3> QED
      BY <1>1, <1>12, <2>2, <3>6, <3>7, <3>8
  <2> QED
    BY <2>1, <2>2
<1> HIDE DEF b
<1>15. Asked(b.config[chip], a.config[chip], TRUE)
  BY <1>13, <1>14 DEF Asked, w0, row, col
<1>16. \A k \in DOMAIN a.config :
           IF k = chip THEN Asked(b.config[k], a.config[k], TRUE) ELSE b.config[k] = a.config[k]
  BY <1>14, <1>15
<1> QED
  BY <1>14, <1>16 DEF b, chip

(* The analog output is none of the pixels.                                *)
LEMMA AnalogIs ==
    ASSUME NEW a, Filled(a), NEW chip \in DOMAIN a.config, NEW col \in Pixels
    PROVE  LET b == enable_ampout_col(a, chip, col) IN
           /\ DOMAIN b.config = DOMAIN a.config
           /\ \A k \in DOMAIN a.config : \A y, here :
                 Asked(a.config[k], y, here) => Asked(b.config[k], y, here)
<1> DEFINE b == enable_ampout_col(a, chip, col)
           w == a.config[chip].recconfig
           v == [w EXCEPT ![col] = (@ \ {AnalogOut}) \cup {AnalogOut}]
<1>1. w \in Words
  BY DEF Filled
<1>2. b = Changed(a, chip, col, (w[col] \ {AnalogOut}) \cup {AnalogOut})
  BY DEF enable_ampout_col, Word
<1>3. WordIs(a, b, chip, v)
  <2>1. (w[col] \ {AnalogOut}) \cup {AnalogOut} \in SUBSET (0 .. Side + 2)
    BY <1>1, WordsChange
  <2> HIDE DEF b
  <2> QED
    BY <1>2, <2>1, ChangedIs
<1>4. SamePixels(v, w)
  BY <1>1, AnalogSwitched
<1> HIDE DEF b, v
<1>5. ASSUME NEW k \in DOMAIN a.config, NEW y, NEW here, Asked(a.config[k], y, here)
      PROVE  Asked(b.config[k], y, here)
  <2>1. CASE k = chip
    <3>1. b.config[k].recconfig = v /\ b.config[k].vinj = a.config[k].vinj /\ a.config[k].recconfig = w
      BY <1>3, <2>1 DEF WordIs
    <3> QED
      BY <1>4, <1>5, <3>1 DEF Asked, SamePixels
  <2>2. CASE k # chip
    BY <1>3, <1>5, <2>2 DEF WordIs
  <2> QED
    BY <2>1, <2>2
<1> QED
  BY <1>3, <1>5 DEF WordIs, b

LEMMA LoadedIs ==
    ASSUME Accepted(args), ~LoadFails, NEW l, HasAsic(l)
    PROVE  /\ l \in DOMAIN Loaded /\ Filled(Loaded[l])
           /\ \A k \in DOMAIN Loaded[l].config :
                 Loaded[l].config[k] = args.yaml[FileOf(l)].config[k]
<1> DEFINE n == FileOf(l)
           file == args.yaml[n]
           a == Loaded[l]
<1>1. n \in Yamls /\ Lane(n) = l
  BY FileIs
<1>2. a = setupASIC(args.chipsPerLane[n], file) /\ l \in DOMAIN Loaded
  BY <1>1 DEF Loaded
<1>3. Chained(a)
  BY LoadedChained
<1>4. Loads(NewAsic, file)
  BY <1>1 DEF LoadFails
<1>5. \A k \in DOMAIN file.config :
          file.config[k] \in [recconfig : Words, vinj : {file.config[k].vinj}]
  BY <1>1 DEF Accepted, Yamls
<1> HIDE DEF n, file, a
<1>6. a.config = [k \in 0 .. ChainOf(NewAsic, file) - 1 |-> file.config[k]]
  BY <1>2 DEF setupASIC, load_conf_from_yaml
<1>7. \A k \in DOMAIN a.config : k \in DOMAIN file.config /\ a.config[k] = file.config[k]
  BY <1>4, <1>6 DEF Loads
<1>8. Filled(a)
  BY <1>3, <1>5, <1>7 DEF Filled
<1> QED
  BY <1>2, <1>7, <1>8 DEF a, file, n

(* The chip the command line injects into.                                 *)
InjectsInto(l, k) == Injectable /\ args.inject[1] = l /\ args.inject[2] = k

LEMMA InjectedIs ==
    ASSUME Accepted(args), ~LoadFails, ~OffChip, NEW l, HasAsic(l)
    PROVE  LET injected == IF Injectable
                           THEN [Loaded EXCEPT ![args.inject[1]] = EnableInjection(@)]
                           ELSE Loaded
           IN /\ DOMAIN injected = DOMAIN Loaded /\ l \in DOMAIN injected /\ Filled(injected[l])
              /\ DOMAIN injected[l].config = DOMAIN Loaded[l].config
              /\ \A k \in DOMAIN injected[l].config :
                    Asked(injected[l].config[k], args.yaml[FileOf(l)].config[k], InjectsInto(l, k))
<1> DEFINE injected == IF Injectable
                       THEN [Loaded EXCEPT ![args.inject[1]] = EnableInjection(@)]
                       ELSE Loaded
           y(k) == args.yaml[FileOf(l)].config[k]
<1>1. /\ l \in DOMAIN Loaded /\ Filled(Loaded[l])
      /\ \A k \in DOMAIN Loaded[l].config : Loaded[l].config[k] = y(k)
  BY LoadedIs
<1> HIDE DEF y
<1>2. \A c : Asked(c, c, FALSE)
  BY DEF Asked
<1>3. DOMAIN injected = DOMAIN Loaded
  OBVIOUS
<1>4. CASE Injectable /\ args.inject[1] = l
  <2>1. injected[l] = EnableInjection(Loaded[l])
    BY <1>1, <1>4
  <2>2. args.inject[2] \in DOMAIN Loaded[l].config
    BY <1>4 DEF Injectable, Known
  <2>3. args.inject[3] \in Pixels /\ args.inject[4] \in Pixels
    <3>1. args.inject \in Seq(Nat) /\ Len(args.inject) = 4
      BY <1>4 DEF Injectable, Accepted
    <3>2. args.inject[3] \in Nat /\ args.inject[4] \in Nat
      BY <3>1
    <3>3. args.inject[3] < Side /\ args.inject[4] < Side
      BY <1>4 DEF OffChip
    <3> QED
      BY <3>2, <3>3, SideAssumption DEF Pixels
  <2> HIDE DEF injected
  <2>4. /\ Filled(injected[l]) /\ DOMAIN injected[l].config = DOMAIN Loaded[l].config
        /\ \A k \in DOMAIN Loaded[l].config :
              IF k = args.inject[2] THEN Asked(injected[l].config[k], Loaded[l].config[k], TRUE)
              ELSE injected[l].config[k] = Loaded[l].config[k]
    BY <1>1, <2>1, <2>2, <2>3, InjectionIs
  <2>5. ASSUME NEW k \in DOMAIN injected[l].config
        PROVE  Asked(injected[l].config[k], y(k), InjectsInto(l, k))
    <3>1. Loaded[l].config[k] = y(k) /\ k \in DOMAIN Loaded[l].config
      BY <1>1, <2>4, <2>5
    <3>2. CASE k = args.inject[2]
      <4>1. InjectsInto(l, k) = TRUE
        BY <1>4, <3>2 DEF InjectsInto
      <4>2. Asked(injected[l].config[k], y(k), TRUE)
        BY <2>4, <3>1, <3>2
      <4> QED
        BY <4>1, <4>2
    <3>3. CASE k # args.inject[2]
      <4>1. InjectsInto(l, k) = FALSE
        BY <3>3 DEF InjectsInto
      <4>2. injected[l].config[k] = y(k)
        BY <2>4, <3>1, <3>3
      <4> QED
        BY <1>2, <4>1, <4>2
    <3> QED
      BY <3>2, <3>3
  <2> QED
    BY <1>1, <1>3, <2>4, <2>5 DEF injected, y
<1>5. CASE ~(Injectable /\ args.inject[1] = l)
  <2>1. injected[l] = Loaded[l]
    BY <1>1, <1>5
  <2> HIDE DEF injected
  <2>2. \A k : InjectsInto(l, k) = FALSE
    BY <1>5 DEF InjectsInto
  <2>3. \A k \in DOMAIN injected[l].config : Asked(injected[l].config[k], y(k), InjectsInto(l, k))
    BY <1>1, <1>2, <2>1, <2>2
  <2> QED
    BY <1>1, <1>3, <2>1, <2>3 DEF injected, y
<1> QED
  BY <1>4, <1>5

(* The configuration a lane is sent is what was asked for.                 *)
LEMMA ConfiguredIs ==
    ASSUME Accepted(args), ~LoadFails, ~OffChip, ~AnalogFails, NEW l, HasAsic(l),
           NEW k \in DOMAIN Configured[l].config
    PROVE  Asked(Configured[l].config[k], args.yaml[FileOf(l)].config[k], InjectsInto(l, k))
<1> DEFINE injected == IF Injectable
                       THEN [Loaded EXCEPT ![args.inject[1]] = EnableInjection(@)]
                       ELSE Loaded
           y(n) == args.yaml[FileOf(l)].config[n]
<1>1. /\ DOMAIN injected = DOMAIN Loaded /\ l \in DOMAIN injected /\ Filled(injected[l])
      /\ DOMAIN injected[l].config = DOMAIN Loaded[l].config
      /\ \A n \in DOMAIN injected[l].config : Asked(injected[l].config[n], y(n), InjectsInto(l, n))
  BY InjectedIs
<1>2. Configured = IF args.analog = <<>> THEN injected
                   ELSE [injected EXCEPT ![args.analog[1]] =
                            enable_ampout_col(@, args.analog[2], args.analog[3])]
  BY DEF Configured
<1> HIDE DEF injected, y
<1>3. CASE args.analog # <<>> /\ args.analog[1] = l
  <2> DEFINE chip == args.analog[2]
             col  == args.analog[3]
  <2>1. chip \in DOMAIN injected[l].config
    BY <1>1, <1>3 DEF AnalogFails, Known
  <2>2. col \in Pixels
    <3>1. args.analog \in Seq(Nat) /\ Len(args.analog) = 3
      BY <1>3 DEF Accepted
    <3>2. args.analog[3] \in Nat
      BY <3>1
    <3>3. args.analog[3] < Side
      BY <1>3 DEF AnalogFails
    <3> QED
      BY <3>2, <3>3, SideAssumption DEF Pixels
  <2>3. Configured[l] = enable_ampout_col(injected[l], chip, col)
    BY <1>1, <1>2, <1>3
  <2> HIDE DEF chip, col
  <2>4. /\ DOMAIN Configured[l].config = DOMAIN injected[l].config
        /\ \A n \in DOMAIN injected[l].config : \A x, here :
              Asked(injected[l].config[n], x, here) => Asked(Configured[l].config[n], x, here)
    BY <1>1, <2>1, <2>2, <2>3, AnalogIs, ZenonT(60)
  <2>5. Asked(Configured[l].config[k], y(k), InjectsInto(l, k))
    BY <1>1, <2>4
  <2> QED
    BY <2>5 DEF y
<1>4. CASE ~(args.analog # <<>> /\ args.analog[1] = l)
  <2>1. Configured[l] = injected[l]
    BY <1>1, <1>2, <1>4
  <2>2. Asked(Configured[l].config[k], y(k), InjectsInto(l, k))
    BY <1>1, <2>1
  <2> QED
    BY <2>2 DEF y
<1> QED
  BY <1>3, <1>4

-----------------------------------------------------------------------------
(* The configuration on its way to the chips.                              *)

(* The lane that is configured, and what its chips have.                   *)
LastLane == Lane(Count)

Sent(k) ==
    /\ k \in DOMAIN asics[LastLane].config
    /\ k \in DOMAIN chips[LastLane].config
    /\ chips[LastLane].config[k] = asics[LastLane].config[k]

SentBelow(n) == \A k \in 0 .. n - 1 : k < args.chipsPerLane[Count] => Sent(k)

Sending(back) == pc \in {"chunk", "wait"} /\ resume = back

Gone == spi.level = 0 /\ spi.coming = 0 /\ spi.sent = spi.payload.length

(* What main made of its arguments.                                        *)
PreparedInv ==
    pc \notin {"setup", "dead"} =>
        /\ ~LoadFails /\ ~OffChip /\ ~AnalogFails
        /\ asics = Configured /\ inject = IF Injectable THEN args.inject ELSE <<>>

ChipForm(c) == c = [routed |-> c.routed, length |-> Chain, config |-> c.config]

ChipsThere == chips = [l \in Lanes |-> chips[l]] /\ \A l \in Lanes : ChipForm(chips[l])

(* The run is over, one way or the other.                                  *)
Ended == pc \in {"dead", "end", "stop", "post", "done", "failed"}

(* Nothing is left of a payload when the script goes on.                   *)
LinkQuiet == spi.level > 0 \/ spi.coming > 0 => pc = "wait" \/ Ended

Numbering == pc = "routed" \/ Sending("routed")

Configuring == pc = "config" \/ Sending("config")

RoutingInv ==
    /\ pc \in {"setup", "quiet", "reset", "route"} \/ Numbering => i = 0
    /\ pc = "route" /\ j > 1 => j - 1 <= Count /\ lane = Lane(j - 1) /\ chips[lane].routed
    /\ Numbering => j <= Count /\ lane = Lane(j)
    /\ pc = "routed" => chips[lane].routed
    /\ Sending("routed") =>
          /\ spi.lane = lane /\ 3 \in Control(lane) /\ spi.heard
          /\ spi.payload.header = "routing" /\ spi.payload.length > 0
          /\ Gone => chips[lane].routed

ConfigInv ==
    /\ pc = "select" \/ Configuring =>
          Count >= 1 /\ i \in Nat /\ chips[LastLane].routed /\ SentBelow(i)
    /\ pc = "select" => lane = LastLane
    /\ Configuring =>
          /\ 3 \in Control(LastLane)
          /\ j > 1 => j - 1 <= Count /\ lane = Lane(j - 1)
    /\ pc = "config" /\ j > Count => SentBelow(i + 1)
    /\ Sending("config") =>
          /\ j > 1 /\ spi.lane = lane /\ spi.payload.length > 0
          /\ spi.lane = LastLane =>
                /\ spi.heard /\ i < Chain /\ i \in DOMAIN asics[LastLane].config
                /\ spi.payload = createSPIConfigFrame(asics[LastLane], 10, i)
                /\ Gone => Sent(i)

AllSent ==
    /\ Count >= 1 /\ HasAsic(LastLane)
    /\ \A k \in 0 .. args.chipsPerLane[Count] - 1 : Sent(k)

(* The chips are configured, old data is flushed and new data read.        *)
Working ==
    \/ pc \in {"unhold", "poll", "flushed", "empty", "discard", "begin", "enable"}
    \/ InLoop \/ Sending("flushed")

SentInv ==
    /\ Working => AllSent
    /\ Sending("flushed") \/ Sending("loop") => spi.payload.header = "empty"

ChipInv == PreparedInv /\ ChipsThere /\ LinkQuiet /\ RoutingInv /\ ConfigInv /\ SentInv

-----------------------------------------------------------------------------
(* The longest chain.                                                      *)
LEMMA MostOf ==
    ASSUME NEW s \in Seq(Int), NEW n \in 1 .. Len(s)
    PROVE  s[n] <= Max(ToSet(s)) /\ Max(ToSet(s)) \in Int
<1> DEFINE Most(q, m) == q \in 1 .. m /\ \A p \in 1 .. m : s[p] <= s[q]
           T == {m \in Nat : m \in 1 .. Len(s) => \E q : Most(q, m)}
<1>0. Len(s) \in Nat /\ \A p \in 1 .. Len(s) : s[p] \in Int
  OBVIOUS
<1>1. 0 \in T
  OBVIOUS
<1>2. ASSUME NEW m \in Nat, m \in T PROVE m + 1 \in T
  <2> SUFFICES ASSUME m + 1 \in 1 .. Len(s) PROVE \E q : Most(q, m + 1)
    OBVIOUS
  <2>1. CASE m = 0
    <3>1. Most(1, m + 1)
      BY <1>0, <2>1
    <3> QED
      BY <3>1
  <2>2. CASE m # 0
    <3>1. PICK q : Most(q, m)
      BY <1>2, <2>2
    <3>2. s[m + 1] \in Int /\ s[q] \in Int /\ \A p \in 1 .. m : s[p] \in Int
      BY <1>0, <3>1
    <3>3. CASE s[m + 1] <= s[q]
      <4>1. Most(q, m + 1)
        BY <3>1, <3>3
      <4> QED
        BY <4>1
    <3>4. CASE ~(s[m + 1] <= s[q])
      <4>1. \A p \in 1 .. m + 1 : s[p] <= s[m + 1]
        BY <3>1, <3>2, <3>4
      <4>2. Most(m + 1, m + 1)
        BY <4>1
      <4> QED
        BY <4>2
    <3> QED
      BY <3>3, <3>4
  <2> QED
    BY <2>1, <2>2
<1> HIDE DEF T
<1>3. Len(s) \in T
  BY <1>0, <1>1, <1>2, Induction
<1>4. PICK q : Most(q, Len(s))
  BY <1>3 DEF T
<1>5. ToSet(s) = {s[p] : p \in 1 .. Len(s)}
  BY DEF ToSet
<1>6. \E x \in ToSet(s) : \A y \in ToSet(s) : x >= y
  <2>1. s[q] \in ToSet(s)
    BY <1>4, <1>5
  <2>2. \A y \in ToSet(s) : s[q] >= y
    BY <1>0, <1>4, <1>5
  <2> QED
    BY <2>1, <2>2
<1>7. \A y \in ToSet(s) : Max(ToSet(s)) >= y
  BY <1>6 DEF Max
<1>8. Max(ToSet(s)) \in ToSet(s)
  BY <1>6 DEF Max
<1>9. s[n] \in ToSet(s) /\ s[n] \in Int /\ Max(ToSet(s)) \in Int
  BY <1>0, <1>5, <1>8
<1> QED
  BY <1>7, <1>9

(* What a chip takes.                                                      *)
LEMMA ReceiveIs ==
    ASSUME NEW c, ChipForm(c), NEW p
    PROVE  /\ ChipForm(Receive(c, p))
           /\ p.header = "routing" => Receive(c, p).routed = TRUE
           /\ p.header = "empty" => Receive(c, p) = c
           /\ c.routed => Receive(c, p).routed
<1>1. CASE p.header = "routing"
  <2>1. Receive(c, p) = [c EXCEPT !.routed = TRUE]
    BY <1>1 DEF Receive
  <2> DEFINE r == c.routed
             f == c.config
  <2>0. c = [routed |-> r, length |-> Chain, config |-> f]
    BY DEF ChipForm
  <2>2. Receive(c, p) = [routed |-> TRUE, length |-> Chain, config |-> f]
    <3> HIDE DEF r, f
    <3> QED
      BY <2>0, <2>1
  <2>3. p.header # "empty"
    BY <1>1
  <2> QED
    BY <2>2, <2>3 DEF ChipForm
<1>2. CASE p.header # "routing" /\ p.header = "SR" /\ c.routed /\ p.target < c.length
  <2>1. Receive(c, p) = [c EXCEPT !.config = [k \in {p.target} \cup DOMAIN @ |->
                                        IF k = p.target THEN p.vector ELSE @[k]]]
    BY <1>2 DEF Receive
  <2> QED
    BY <1>2, <2>1 DEF ChipForm
<1>3. CASE p.header # "routing" /\ ~(p.header = "SR" /\ c.routed /\ p.target < c.length)
  <2>1. Receive(c, p) = c
    BY <1>3 DEF Receive
  <2> QED
    BY <1>3, <2>1
<1> QED
  BY <1>1, <1>2, <1>3

LEMMA ReceiveConfig ==
    ASSUME NEW c, ChipForm(c), c.routed, NEW a, NEW k, k < Chain
    PROVE  LET d == Receive(c, createSPIConfigFrame(a, 10, k)).config IN
           /\ DOMAIN d = {k} \cup DOMAIN c.config
           /\ d[k] = a.config[k]
           /\ \A n \in DOMAIN c.config : n # k => d[n] = c.config[n]
<1> DEFINE p == createSPIConfigFrame(a, 10, k)
<1>1. p.header = "SR" /\ p.target = k /\ p.vector = a.config[k]
  BY DEF createSPIConfigFrame, gen_config_vector_SPI
<1>2. c.length = Chain
  BY DEF ChipForm
<1> HIDE DEF p
<1>3. Receive(c, p) = [c EXCEPT !.config = [n \in {p.target} \cup DOMAIN c.config |->
                                        IF n = p.target THEN p.vector ELSE c.config[n]]]
  BY <1>1, <1>2 DEF Receive
<1>4. Receive(c, p).config = [n \in {k} \cup DOMAIN c.config |->
                                        IF n = k THEN a.config[k] ELSE c.config[n]]
  BY <1>1, <1>3 DEF ChipForm
<1> QED
  BY <1>4 DEF p

(* Calls that select a lane.                                               *)
LEMMA Selecting ==
    ASSUME NEW s, Ready(s), NEW l \in Lanes, NEW t, t = setLaneCS(s, l, TRUE, TRUE)
    PROVE  3 \in ControlOf(t, l)
<1>1. OnLane(s, t, l, Switched(ControlOf(s, l), 3, TRUE))
  BY LaneCalls
<1> QED
  BY <1>1 DEF OnLane, Switched

(* What depends on the arguments only.                                     *)
LEMMA ArgumentsStay ==
    ASSUME args' = args
    PROVE  /\ LoadFails' = LoadFails /\ OffChip' = OffChip /\ AnalogFails' = AnalogFails
           /\ Injectable' = Injectable /\ Configured' = Configured
           /\ Count' = Count /\ LastLane' = LastLane
           /\ \A n : Lane(n)' = Lane(n)
           /\ \A l : HasAsic(l)' = HasAsic(l)
<1>1. Yamls' = Yamls /\ Count' = Count /\ \A n : Lane(n)' = Lane(n)
  BY DEF Yamls, Count, Lane
<1>2. \A l : HasAsic(l)' = HasAsic(l) /\ FileOf(l)' = FileOf(l)
  BY <1>1 DEF HasAsic, FileOf
<1>3. Loaded' = Loaded
  BY <1>1, <1>2 DEF Loaded
<1>4. LoadFails' = LoadFails
  BY <1>1 DEF LoadFails
<1>5. Injectable' = Injectable
  BY <1>2, <1>3 DEF Injectable
<1>6. OffChip' = OffChip
  BY <1>5 DEF OffChip
<1>7. AnalogFails' = AnalogFails
  BY <1>2, <1>3 DEF AnalogFails
<1>8. \A a : EnableInjection(a)' = EnableInjection(a)
  BY DEF EnableInjection
<1>9. Configured' = Configured
  BY <1>3, <1>5, <1>8 DEF Configured
<1>10. LastLane' = LastLane
  BY <1>1 DEF LastLane, Lane
<1> QED
  BY <1>1, <1>2, <1>4, <1>5, <1>6, <1>7, <1>9, <1>10

(* Nothing that matters is changed.                                        *)
LEMMA ChipKept ==
    ASSUME ChipInv, UNCHANGED <<session, spi, chips, args, asics, inject, pc, i, j, lane, resume>>
    PROVE  ChipInv'
<1>1. PreparedInv'
  BY ArgumentsStay DEF ChipInv, PreparedInv
<1>2. ChipsThere' /\ LinkQuiet'
  BY DEF ChipInv, ChipsThere, ChipForm, LinkQuiet, Ended
<1>3. \A l : Control(l)' = Control(l)
  BY DEF Control
<1>4. (\A k : Sent(k)' = Sent(k)) /\ Gone' = Gone /\ (\A b : Sending(b)' = Sending(b))
      /\ InLoop' = InLoop
  BY ArgumentsStay DEF Sent, Gone, Sending, InLoop
<1>5. Working' = Working /\ AllSent' = AllSent /\ (\A n : SentBelow(n)' = SentBelow(n))
      /\ Numbering' = Numbering /\ Configuring' = Configuring
  BY <1>4, ArgumentsStay DEF Working, AllSent, SentBelow, Numbering, Configuring
<1>6. RoutingInv'
  BY <1>3, <1>4, <1>5, ArgumentsStay DEF ChipInv, RoutingInv
<1>7. ConfigInv'
  BY <1>3, <1>4, <1>5, ArgumentsStay DEF ChipInv, ConfigInv
<1>8. SentInv'
  BY <1>4, <1>5 DEF ChipInv, SentInv
<1> QED
  BY <1>1, <1>2, <1>6, <1>7, <1>8 DEF ChipInv

(* The main parts of a step: what was prepared, and the chips, are not     *)
(* touched.                                                                *)
LEMMA ChipsKept ==
    ASSUME ChipInv, UNCHANGED <<args, asics, inject, chips>>,
           pc \notin {"setup", "dead"} \/ pc' \in {"setup", "dead"}
    PROVE  PreparedInv' /\ ChipsThere' /\ (\A k : Sent(k)' = Sent(k))
           /\ (\A n : SentBelow(n)' = SentBelow(n)) /\ AllSent' = AllSent
<1>1. PreparedInv'
  BY ArgumentsStay DEF ChipInv, PreparedInv
<1>2. ChipsThere'
  BY DEF ChipInv, ChipsThere, ChipForm
<1>3. \A k : Sent(k)' = Sent(k)
  BY ArgumentsStay DEF Sent
<1>4. (\A n : SentBelow(n)' = SentBelow(n)) /\ AllSent' = AllSent
  BY <1>3, ArgumentsStay DEF SentBelow, AllSent
<1> QED
  BY <1>1, <1>2, <1>3, <1>4

(* The run ends.                                                           *)
LEMMA ChipEnds ==
    ASSUME ChipInv, UNCHANGED <<args, asics, inject, chips>>, Ended',
           pc \notin {"setup", "dead"} \/ pc' = "dead"
    PROVE  ChipInv'
<1>1. PreparedInv' /\ ChipsThere'
  BY ChipsKept
<1>2. LinkQuiet' /\ RoutingInv' /\ ConfigInv' /\ SentInv'
  BY DEF LinkQuiet, RoutingInv, ConfigInv, SentInv, Numbering, Configuring, Working, InLoop,
         Sending, Ended
<1> QED
  BY <1>1, <1>2 DEF ChipInv

(* The flush and the main loop.                                            *)
LEMMA ChipWorks ==
    ASSUME ChipInv, UNCHANGED <<args, asics, inject, chips>>, Working, Working',
           \/ spi' = spi /\ pc \notin {"chunk", "wait"} /\ pc' \notin {"chunk", "wait"}
           \/ /\ (spi'.level = 0 /\ spi'.coming = 0) \/ pc' = "wait"
              /\ spi'.payload.header = "empty"
    PROVE  ChipInv'
<1>1. pc \notin {"setup", "dead"}
  BY DEF Working, InLoop, Sending
<1>2. PreparedInv' /\ ChipsThere' /\ AllSent' = AllSent
  BY <1>1, ChipsKept
<1>3. RoutingInv' /\ ConfigInv'
  BY DEF RoutingInv, ConfigInv, Working, InLoop, Sending, Numbering, Configuring
<1>4. SentInv'
  BY <1>2 DEF ChipInv, SentInv, Sending
<1>5. LinkQuiet'
  <2>1. CASE (spi'.level = 0 /\ spi'.coming = 0) \/ pc' = "wait"
    BY <2>1 DEF LinkQuiet
  <2>2. CASE spi' = spi /\ pc \notin {"chunk", "wait"}
    <3>1. pc # "wait" /\ ~Ended
      BY <2>2 DEF Working, InLoop, Sending, Ended
    <3> QED
      BY <2>2, <3>1 DEF ChipInv, LinkQuiet
  <2> QED
    BY <2>1, <2>2
<1> QED
  BY <1>2, <1>3, <1>4, <1>5 DEF ChipInv

LEMMA ChipInit == Init => ChipInv
<1> SUFFICES ASSUME Init PROVE ChipInv
  OBVIOUS
<1>1. pc = "setup" /\ i = 0 /\ spi.level = 0 /\ spi.coming = 0 /\ chips = [l \in Lanes |-> ResetChips(Chain)]
  BY DEF Init
<1>2. ChipForm(ResetChips(Chain))
  BY DEF ChipForm, ResetChips
<1>3. ChipsThere
  BY <1>1, <1>2 DEF ChipsThere
<1>4. PreparedInv /\ LinkQuiet /\ RoutingInv /\ ConfigInv /\ SentInv
  BY <1>1 DEF PreparedInv, LinkQuiet, RoutingInv, ConfigInv, SentInv, Numbering, Configuring,
              Working, Sending, InLoop
<1> QED
  BY <1>3, <1>4 DEF ChipInv

LEMMA ChipIdle ==
    ASSUME ChipInv, Expire \/ Push \/ (\E l \in Lanes : StartFrame(l)) \/ UNCHANGED vars
    PROVE  ChipInv'
<1>1. UNCHANGED <<session, spi, chips, args, asics, inject, pc, i, j, lane, resume>>
  BY DEF Expire, Push, StartFrame, vars, board, script
<1> QED
  BY <1>1, ChipKept

LEMMA ChipOver ==
    ASSUME ChipInv, TimedOut \/ Cancel \/ End \/ Stop \/ Process
    PROVE  ChipInv'
<1>1. /\ UNCHANGED <<args, asics, inject, chips>>
      /\ pc' \in {"dead", "end", "stop", "post", "done", "failed"} /\ pc \notin {"setup", "dead"}
  BY DEF TimedOut, Cancel, End, Stop, Process, Goto, board, InLoop
<1> QED
  BY <1>1, ChipEnds DEF Ended

LEMMA ChipLater ==
    ASSUME ChipInv,
           \/ Unhold \/ (\E interrupt \in {0, 1} : Poll(interrupt)) \/ Deselect
           \/ Empty \/ Discard \/ Begin \/ Enable
           \/ Loop \/ ReadLevelLow \/ ReadLevelHigh \/ ReadWord \/ Store
    PROVE  ChipInv'
<1>1. UNCHANGED <<args, asics, inject, chips>>
  BY DEF Unhold, Poll, Deselect, Empty, Discard, Begin, Enable, Loop, ReadLevelLow,
         ReadLevelHigh, ReadWord, Store, board, script, reading, Goto
<1>2. pc \in {"unhold", "poll", "flushed", "empty", "discard", "begin", "enable",
              "loop", "level", "level2", "read"}
  BY DEF Unhold, Poll, Deselect, Empty, Discard, Begin, Enable, Loop, ReadLevelLow,
         ReadLevelHigh, ReadWord, Store, Goto
<1>3. Working /\ pc \notin {"chunk", "wait", "setup", "dead"}
  BY <1>2 DEF Working, InLoop
<1>4. \/ pc' = "end"
      \/ /\ spi' = spi
         /\ pc' \in {"unhold", "poll", "flushed", "empty", "discard", "begin", "enable",
                     "loop", "level", "level2", "read"}
      \/ /\ pc' = "chunk" /\ resume' \in {"flushed", "loop"}
         /\ \E l, n : spi' = [lane |-> l, payload |-> Zeros(n), sent |-> 0, coming |-> 0,
                              level |-> 0, heard |-> TRUE, lost |-> FALSE]
  BY <1>2 DEF Unhold, Poll, Deselect, Empty, Discard, Begin, Enable, Loop, ReadLevelLow,
         ReadLevelHigh, ReadWord, Store, board, script, reading, Goto, writeSPI
<1>5. CASE pc' = "end"
  BY <1>1, <1>3, <1>5, ChipEnds DEF Ended
<1>6. CASE spi' = spi /\ pc' \in {"unhold", "poll", "flushed", "empty", "discard", "begin",
                                  "enable", "loop", "level", "level2", "read"}
  <2>1. Working' /\ pc' \notin {"chunk", "wait"}
    BY <1>6 DEF Working, InLoop
  <2> QED
    BY <1>1, <1>3, <1>6, <2>1, ChipWorks
<1>7. CASE /\ pc' = "chunk" /\ resume' \in {"flushed", "loop"}
           /\ \E l, n : spi' = [lane |-> l, payload |-> Zeros(n), sent |-> 0, coming |-> 0,
                                level |-> 0, heard |-> TRUE, lost |-> FALSE]
  <2>1. spi'.level = 0 /\ spi'.coming = 0 /\ spi'.payload.header = "empty"
    BY <1>7 DEF Zeros
  <2>2. Working'
    BY <1>7 DEF Working, InLoop, Sending
  <2> QED
    BY <1>1, <1>3, <2>1, <2>2, ChipWorks
<1> QED
  BY <1>4, <1>5, <1>6, <1>7

(* Before the chips get their numbers.                                     *)
LEMMA ChipStarts ==
    ASSUME ChipInv, PreparedInv', ChipsThere', spi' = spi, i' = i,
           pc \in {"setup", "quiet", "reset"},
           pc' \in {"quiet", "reset"} \/ (pc' = "route" /\ j' = 1)
    PROVE  ChipInv'
<1>1. i = 0 /\ ~(spi.level > 0 \/ spi.coming > 0)
  BY DEF ChipInv, RoutingInv, LinkQuiet, Ended
<1>2. LinkQuiet' /\ RoutingInv' /\ ConfigInv' /\ SentInv'
  BY <1>1 DEF LinkQuiet, RoutingInv, ConfigInv, SentInv, Numbering, Configuring, Working,
              InLoop, Sending
<1> QED
  BY <1>2 DEF ChipInv

LEMMA ChipSetup ==
    ASSUME ChipInv, RouteInv, Setup \/ Quiet \/ EndReset
    PROVE  ChipInv'
<1>1. CASE Setup
  <2>1. UNCHANGED <<args, spi, chips, i>> /\ pc = "setup"
    BY <1>1 DEF Setup, Goto
  <2>2. CASE LoadFails \/ OffChip \/ AnalogFails
    <3>1. UNCHANGED <<asics, inject>> /\ pc' = "dead"
      BY <1>1, <2>2 DEF Setup, Goto
    <3> QED
      BY <2>1, <3>1, ChipEnds DEF Ended
  <2>3. CASE ~(LoadFails \/ OffChip \/ AnalogFails)
    <3>1. /\ pc' = "quiet" /\ asics' = Configured
          /\ inject' = IF Injectable THEN args.inject ELSE <<>>
      BY <1>1, <2>3 DEF Setup, Goto
    <3>2. PreparedInv'
      BY <2>1, <2>3, <3>1, ArgumentsStay DEF PreparedInv
    <3>3. ChipsThere'
      BY <2>1 DEF ChipInv, ChipsThere, ChipForm
    <3> QED
      BY <2>1, <3>1, <3>2, <3>3, ChipStarts
  <2> QED
    BY <2>2, <2>3
<1>2. CASE Quiet
  <2>1. /\ UNCHANGED <<args, asics, inject, spi, i>> /\ pc = "quiet" /\ pc' = "reset"
        /\ chips' = [l \in Lanes |-> ResetChips(Chain)]
    BY <1>2 DEF Quiet, Goto
  <2>2. PreparedInv'
    BY <2>1, ArgumentsStay DEF ChipInv, PreparedInv
  <2>3. ChipForm(ResetChips(Chain))
    BY DEF ChipForm, ResetChips
  <2>4. ChipsThere'
    BY <2>1, <2>3 DEF ChipsThere, ChipForm
  <2> QED
    BY <2>1, <2>2, <2>4, ChipStarts
<1>3. CASE EndReset
  <2>1. UNCHANGED <<args, asics, inject, chips, spi, i, j>> /\ pc = "reset" /\ pc' = "route"
    BY <1>3 DEF EndReset, Goto
  <2>2. PreparedInv' /\ ChipsThere'
    BY <2>1, ChipsKept
  <2>3. j' = 1
    BY <2>1 DEF RouteInv
  <2> QED
    BY <2>1, <2>2, <2>3, ChipStarts
<1> QED
  BY <1>1, <1>2, <1>3

(* A payload begins; what is left of the one before is none.               *)
Begun(l, payload) ==
    spi' = [lane |-> l, payload |-> payload, sent |-> 0, coming |-> 0, level |-> 0,
            heard |-> TRUE, lost |-> FALSE]

LEMMA FrameLengths ==
    ASSUME NEW a, a.numChips \in Int
    PROVE  /\ writeSPIRoutingFrame(a).length > 0 /\ writeSPIRoutingFrame(a).header = "routing"
           /\ \A k : createSPIConfigFrame(a, 10, k).length > 0
<1>1. FillBytes(a) \in Nat
  BY DEF FillBytes
<1>2. VectorLength \in Nat
  BY SideAssumption
<1> QED
  BY <1>1, <1>2 DEF writeSPIRoutingFrame, createSPIConfigFrame

LEMMA ChainsGiven ==
    ASSUME Counters, NEW l, HasAsic(l)
    PROVE  /\ args.chipsPerLane \in Seq(Int) /\ Len(args.chipsPerLane) = Count
           /\ \A n \in 1 .. Count : args.chipsPerLane[n] \in Int
<1>1. Accepted(args)
  BY ArgumentsAssumption DEF Counters
<1>2. /\ Len(args.chipsPerLane) \in {0, Count} /\ args.chipsPerLane \in Seq(Int)
      /\ Len(args.yaml) \in 0 .. Len(args.chipsPerLane)
  BY <1>1 DEF Accepted, Count
<1>3. Len(args.chipsPerLane) # 0
  <2>1. Yamls # {}
    BY DEF HasAsic
  <2> QED
    BY <1>2, <2>1 DEF Yamls
<1> QED
  BY <1>2, <1>3

LEMMA ChipRoute ==
    ASSUME ChipInv, SessionInv, LinkInv, Route
    PROVE  ChipInv'
<1>0. Counters /\ Ready(session)
  BY DEF SessionInv
<1>1. UNCHANGED <<args, asics, inject, chips, i>> /\ pc = "route"
  BY DEF Route
<1>2. /\ i = 0 /\ ~(spi.level > 0 \/ spi.coming > 0)
      /\ j > 1 => j - 1 <= Count /\ lane = Lane(j - 1) /\ chips[lane].routed
  BY <1>1 DEF ChipInv, RoutingInv, LinkQuiet, Ended
<1>3. PreparedInv' /\ ChipsThere'
  BY <1>1, ChipsKept
<1>4. Count' = Count /\ LastLane' = LastLane /\ \A n : Lane(n)' = Lane(n)
  BY <1>1, ArgumentsStay
<1>5. Count \in Nat /\ j \in Nat \ {0}
  BY <1>0, LanesGiven DEF Counters
<1>6. CASE pc' = "dead"
  BY <1>1, <1>6, ChipEnds DEF Ended
<1>7. CASE j <= Count /\ pc' # "dead"
  <2> DEFINE frame == writeSPIRoutingFrame(asics[Lane(j)])
  <2>1. /\ HasAsic(Lane(j)) /\ lane' = Lane(j) /\ j' = j /\ pc' = "chunk" /\ resume' = "routed"
        /\ session' = setLaneCS(session, Lane(j), TRUE, TRUE) /\ Begun(Lane(j), frame)
    BY <1>7 DEF Route, writeSPI, Begun
  <2>2. frame.length > 0 /\ frame.header = "routing"
    <3>1. asics[Lane(j)].numChips \in Int
      BY <1>1, <2>1 DEF LinkInv, AsicsCounted
    <3> QED
      BY <3>1, FrameLengths
  <2>3. 3 \in ControlOf(session', lane')
    <3>1. Lane(j) \in Lanes
      BY <1>0, <1>7, LanesGiven
    <3>2. 3 \in ControlOf(session', Lane(j))
      BY <1>0, <2>1, <3>1, Selecting
    <3> QED
      BY <2>1, <3>2
  <2> HIDE DEF frame
  <2>4. /\ spi'.lane = Lane(j) /\ spi'.heard /\ spi'.level = 0 /\ spi'.coming = 0 /\ spi'.sent = 0
        /\ spi'.payload = frame
    BY <2>1 DEF Begun
  <2>5. ~Gone'
    BY <2>2, <2>4 DEF Gone
  <2>6. 3 \in Control(lane)'
    BY <2>3, ControlIs, Zenon DEF Control, ControlOf, Regs
  <2>7. RoutingInv'
    BY <1>1, <1>2, <1>4, <1>7, <2>1, <2>2, <2>4, <2>5, <2>6 DEF RoutingInv, Numbering, Sending
  <2>8. LinkQuiet' /\ ConfigInv' /\ SentInv'
    BY <2>1, <2>4 DEF LinkQuiet, ConfigInv, SentInv, Configuring, Sending, Working, InLoop
  <2> QED
    BY <1>3, <2>7, <2>8 DEF ChipInv
<1>8. CASE ~(j <= Count) /\ pc' # "dead"
  <2>1. args.chipsPerLane # <<>> /\ pc' = "select" /\ UNCHANGED <<session, spi, lane>> /\ j' = 1
    BY <1>8 DEF Route
  <2>2. Count >= 1
    <3>1. Accepted(args)
      BY <1>0, ArgumentsAssumption DEF Counters
    <3>2. Len(args.chipsPerLane) \in {0, Count} /\ args.chipsPerLane \in Seq(Int)
      BY <3>1 DEF Accepted, Count
    <3> QED
      BY <1>5, <2>1, <3>2
  <2>3. j > 1 /\ j - 1 = Count
    BY <1>2, <1>5, <1>8, <2>2
  <2>4. lane = LastLane /\ chips[LastLane].routed
    BY <1>2, <2>3 DEF LastLane
  <2>5. ConfigInv'
    <3>1. Count' >= 1 /\ i' \in Nat /\ chips'[LastLane'].routed /\ lane' = LastLane'
      BY <1>1, <1>2, <1>4, <2>1, <2>2, <2>4
    <3>2. SentBelow(i)'
      BY <1>1, <1>2 DEF SentBelow
    <3> QED
      BY <2>1, <3>1, <3>2 DEF ConfigInv, Configuring, Sending
  <2>6. LinkQuiet' /\ RoutingInv' /\ SentInv'
    BY <1>2, <2>1 DEF LinkQuiet, RoutingInv, SentInv, Numbering, Sending, Working, InLoop
  <2> QED
    BY <1>3, <2>5, <2>6 DEF ChipInv
<1> QED
  BY <1>6, <1>7, <1>8

LEMMA ChipRouted ==
    ASSUME ChipInv, SessionInv, Routed
    PROVE  ChipInv'
<1>1. UNCHANGED <<args, asics, inject, chips, i, spi, lane>> /\ pc = "routed" /\ pc' = "route"
      /\ j' = j + 1
  BY DEF Routed, Goto
<1>2. i = 0 /\ ~(spi.level > 0 \/ spi.coming > 0) /\ j <= Count /\ lane = Lane(j) /\ chips[lane].routed
  BY <1>1 DEF ChipInv, RoutingInv, LinkQuiet, Ended, Numbering
<1>3. PreparedInv' /\ ChipsThere'
  BY <1>1, ChipsKept
<1>4. Count' = Count /\ \A n : Lane(n)' = Lane(n)
  BY <1>1, ArgumentsStay
<1>5. j \in Nat
  BY DEF SessionInv, Counters
<1>6. j' - 1 = j
  BY <1>1, <1>5
<1>7. j' - 1 <= Count' /\ lane' = (Lane(j - 1))' /\ chips'[lane'].routed
  BY <1>1, <1>2, <1>4, <1>6 DEF Lane
<1>8. RoutingInv'
  BY <1>1, <1>2, <1>6, <1>7 DEF RoutingInv, Numbering, Sending
<1>9. LinkQuiet' /\ ConfigInv' /\ SentInv'
  BY <1>1, <1>2 DEF LinkQuiet, ConfigInv, SentInv, Configuring, Sending, Working, InLoop
<1> QED
  BY <1>3, <1>8, <1>9 DEF ChipInv

LEMMA ChipSelect ==
    ASSUME ChipInv, SessionInv, RouteInv, Select
    PROVE  ChipInv'
<1>0. Counters /\ Ready(session)
  BY DEF SessionInv
<1>1. UNCHANGED <<args, asics, inject, chips, i, spi, lane>> /\ pc = "select" /\ j' = 1
  BY DEF Select
<1>2. /\ ~(spi.level > 0 \/ spi.coming > 0) /\ Count >= 1 /\ i \in Nat /\ chips[LastLane].routed /\ SentBelow(i)
      /\ lane = LastLane
  BY <1>1 DEF ChipInv, ConfigInv, LinkQuiet, Ended
<1>3. /\ PreparedInv' /\ ChipsThere' /\ (\A n : SentBelow(n)' = SentBelow(n))
      /\ AllSent' = AllSent
  BY <1>1, ChipsKept
<1>4. Count' = Count /\ LastLane' = LastLane
  BY <1>1, ArgumentsStay
<1>5. CASE i < MostChips
  <2>1. pc' = "config" /\ session' = setLaneCS(session, lane, TRUE, TRUE)
    BY <1>5 DEF Select
  <2>2. 3 \in Control(LastLane)'
    <3>1. lane \in Lanes
      BY <1>0 DEF Counters
    <3>2. 3 \in ControlOf(session', lane)
      BY <1>0, <2>1, <3>1, Selecting
    <3>3. 3 \in Control(lane)'
      BY <1>1, <3>2 DEF Control, ControlOf, Regs
    <3>4. Control(lane)' = Control(LastLane)'
      BY <1>1, <1>2, <1>4 DEF Control
    <3> QED
      BY <3>3, <3>4
  <2>3. SentBelow(i)'
    BY <1>1, <1>2, <1>3 DEF SentBelow
  <2>4. ~(j' > Count') /\ ~(j' > 1) /\ chips'[LastLane'].routed /\ i' \in Nat /\ Count' >= 1
    <3>1. Count \in Nat
      BY <1>0, LanesGiven
    <3> QED
      BY <1>1, <1>2, <1>4, <3>1
  <2>5. ConfigInv'
    BY <2>1, <2>2, <2>3, <2>4 DEF ConfigInv, Configuring, Sending
  <2>6. LinkQuiet' /\ RoutingInv' /\ SentInv'
    BY <1>1, <1>2, <2>1 DEF LinkQuiet, RoutingInv, SentInv, Numbering, Sending, Working, InLoop
  <2> QED
    BY <1>3, <2>5, <2>6 DEF ChipInv
<1>6. CASE ~(i < MostChips)
  <2>1. pc' = "unhold"
    BY <1>6 DEF Select
  <2>2. AllSent
    <3>0. Count \in Nat
      BY <1>0, LanesGiven
    <3>1. HasAsic(LastLane)
      BY <1>1, <1>2, <3>0 DEF RouteInv, LastLane
    <3>2. args.chipsPerLane \in Seq(Int) /\ Count \in 1 .. Len(args.chipsPerLane)
      BY <1>0, <1>2, <3>0, <3>1, ChainsGiven
    <3>3. args.chipsPerLane[Count] <= MostChips /\ MostChips \in Int
      BY <3>2, MostOf DEF MostChips
    <3>4. args.chipsPerLane[Count] \in Int
      BY <3>2
    <3>5. \A k \in 0 .. args.chipsPerLane[Count] - 1 : k \in 0 .. i - 1 /\ k < args.chipsPerLane[Count]
      BY <1>2, <1>6, <3>3, <3>4
    <3> QED
      BY <1>2, <3>1, <3>5 DEF AllSent, SentBelow
  <2>3. SentInv'
    BY <1>3, <2>1, <2>2 DEF SentInv, Sending
  <2>4. LinkQuiet' /\ RoutingInv' /\ ConfigInv'
    BY <1>1, <1>2, <2>1 DEF LinkQuiet, RoutingInv, ConfigInv, Numbering, Configuring, Sending
  <2> QED
    BY <1>3, <2>3, <2>4 DEF ChipInv
<1> QED
  BY <1>5, <1>6

(* No lane is said to have more chips than are connected to it.            *)
ChipsConnected ==
    \A a \in Arguments : \A n \in 1 .. Len(a.chipsPerLane) : a.chipsPerLane[n] <= Chain

LEMMA ChipConfig ==
    ASSUME ChipsConnected, ChipInv, SessionInv, LinkInv, Config
    PROVE  ChipInv'
<1>0. Counters
  BY DEF SessionInv
<1>1. UNCHANGED <<args, asics, inject, chips>> /\ pc = "config"
  BY DEF Config
<1>2. /\ ~(spi.level > 0 \/ spi.coming > 0) /\ Count >= 1 /\ i \in Nat /\ chips[LastLane].routed /\ SentBelow(i)
      /\ 3 \in Control(LastLane) /\ (j > 1 => j - 1 <= Count /\ lane = Lane(j - 1))
      /\ (j > Count => SentBelow(i + 1))
  BY <1>1 DEF ChipInv, ConfigInv, LinkQuiet, Ended, Configuring
<1>3. /\ PreparedInv' /\ ChipsThere' /\ (\A n : SentBelow(n)' = SentBelow(n))
      /\ \A k : Sent(k)' = Sent(k)
  BY <1>1, ChipsKept
<1>4. Count' = Count /\ LastLane' = LastLane /\ \A n : Lane(n)' = Lane(n)
  BY <1>1, ArgumentsStay
<1>5. Count \in Nat /\ j \in Nat \ {0}
  BY <1>0, LanesGiven DEF Counters
<1>6. CASE pc' = "dead"
  BY <1>1, <1>6, ChipEnds DEF Ended
<1>7. CASE j <= Count /\ pc' # "dead"
  <2>1. UNCHANGED <<session, i>> /\ lane' = Lane(j) /\ j' = j + 1
    BY <1>7 DEF Config
  <2>2. 3 \in Control(LastLane)'
    BY <1>2, <1>4, <2>1 DEF Control
  <2>3. j' - 1 = j /\ j' > 1 /\ j' - 1 <= Count'
    BY <1>4, <1>5, <1>7, <2>1
  <2>4. lane' = (Lane(j - 1))'
    BY <1>1, <2>1, <2>3 DEF Lane
  <2>5. Count' >= 1 /\ i' \in Nat /\ chips'[LastLane'].routed /\ SentBelow(i)'
    <3>1. SentBelow(i)' = SentBelow(i)
      BY <1>3, <2>1 DEF SentBelow
    <3> QED
      BY <1>1, <1>2, <1>4, <2>1, <3>1
  <2>6. CASE /\ i < args.chipsPerLane[j] /\ Known(asics[Lane(j)], i)
             /\ writeSPI(Lane(j), createSPIConfigFrame(asics[Lane(j)], 10, i), "config")
    <3> DEFINE frame == createSPIConfigFrame(asics[Lane(j)], 10, i)
    <3>1. pc' = "chunk" /\ resume' = "config" /\ Begun(Lane(j), frame)
      BY <2>6 DEF writeSPI, Begun
    <3>2. frame.length > 0
      <4>1. HasAsic(Lane(j))
        BY <1>1, <1>5, <1>7 DEF LinkInv, RouteInv
      <4>2. asics[Lane(j)].numChips \in Int
        BY <1>1, <4>1 DEF LinkInv, AsicsCounted
      <4> QED
        BY <4>2, FrameLengths
    <3> HIDE DEF frame
    <3>3. /\ spi'.lane = Lane(j) /\ spi'.heard /\ spi'.level = 0 /\ spi'.coming = 0 /\ spi'.sent = 0
          /\ spi'.payload = frame
      BY <3>1 DEF Begun
    <3>4. ~Gone'
      BY <3>2, <3>3 DEF Gone
    <3>5. i < Chain
      <4>1. args \in Arguments
        BY <1>0 DEF Counters
      <4>2. HasAsic(Lane(j))
        BY <1>1, <1>5, <1>7 DEF LinkInv, RouteInv
      <4>3. j \in 1 .. Len(args.chipsPerLane) /\ args.chipsPerLane[j] \in Int
        BY <1>0, <1>5, <1>7, <4>2, ChainsGiven
      <4>4. args.chipsPerLane[j] <= Chain
        BY <4>1, <4>3 DEF ChipsConnected
      <4>5. Chain \in Nat
        BY MainScriptAssumption
      <4> QED
        BY <1>2, <2>6, <4>3, <4>4, <4>5
    <3>6. ASSUME spi'.lane = LastLane'
          PROVE  /\ i' < Chain /\ i' \in DOMAIN asics'[LastLane'].config
                 /\ spi'.payload = createSPIConfigFrame(asics'[LastLane'], 10, i')
      <4>1. Lane(j) = LastLane
        BY <1>4, <3>3, <3>6
      <4>2. i' = i /\ asics' = asics /\ LastLane' = LastLane
        BY <1>1, <1>4, <2>1
      <4>3. i \in DOMAIN asics[LastLane].config
        BY <2>6, <4>1 DEF Known
      <4>4. spi'.payload = createSPIConfigFrame(asics[LastLane], 10, i)
        BY <3>3, <4>1 DEF frame
      <4> QED
        BY <3>5, <4>2, <4>3, <4>4
    <3>7. spi'.payload = createSPIConfigFrame(asics[LastLane], 10, i)'
          <=> spi'.payload = createSPIConfigFrame(asics'[LastLane'], 10, i')
      BY DEF createSPIConfigFrame, FillBytes, gen_config_vector_SPI
    <3>8. spi'.lane = lane' /\ spi'.payload.length > 0
      BY <2>1, <3>2, <3>3
    <3>9. ConfigInv'
      BY <2>2, <2>3, <2>4, <2>5, <3>1, <3>3, <3>4, <3>6, <3>7, <3>8
      DEF ConfigInv, Configuring, Sending
    <3>10. LinkQuiet' /\ RoutingInv' /\ SentInv'
      BY <3>1, <3>3 DEF LinkQuiet, RoutingInv, SentInv, Numbering, Sending, Working, InLoop
    <3> QED
      BY <1>3, <3>9, <3>10 DEF ChipInv
  <2>7. CASE i >= args.chipsPerLane[j] /\ UNCHANGED <<pc, spi, resume>>
    <3>1. j' > Count' => SentBelow(i + 1)'
      <4> SUFFICES ASSUME j' > Count' PROVE SentBelow(i + 1)'
        OBVIOUS
      <4>1. j = Count
        BY <1>4, <1>5, <1>7, <2>1
      <4>2. args.chipsPerLane[Count] \in Int
        <5>1. HasAsic(Lane(j))
          BY <1>1, <1>5, <1>7 DEF LinkInv, RouteInv
        <5> QED
          BY <1>0, <1>2, <1>5, <5>1, ChainsGiven
      <4>3. SentBelow(i + 1)
        BY <1>2, <2>7, <4>1, <4>2 DEF SentBelow
      <4>4. SentBelow(i + 1)' = SentBelow(i + 1)
        BY <1>3, <2>1 DEF SentBelow
      <4> QED
        BY <4>3, <4>4
    <3>2. ConfigInv'
      BY <1>1, <2>2, <2>3, <2>4, <2>5, <2>7, <3>1 DEF ConfigInv, Configuring, Sending
    <3>3. LinkQuiet' /\ RoutingInv' /\ SentInv'
      BY <1>1, <1>2, <2>7 DEF LinkQuiet, RoutingInv, SentInv, Numbering, Sending, Working, InLoop
    <3> QED
      BY <1>3, <3>2, <3>3 DEF ChipInv
  <2> QED
    BY <1>7, <2>6, <2>7 DEF Config
<1>8. CASE ~(j <= Count) /\ pc' # "dead"
  <2>1. pc' = "select" /\ i' = i + 1 /\ UNCHANGED <<j, lane, spi, resume>>
    BY <1>8 DEF Config
  <2>2. j > 1 /\ j - 1 = Count /\ j > Count
    BY <1>2, <1>5, <1>8
  <2>3. lane' = LastLane'
    BY <1>2, <1>4, <2>1, <2>2 DEF LastLane
  <2>4. SentBelow(i)'
    BY <1>1, <1>2, <1>3, <2>1, <2>2 DEF SentBelow, Sent
  <2>5. ConfigInv'
    BY <1>1, <1>2, <1>4, <2>1, <2>3, <2>4 DEF ConfigInv, Configuring, Sending
  <2>6. LinkQuiet' /\ RoutingInv' /\ SentInv'
    BY <1>2, <2>1 DEF LinkQuiet, RoutingInv, SentInv, Numbering, Sending, Working, InLoop
  <2> QED
    BY <1>3, <2>5, <2>6 DEF ChipInv
<1> QED
  BY <1>6, <1>7, <1>8

(* A payload goes on.                                                      *)
LEMMA ChipSends ==
    ASSUME ChipInv, UNCHANGED <<session, args, asics, inject, chips, i, j, lane, resume>>,
           pc \in {"chunk", "wait"}, pc' \in {"chunk", "wait"}, resume # "setup",
           UNCHANGED <<spi.lane, spi.payload, spi.heard>>, Gone' => Gone, LinkQuiet'
    PROVE  ChipInv'
<1>1. PreparedInv' /\ ChipsThere' /\ (\A k : Sent(k)' = Sent(k))
      /\ (\A n : SentBelow(n)' = SentBelow(n)) /\ AllSent' = AllSent
  BY ChipsKept
<1>2. \A b : Sending(b)' = Sending(b)
  BY DEF Sending
<1>3. Count' = Count /\ LastLane' = LastLane /\ (\A n : Lane(n)' = Lane(n))
      /\ \A l : Control(l)' = Control(l)
  BY ArgumentsStay DEF Control
<1>4. RoutingInv'
  BY <1>2, <1>3 DEF ChipInv, RoutingInv, Numbering
<1>5. ConfigInv'
  BY <1>1, <1>2, <1>3 DEF ChipInv, ConfigInv, Configuring
<1>6. SentInv'
  BY <1>1, <1>2 DEF ChipInv, SentInv, Working, InLoop, Sending
<1> QED
  BY <1>1, <1>4, <1>5, <1>6 DEF ChipInv

LEMMA ChipChunk ==
    ASSUME ChipInv, SessionInv, LinkInv, WriteChunk
    PROVE  ChipInv'
<1> DEFINE n == ChunkAfter(spi.payload, spi.sent, Step)
<1>0. Counters
  BY DEF SessionInv
<1>1. UNCHANGED <<session, args, asics, inject, chips, i, j, lane, resume>> /\ pc = "chunk"
  BY DEF WriteChunk
<1>2. resume \in {"routed", "config", "flushed", "loop"} /\ Sending(resume)
  BY <1>0, <1>1 DEF Counters, Sending
<1>3. /\ spi.level = 0 /\ spi.coming = 0 /\ {spi.payload.length, spi.sent} \subseteq Nat
      /\ spi.sent <= spi.payload.length
  BY <1>1 DEF LinkInv
<1>4. Step \in Nat \ {0}
  BY MainScriptAssumption
<1>5. n \in Nat /\ (n = 0 => spi.sent = spi.payload.length)
  BY <1>3, <1>4 DEF ChunkAfter
<1>6. CASE n # 0
  <2>1. pc' = "wait" /\ spi' = [spi EXCEPT !.sent = @ + n, !.coming = @ + n]
    BY <1>6 DEF WriteChunk
  <2> HIDE DEF n
  <2>2. spi.coming + n = n /\ n > 0
    BY <1>3, <1>5, <1>6
  <2>3. spi' = [lane |-> spi.lane, payload |-> spi.payload, sent |-> spi.sent + n,
                coming |-> spi.coming + n, level |-> spi.level, heard |-> spi.heard,
                lost |-> spi.lost]
    BY <2>1 DEF LinkInv
  <2>4. UNCHANGED <<spi.lane, spi.payload, spi.heard>> /\ spi'.coming = n
    BY <2>2, <2>3
  <2>5. ~Gone' /\ LinkQuiet'
    BY <2>1, <2>2, <2>4 DEF Gone, LinkQuiet
  <2> QED
    BY <1>1, <1>2, <2>1, <2>4, <2>5, ChipSends
<1>7. CASE n = 0
  <2>1. spi' = spi /\ pc' = resume
    BY <1>7 DEF WriteChunk
  <2> HIDE DEF n
  <2>2. Gone
    BY <1>3, <1>5, <1>7 DEF Gone
  <2>3. /\ PreparedInv' /\ ChipsThere' /\ (\A k : SentBelow(k)' = SentBelow(k))
    BY <1>1, ChipsKept
  <2>4. Count' = Count /\ LastLane' = LastLane /\ \A k : Lane(k)' = Lane(k)
    BY <1>1, ArgumentsStay
  <2>5. LinkQuiet'
    BY <1>3, <2>1 DEF LinkQuiet
  <2>6. CASE resume = "routed"
    <3>1. i = 0 /\ j <= Count /\ lane = Lane(j) /\ chips[lane].routed
      BY <1>2, <2>2, <2>6 DEF ChipInv, RoutingInv, Numbering
    <3>2. j' <= Count' /\ lane' = Lane(j)' /\ i' = 0 /\ chips'[lane'].routed
      BY <1>1, <2>4, <3>1 DEF Lane
    <3>3. RoutingInv' /\ ConfigInv' /\ SentInv'
      BY <2>1, <2>6, <3>2 DEF RoutingInv, ConfigInv, SentInv, Numbering, Configuring, Sending,
                              Working, InLoop
    <3> QED
      BY <2>3, <2>5, <3>3 DEF ChipInv
  <2>7. CASE resume = "config"
    <3>1. /\ Count >= 1 /\ i \in Nat /\ chips[LastLane].routed /\ SentBelow(i)
          /\ 3 \in Control(LastLane) /\ j > 1 /\ j - 1 <= Count /\ lane = Lane(j - 1)
          /\ spi.lane = lane /\ (spi.lane = LastLane => Sent(i))
      BY <1>2, <2>2, <2>7 DEF ChipInv, ConfigInv, Configuring
    <3>2. j > Count => SentBelow(i + 1)
      <4> SUFFICES ASSUME j > Count PROVE SentBelow(i + 1)
        OBVIOUS
      <4>1. Count \in Nat /\ j \in Nat
        BY <1>0, LanesGiven DEF Counters
      <4>2. j - 1 = Count
        BY <3>1, <4>1
      <4>3. Sent(i)
        BY <3>1, <4>2 DEF LastLane
      <4> QED
        BY <3>1, <4>3 DEF SentBelow
    <3>3. /\ Count' >= 1 /\ i' \in Nat /\ chips'[LastLane'].routed /\ SentBelow(i)'
          /\ (j' > Count' => SentBelow(i + 1)')
      <4>1. SentBelow(i)' = SentBelow(i) /\ SentBelow(i + 1)' = SentBelow(i + 1)
        BY <1>1, <2>3, <2>4, ChipsKept DEF SentBelow, Sent
      <4> QED
        BY <1>1, <2>4, <3>1, <3>2, <4>1
    <3>4. 3 \in Control(LastLane)' /\ j' - 1 <= Count' /\ lane' = (Lane(j - 1))'
      BY <1>1, <2>4, <3>1 DEF Control, Lane
    <3>5. ConfigInv'
      BY <2>1, <2>7, <3>3, <3>4 DEF ConfigInv, Configuring, Sending
    <3>6. RoutingInv' /\ SentInv'
      BY <2>1, <2>7 DEF RoutingInv, SentInv, Numbering, Sending, Working, InLoop
    <3> QED
      BY <2>3, <2>5, <3>5, <3>6 DEF ChipInv
  <2>8. CASE resume \in {"flushed", "loop"}
    <3>1. Working /\ Working'
      BY <1>1, <1>2, <2>1, <2>8 DEF Working, InLoop, Sending
    <3>2. spi'.level = 0 /\ spi'.coming = 0 /\ spi'.payload.header = "empty"
      BY <1>2, <1>3, <2>1, <2>8 DEF ChipInv, SentInv
    <3> QED
      BY <1>1, <3>1, <3>2, ChipWorks
  <2> QED
    BY <1>2, <2>6, <2>7, <2>8
<1> QED
  BY <1>6, <1>7

LEMMA ChipWritten ==
    ASSUME ChipInv, SessionInv, ChunkWritten
    PROVE  ChipInv'
<1>1. /\ UNCHANGED <<session, args, asics, inject, chips, i, j, lane, resume, spi>>
      /\ pc = "wait" /\ pc' = "chunk" /\ spi.level = 0 /\ spi.coming = 0
  BY DEF ChunkWritten, Goto, board
<1>2. resume # "setup"
  BY <1>1 DEF SessionInv, Counters
<1>3. LinkQuiet' /\ (Gone' => Gone)
  BY <1>1 DEF LinkQuiet, Gone
<1> QED
  BY <1>1, <1>2, <1>3, ChipSends

(* A byte comes, and is lost where the payload does not matter.            *)
LEMMA ChipArrives ==
    ASSUME ChipInv, SessionInv, LinkInv, ByteArrives
    PROVE  ChipInv'
<1> DEFINE full  == spi.level = MosiDepth
           level == IF full THEN MosiDepth ELSE spi.level + 1
           lost  == spi.lost \/ full
<1>1. /\ UNCHANGED <<session, chips, args, asics, inject, pc, i, j, lane, resume>>
      /\ spi' = [spi EXCEPT !.coming = @ - 1, !.lost = lost, !.level = level]
      /\ spi.coming > 0
  BY DEF ByteArrives, script
<1>2. level > 0
  BY MainScriptAssumption DEF LinkInv
<1> HIDE DEF level, lost
<1>3. spi' = [lane |-> spi.lane, payload |-> spi.payload, sent |-> spi.sent,
              coming |-> spi.coming - 1, level |-> level, heard |-> spi.heard,
              lost |-> lost]
  BY <1>1 DEF LinkInv
<1>4. UNCHANGED <<spi.lane, spi.payload, spi.heard>> /\ spi'.level = level
  BY <1>3
<1>5. CASE Ended
  <2>1. Ended' /\ (pc \notin {"setup", "dead"} \/ pc' = "dead")
    BY <1>1, <1>5 DEF Ended
  <2> QED
    BY <1>1, <2>1, ChipEnds
<1>6. CASE ~Ended
  <2>1. pc = "wait" /\ pc' = "wait"
    BY <1>1, <1>6 DEF ChipInv, LinkQuiet
  <2>2. resume # "setup"
    BY <2>1 DEF SessionInv, Counters
  <2>3. ~Gone' /\ LinkQuiet'
    BY <1>2, <1>4, <2>1 DEF Gone, LinkQuiet
  <2> QED
    BY <1>1, <1>4, <2>1, <2>2, <2>3, ChipSends
<1> QED
  BY <1>5, <1>6

LEMMA ChipShift ==
    ASSUME ChipInv, SessionInv, LinkInv, Shift
    PROVE  ChipInv'
<1> DEFINE heard == spi.heard /\ Selected(spi.lane)
           last  == spi.level = 1 /\ spi.coming = 0 /\ spi.sent = spi.payload.length
           l     == spi.lane
<1>0. Counters
  BY DEF SessionInv
<1>1. /\ UNCHANGED <<session, args, asics, inject, pc, i, j, lane, resume>>
      /\ spi.level > 0 /\ spi' = [spi EXCEPT !.level = @ - 1, !.heard = heard]
      /\ chips' = IF last /\ heard /\ ~spi.lost
                  THEN [chips EXCEPT ![l] = Receive(@, spi.payload)] ELSE chips
  BY DEF Shift, script
<1> HIDE DEF heard
<1>2. /\ l \in Lanes /\ (spi.lost => resume = "loop")
      /\ spi' = [lane |-> spi.lane, payload |-> spi.payload, sent |-> spi.sent,
                 coming |-> spi.coming, level |-> spi.level - 1, heard |-> heard,
                 lost |-> spi.lost]
  <2>1. l \in Lanes /\ (spi.lost => resume = "loop")
    BY DEF LinkInv
  <2>2. spi' = [lane |-> spi.lane, payload |-> spi.payload, sent |-> spi.sent,
                coming |-> spi.coming, level |-> spi.level - 1, heard |-> heard,
                lost |-> spi.lost]
    BY <1>1 DEF LinkInv
  <2> QED
    BY <2>1, <2>2
<1>3. /\ spi'.lane = l /\ spi'.payload = spi.payload /\ spi'.heard = heard
      /\ spi'.level = spi.level - 1 /\ spi'.sent = spi.sent /\ spi'.coming = spi.coming
      /\ spi.level \in Nat
  BY <1>2 DEF LinkInv
<1>4. Gone' => last
  BY <1>3 DEF Gone
<1>5. ChipForm(chips[l]) /\ chips = [m \in Lanes |-> chips[m]]
  BY <1>2 DEF ChipInv, ChipsThere
<1> HIDE DEF last, l
<1>6. ChipsThere'
  <2>1. CASE chips' = chips
    BY <2>1 DEF ChipInv, ChipsThere, ChipForm
  <2>2. CASE chips' = [chips EXCEPT ![l] = Receive(@, spi.payload)]
    <3>1. \A m \in Lanes : chips'[m] = IF m = l THEN Receive(chips[l], spi.payload) ELSE chips[m]
      BY <1>2, <1>5, <2>2
    <3>2. chips' = [m \in Lanes |-> chips'[m]]
      BY <1>5, <2>2
    <3>3. ChipForm(Receive(chips[l], spi.payload))
      BY <1>5, ReceiveIs
    <3>4. \A m \in Lanes : ChipForm(chips'[m])
      BY <3>1, <3>3 DEF ChipInv, ChipsThere
    <3>5. \A m \in Lanes : ChipForm(chips[m])'
      BY <3>4 DEF ChipForm
    <3> QED
      BY <3>2, <3>5 DEF ChipsThere
  <2> QED
    BY <1>1, <2>1, <2>2
<1>7. PreparedInv'
  BY <1>1, ArgumentsStay DEF ChipInv, PreparedInv
<1>8. LinkQuiet'
  BY <1>1, <1>3 DEF ChipInv, LinkQuiet, Ended
<1>9. CASE Ended
  <2>1. RoutingInv' /\ ConfigInv' /\ SentInv'
    BY <1>1, <1>9 DEF RoutingInv, ConfigInv, SentInv, Numbering, Configuring, Working, InLoop,
                      Sending, Ended
  <2> QED
    BY <1>6, <1>7, <1>8, <2>1 DEF ChipInv
<1>10. CASE ~Ended
  <2>1. pc = "wait" /\ pc' = "wait"
    BY <1>1, <1>10 DEF ChipInv, LinkQuiet
  <2>2. resume \in {"routed", "config", "flushed", "loop"} /\ Sending(resume)
    BY <1>0, <2>1 DEF Counters, Sending
  <2>3. Count' = Count /\ LastLane' = LastLane /\ (\A n : Lane(n)' = Lane(n))
        /\ \A m : Control(m)' = Control(m)
    BY <1>1, ArgumentsStay DEF Control
  <2>4. CASE resume = "routed"
    <3>1. /\ i = 0 /\ j <= Count /\ lane = Lane(j) /\ l = lane /\ 3 \in Control(lane) /\ spi.heard
          /\ spi.payload.header = "routing" /\ spi.payload.length > 0
      BY <2>2, <2>4 DEF ChipInv, RoutingInv, Numbering, l
    <3>2. heard
      BY <3>1 DEF heard, Selected, l
    <3>3. Gone' => chips'[lane].routed
      <4> SUFFICES ASSUME Gone' PROVE chips'[lane].routed
        OBVIOUS
      <4>1. chips' = [chips EXCEPT ![l] = Receive(@, spi.payload)]
        BY <1>1, <1>2, <1>4, <2>4, <3>2
      <4>2. chips'[l] = Receive(chips[l], spi.payload)
        BY <1>2, <1>5, <4>1
      <4>3. Receive(chips[l], spi.payload).routed = TRUE
        BY <1>5, <3>1, ReceiveIs
      <4> QED
        BY <3>1, <4>2, <4>3
    <3>4. /\ i' = 0 /\ j' <= Count' /\ lane' = Lane(j)' /\ spi'.lane = lane' /\ spi'.heard
          /\ 3 \in Control(lane)' /\ spi'.payload.header = "routing" /\ spi'.payload.length > 0
          /\ (Gone' => chips'[lane'].routed)
      BY <1>1, <1>3, <2>3, <3>1, <3>2, <3>3 DEF Lane, Control
    <3>5. RoutingInv' /\ ConfigInv' /\ SentInv'
      BY <1>1, <2>1, <2>4, <3>4 DEF RoutingInv, ConfigInv, SentInv, Numbering, Configuring, Sending,
                                    Working, InLoop
    <3> QED
      BY <1>6, <1>7, <1>8, <3>5 DEF ChipInv
  <2>5. CASE resume = "config"
    <3>1. /\ Count >= 1 /\ i \in Nat /\ chips[LastLane].routed /\ SentBelow(i)
          /\ 3 \in Control(LastLane) /\ j > 1 /\ j - 1 <= Count /\ lane = Lane(j - 1)
          /\ l = lane /\ spi.payload.length > 0
          /\ l = LastLane => /\ spi.heard /\ i < Chain /\ i \in DOMAIN asics[LastLane].config
                             /\ spi.payload = createSPIConfigFrame(asics[LastLane], 10, i)
      BY <2>2, <2>5 DEF ChipInv, ConfigInv, Configuring, l
    <3>2. LastLane \in Lanes
      <4>1. Count \in 1 .. Len(args.lanes) /\ args.lanes \in Seq(Lanes)
        BY <1>0, <3>1, LanesGiven DEF Count
      <4> QED
        BY <4>1 DEF LastLane, Lane
    <3> DEFINE c == chips[LastLane]
               d == chips'[LastLane]
    <3>3. /\ d.routed /\ DOMAIN c.config \subseteq DOMAIN d.config
          /\ \A k \in DOMAIN c.config : k # i => d.config[k] = c.config[k]
          /\ \A k \in DOMAIN c.config : d.config[k] = c.config[k] \/ d.config[k] = asics[LastLane].config[k]
          /\ l = LastLane /\ Gone' =>
                i \in DOMAIN d.config /\ d.config[i] = asics[LastLane].config[i]
      <4>1. CASE l = LastLane /\ chips' = [chips EXCEPT ![l] = Receive(@, spi.payload)]
        <5> DEFINE frame == createSPIConfigFrame(asics[LastLane], 10, i)
        <5>1. d = Receive(c, frame)
          BY <1>2, <1>5, <3>1, <4>1
        <5>2. ChipForm(c) /\ c.routed /\ i < Chain
          BY <1>5, <3>1, <4>1
        <5> HIDE DEF c, d
        <5>3. /\ DOMAIN d.config = {i} \cup DOMAIN c.config
              /\ d.config[i] = asics[LastLane].config[i]
              /\ \A k \in DOMAIN c.config : k # i => d.config[k] = c.config[k]
          BY <5>1, <5>2, ReceiveConfig
        <5>4. d.routed
          BY <5>1, <5>2, ReceiveIs
        <5> QED
          BY <5>3, <5>4
      <4>2. CASE l # LastLane
        <5>1. d = c
          BY <1>1, <1>2, <1>5, <3>2, <4>2
        <5> QED
          BY <3>1, <4>2, <5>1
      <4>3. CASE l = LastLane /\ chips' = chips /\ ~Gone'
        BY <3>1, <4>3
      <4>4. l = LastLane /\ Gone' => chips' = [chips EXCEPT ![l] = Receive(@, spi.payload)]
        <5>1. l = LastLane => heard
          BY <3>1 DEF heard, Selected, l
        <5> QED
          BY <1>1, <1>2, <1>4, <2>5, <5>1
      <4> QED
        BY <1>1, <4>1, <4>2, <4>3, <4>4
    <3>4. /\ \A k : Sent(k) => Sent(k)'
          /\ l = LastLane /\ Gone' => (Sent(i))'
      <4>1. \A k : Sent(k)' <=> /\ k \in DOMAIN asics[LastLane].config /\ k \in DOMAIN d.config
                                /\ d.config[k] = asics[LastLane].config[k]
        BY <1>1, <2>3 DEF Sent
      <4>2. \A k : Sent(k) <=> /\ k \in DOMAIN asics[LastLane].config /\ k \in DOMAIN c.config
                               /\ c.config[k] = asics[LastLane].config[k]
        BY DEF Sent
      <4>4. l = LastLane /\ Gone' => (Sent(i))'
        BY <1>1, <2>3, <3>1, <3>3 DEF Sent
      <4> HIDE DEF c, d
      <4>3. ASSUME NEW k, Sent(k) PROVE Sent(k)'
        BY <3>3, <4>1, <4>2, <4>3
      <4> QED
        BY <4>3, <4>4
    <3>5. SentBelow(i)'
      BY <1>1, <2>3, <3>1, <3>4 DEF SentBelow
    <3>6. l = LastLane => spi'.heard
      BY <1>3, <3>1 DEF heard, Selected, l
    <3>7. /\ Count' >= 1 /\ i' \in Nat /\ chips'[LastLane'].routed
          /\ 3 \in Control(LastLane)' /\ j' > 1 /\ j' - 1 <= Count' /\ lane' = (Lane(j - 1))'
          /\ spi'.lane = lane' /\ spi'.payload.length > 0
      BY <1>1, <1>3, <2>3, <3>1, <3>3 DEF Lane, Control
    <3>8. spi'.lane = LastLane' =>
                /\ spi'.heard /\ i' < Chain /\ i' \in DOMAIN asics'[LastLane'].config
                /\ spi'.payload = createSPIConfigFrame(asics[LastLane], 10, i)
                /\ (Gone' => (Sent(i))')
      BY <1>1, <1>3, <2>3, <3>1, <3>4, <3>6
    <3>9. spi'.payload = createSPIConfigFrame(asics[LastLane], 10, i)
           => spi'.payload = (createSPIConfigFrame(asics[LastLane], 10, i))'
      BY <1>1, <2>3 DEF createSPIConfigFrame, FillBytes, gen_config_vector_SPI
    <3>10. ConfigInv'
      BY <1>1, <2>1, <2>5, <3>5, <3>7, <3>8, <3>9 DEF ConfigInv, Configuring, Sending
    <3>11. RoutingInv' /\ SentInv'
      BY <1>1, <2>1, <2>5 DEF RoutingInv, SentInv, Numbering, Sending, Working, InLoop
    <3> QED
      BY <1>6, <1>7, <1>8, <3>10, <3>11 DEF ChipInv
  <2>6. CASE resume \in {"flushed", "loop"}
    <3>1. spi.payload.header = "empty"
      BY <2>2, <2>6 DEF ChipInv, SentInv
    <3>2. chips' = chips
      <4>1. Receive(chips[l], spi.payload) = chips[l]
        BY <1>5, <3>1, ReceiveIs
      <4> QED
        BY <1>1, <1>2, <1>5, <4>1
    <3>3. Working /\ Working'
      BY <1>1, <2>1, <2>2, <2>6 DEF Working, InLoop, Sending
    <3> QED
      BY <1>1, <1>3, <2>1, <3>1, <3>2, <3>3, ChipWorks
  <2> QED
    BY <2>2, <2>4, <2>5, <2>6
<1> QED
  BY <1>9, <1>10

LEMMA ChipNext ==
    ASSUME ChipsConnected, ChipInv, SessionInv, LinkInv, [Next]_vars
    PROVE  ChipInv'
<1>1. RouteInv
  BY DEF LinkInv
<1>2. CASE Setup \/ Quiet \/ EndReset
  BY <1>1, <1>2, ChipSetup
<1>3. CASE Route \/ Routed \/ Select \/ Config
  BY <1>1, <1>3, ChipRoute, ChipRouted, ChipSelect, ChipConfig
<1>4. CASE WriteChunk \/ ChunkWritten \/ ByteArrives \/ Shift
  BY <1>4, ChipChunk, ChipWritten, ChipArrives, ChipShift
<1>5. CASE \/ Unhold \/ (\E interrupt \in {0, 1} : Poll(interrupt)) \/ Deselect
           \/ Empty \/ Discard \/ Begin \/ Enable
           \/ Loop \/ ReadLevelLow \/ ReadLevelHigh \/ ReadWord \/ Store
  BY <1>5, ChipLater
<1>6. CASE TimedOut \/ Cancel \/ End \/ Stop \/ Process
  BY <1>6, ChipOver
<1>7. CASE Expire \/ Push \/ (\E l \in Lanes : StartFrame(l)) \/ UNCHANGED vars
  BY <1>7, ChipIdle
<1> QED
  BY <1>2, <1>3, <1>4, <1>5, <1>6, <1>7 DEF Next, Script, Environment

(* What the chips of the last lane have is what was asked for.             *)
LEMMA SentIsAsked ==
    ASSUME ChipInv, SessionInv, InLoop,
           NEW k \in 0 .. args.chipsPerLane[Count] - 1
    PROVE  AsAsked(Lane(Count), k)
<1> DEFINE l == Lane(Count)
           y == args.yaml[FileOf(l)].config[k]
           c == chips[l].config[k]
<1>1. /\ Accepted(args) /\ ~LoadFails /\ ~OffChip /\ ~AnalogFails /\ asics = Configured
      /\ inject = IF Injectable THEN args.inject ELSE <<>>
  <2>1. pc \notin {"setup", "dead"}
    BY DEF InLoop
  <2> QED
    BY <2>1, ArgumentsAssumption DEF ChipInv, PreparedInv, SessionInv, Counters
<1>2. HasAsic(l) /\ Sent(k)
  BY DEF ChipInv, SentInv, Working, AllSent, LastLane
<1>3. k \in DOMAIN Configured[l].config /\ k \in DOMAIN chips[l].config /\ c = Configured[l].config[k]
  BY <1>1, <1>2 DEF Sent, LastLane
<1> HIDE DEF l
<1>4. Asked(c, y, InjectsInto(l, k))
  BY <1>1, <1>2, <1>3, ConfiguredIs
<1>5. InjectsInto(l, k) <=> inject # <<>> /\ inject[1] = l /\ inject[2] = k
  BY <1>1 DEF InjectsInto, Injectable
<1>6. InjectsInto(l, k) => inject = args.inject
  BY <1>1 DEF InjectsInto
<1> HIDE DEF y, c
<1>7. /\ k \in DOMAIN chips[l].config
      /\ LET here == inject # <<>> /\ inject[1] = l /\ inject[2] = k
             extra(set, x) == IF here THEN set \cup {x} ELSE set
         IN /\ Rows(c.recconfig) = extra(Rows(y.recconfig), inject[3])
            /\ Columns(c.recconfig) = extra(Columns(y.recconfig), inject[4])
            /\ On(c.recconfig) = extra(On(y.recconfig), <<inject[4], inject[3]>>)
            /\ c.vinj = IF here /\ args.vinj # "default" THEN args.vinj ELSE y.vinj
  BY <1>3, <1>4, <1>5, <1>6 DEF Asked
<1> QED
  BY <1>7 DEF AsAsked, l, y, c

(* While data is taken, the chips of the lane that was configured last     *)
(* have the configuration of their file, and the chip that injects has one *)
(* more pixel on and injecting, at the voltage asked for; when no lane is  *)
(* said to have more chips than it has.                                    *)
THEOREM ScriptConfiguresLastLane ==
    ASSUME ChipsConnected
    PROVE  Spec => []LastLaneConfigured
<1>1. ChipInv /\ SessionInv => LastLaneConfigured
  BY SentIsAsked DEF LastLaneConfigured
<1>2. LinkInv /\ SessionInv /\ [Next]_vars => LinkInv'
  BY LinkNext
<1>3. ChipInv /\ LinkInv /\ SessionInv /\ [Next]_vars => ChipInv'
  BY ChipNext
<1> QED
  BY <1>1, <1>2, <1>3, LinkInit, ChipInit, SessionAlways, PTL DEF Spec

=============================================================================
