--------------------------- MODULE RegisterTable ---------------------------
(***************************************************************************)
(* The registers of the generated driver                                   *)
(* rtl/top/fsp/astep24_20l_top/__init__.py: where each lies, how many      *)
(* bytes a call writes or reads by default, and whether the address counts *)
(* up over them.  The firmware has LaneCount lanes, and the driver one set *)
(* of functions per lane.                                                  *)
(***************************************************************************)
EXTENDS Integers

CONSTANT LaneCount   \* 20

ASSUME LaneAssumption == LaneCount \in 1 .. 20

Lanes == 0 .. LaneCount - 1

ReadWrite(a, n) == [address |-> a, width |-> n, increment |-> n > 1,
                    fifo |-> FALSE, readonly |-> FALSE]
ReadOnly(a, n)  == [ReadWrite(a, n) EXCEPT !.readonly = TRUE]
ToFifo(a)       == [ReadWrite(a, 1) EXCEPT !.fifo = TRUE]
FromFifo(a)     == [ToFifo(a) EXCEPT !.readonly = TRUE]

-----------------------------------------------------------------------------
(* Housekeeping.                                                           *)

hk_firmware_id              == ReadOnly(0, 4)
hk_firmware_version         == ReadOnly(4, 4)
hk_xadc_temperature         == ReadOnly(8, 2)
hk_xadc_vccint              == ReadOnly(10, 2)
hk_conversion_trigger       == ReadWrite(12, 4)
hk_stat_conversions_counter == ReadOnly(16, 4)
hk_ctrl                     == ReadWrite(20, 1)
hk_adcdac_mosi_fifo         == ToFifo(21)
hk_adc_miso_fifo            == FromFifo(22)
hk_adc_miso_fifo_read_size  == ReadOnly(23, 4)
hk_conversion_trigger_match == ReadWrite(552, 4)

(* Clock dividers of the SPI masters.                                      *)
spi_layers_ckdivider        == ReadWrite(27, 1)
spi_hk_ckdivider            == ReadWrite(28, 1)

(* One per lane.                                                           *)
layer_cfg_ctrl(n)                 == ReadWrite(29 + n, 1)
layer_status(n)                   == ReadOnly(49 + n, 1)
layer_stat_frame_counter(n)       == ReadWrite(69 + 4 * n, 4)
layer_stat_idle_counter(n)        == ReadWrite(149 + 4 * n, 4)
layer_mosi(n)                     == ToFifo(229 + 5 * n)
layer_mosi_write_size(n)          == ReadOnly(230 + 5 * n, 4)
layer_loopback_miso(n)            == ToFifo(329 + 5 * n)
layer_loopback_miso_write_size(n) == ReadOnly(330 + 5 * n, 4)
layer_loopback_mosi(n)            == FromFifo(429 + 5 * n)
layer_loopback_mosi_read_size(n)  == ReadOnly(430 + 5 * n, 4)

(* Time stamps of the frames and the end of a readout.                     *)
layers_cfg_frame_tag_counter_ctrl          == ReadWrite(529, 1)
layers_cfg_frame_tag_counter_trigger       == ReadWrite(530, 4)
layers_cfg_frame_tag_counter               == ReadWrite(534, 4)
layers_cfg_frame_tag_counter_trigger_match == ReadWrite(556, 4)
layers_cfg_nodata_continue                 == ReadWrite(538, 1)

(* Shift registers, injection, readout and pins of the board.              *)
layers_sr_out            == ReadWrite(539, 1)
layers_sr_in             == ReadWrite(540, 1)
layers_inj_ctrl          == ReadWrite(541, 1)
layers_inj_waddr         == ReadWrite(542, 1)
layers_inj_wdata         == ReadWrite(543, 1)
layers_readout           == FromFifo(544)
layers_readout_read_size == ReadOnly(545, 4)
io_ctrl                  == ReadWrite(549, 1)
io_led                   == ReadWrite(550, 1)
gecco_sr_ctrl            == ReadWrite(551, 1)

-----------------------------------------------------------------------------
(* All of them.                                                            *)

Single == {hk_firmware_id, hk_firmware_version, hk_xadc_temperature,
           hk_xadc_vccint, hk_conversion_trigger, hk_stat_conversions_counter,
           hk_ctrl, hk_adcdac_mosi_fifo, hk_adc_miso_fifo,
           hk_adc_miso_fifo_read_size, hk_conversion_trigger_match,
           spi_layers_ckdivider, spi_hk_ckdivider,
           layers_cfg_frame_tag_counter_ctrl, layers_cfg_frame_tag_counter_trigger,
           layers_cfg_frame_tag_counter, layers_cfg_frame_tag_counter_trigger_match,
           layers_cfg_nodata_continue, layers_sr_out, layers_sr_in,
           layers_inj_ctrl, layers_inj_waddr, layers_inj_wdata, layers_readout,
           layers_readout_read_size, io_ctrl, io_led, gecco_sr_ctrl}

OfLane(n) == {layer_cfg_ctrl(n), layer_status(n), layer_stat_frame_counter(n),
              layer_stat_idle_counter(n), layer_mosi(n), layer_mosi_write_size(n),
              layer_loopback_miso(n), layer_loopback_miso_write_size(n),
              layer_loopback_mosi(n), layer_loopback_mosi_read_size(n)}

Registers == Single \cup UNION {OfLane(n) : n \in Lanes}

Span(r) == r.address .. r.address + r.width - 1

=============================================================================
