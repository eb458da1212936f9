---------------------------- MODULE BoardDriver ----------------------------
(***************************************************************************)
(* The functions of sw/drivers/boards/board_driver.py,                     *)
(* sw/drivers/cmod/injector.py and the register part of                    *)
(* sw/drivers/astep/housekeeping.py, as operators on a session: the board  *)
(* with what its registers hold, and the writes the driver has collected   *)
(* but not sent.  RfgHost models how collected writes reach the board.     *)
(*                                                                         *)
(* A byte is a number, or the set of its bits where the code handles bits. *)
(***************************************************************************)
EXTENDS RegisterTable, SequencesExt

VARIABLE session   \* of the script that uses the driver

BytesOf(v) == [k \in 1 .. 4 |-> (v \div 256^(k - 1)) % 256]

(* The bits of v with one of them set or cleared.                          *)
Switched(v, bit, on) == IF on THEN v \cup {bit} ELSE v \ {bit}

-----------------------------------------------------------------------------
(* The board.  The pattern generator takes a parameter while the write bit *)
(* of its control register is up, and loads its counters while it is in    *)
(* reset; it runs when it is neither in reset nor suspended.               *)

PG_CTRL_RESET   == 0
PG_CTRL_SUSPEND == 1
PG_CTRL_SYNCED  == 2
PG_CTRL_WRITE   == 4

Generate(generator, ctrl, waddr, wdata) ==
    LET settings == IF PG_CTRL_WRITE \in ctrl /\ waddr \in DOMAIN generator.settings
                    THEN [generator.settings EXCEPT ![waddr] = wdata]
                    ELSE generator.settings
    IN [settings |-> settings,
        loaded   |-> IF PG_CTRL_RESET \in ctrl THEN settings ELSE generator.loaded]

Running(board) ==
    board.registers[layers_inj_ctrl.address] \cap {PG_CTRL_RESET, PG_CTRL_SUSPEND} = {}

(* One byte reaches the register file.                                     *)
Arrive(board, a, byte) ==
    LET registers == [x \in DOMAIN board.registers |->
                        IF x = a THEN byte ELSE board.registers[x]]
    IN [registers |-> registers,
        generator |->
            IF a = layers_inj_ctrl.address
            THEN Generate(board.generator, byte, registers[layers_inj_waddr.address],
                          registers[layers_inj_wdata.address])
            ELSE board.generator]

Execute(board, command) ==
    FoldLeft(LAMBDA b, k : Arrive(b, IF command.increment THEN command.address + k - 1
                                     ELSE command.address, command.values[k]),
             board, [k \in DOMAIN command.values |-> k])

(* The registers the scripts write, after power-up.                        *)
Scripted ==
    {io_ctrl, hk_ctrl, layers_inj_ctrl, layers_inj_waddr, layers_inj_wdata,
     spi_layers_ckdivider, spi_hk_ckdivider, layers_cfg_nodata_continue,
     layers_cfg_frame_tag_counter_ctrl, layers_cfg_frame_tag_counter_trigger,
     layers_cfg_frame_tag_counter_trigger_match}
    \cup {layer_cfg_ctrl(n) : n \in Lanes}
    \cup {layer_stat_frame_counter(n) : n \in Lanes}
    \cup {layer_stat_idle_counter(n) : n \in Lanes}

PowerUp ==
    LET settings == [x \in (7 .. 15) \ {9} |-> 0]
    IN [registers |-> [a \in UNION {Span(r) : r \in Scripted} |->
            CASE a \in {layer_cfg_ctrl(n).address : n \in Lanes} -> {0, 1, 2}
              [] a = io_ctrl.address -> {3}
              [] a = hk_ctrl.address -> {}
              [] a = layers_inj_ctrl.address -> {PG_CTRL_SUSPEND, PG_CTRL_SYNCED}
              [] a = layers_cfg_frame_tag_counter_ctrl.address -> {0}
              [] OTHER -> 0],
        generator |-> [settings |-> settings, loaded |-> settings]]

-----------------------------------------------------------------------------
(* A session.  Writes to the register written last are one command.        *)

Opened(board) == [board |-> board, commands |-> <<>>]

addWrite(s, r, bytes) ==
    IF s.commands # <<>> /\ Last(s.commands).address = r.address
    THEN [s EXCEPT !.commands[Len(s.commands)].values = @ \o bytes]
    ELSE [s EXCEPT !.commands = Append(@, [address |-> r.address,
                                           increment |-> r.increment, values |-> bytes])]

flushed(s) == [board |-> FoldLeft(Execute, s.board, s.commands), commands |-> <<>>]

write(s, r, v, flush) ==
    LET added == addWrite(s, r, IF r.width = 4 THEN BytesOf(v) ELSE <<v>>)
    IN IF flush THEN flushed(added) ELSE added

(* A read flushes first.                                                   *)
read(s, r) == flushed(s).board.registers[r.address]

(* Mutated form of modify: what is collected is written after it.          *)
modifyUnread(s, r, v, flush) == write([s EXCEPT !.commands = <<>>], r, v, flush)

(* The value that was just read is written back changed.                   *)
modify(s, r, v, flush) == write(flushed(s), r, v, flush)

-----------------------------------------------------------------------------
(* Pins and clocks.                                                        *)

enableSensorClocks(s, ToT, TS, flush) ==
    modify(s, io_ctrl, Switched(Switched(read(s, io_ctrl), 0, ToT), 1, TS), flush)

ioSetInjectionToChip(s, enable, flush) ==
    modify(s, io_ctrl, Switched(read(s, io_ctrl), 3, ~enable), flush)

getFPGACoreFrequency == 60000000

configureLaneSPIDivider(s, divider, flush) == write(s, spi_layers_ckdivider, divider, flush)

(* Dividers the two frequency functions accept.                            *)
Divides(divider) == divider \in 1 .. 255

configureLaneSPIFrequency(s, frequency, flush) ==
    LET divider == getFPGACoreFrequency \div (2 * frequency)
    IN IF Divides(divider) THEN configureLaneSPIDivider(s, divider, flush) ELSE s

configureHKSPIFrequency(s, frequency, flush) ==
    LET divider == getFPGACoreFrequency \div (2 * frequency)
    IN IF Divides(divider) THEN write(s, spi_hk_ckdivider, divider, flush) ELSE s

selectADC(s, select, flush) ==
    write(s, hk_ctrl, IF select \in 1 .. 3 THEN {select - 1} ELSE {}, flush)

-----------------------------------------------------------------------------
(* Time stamps.                                                            *)

configureLanesFrameTag(s, enable, flush) ==
    write(s, layers_cfg_frame_tag_counter_ctrl, IF enable THEN {0} ELSE {}, flush)

configureLanesFrameTagDivider(s, divider, flush) ==
    write(write(s, layers_cfg_frame_tag_counter_trigger_match, divider, FALSE),
          layers_cfg_frame_tag_counter_trigger, 0, flush)

configureLanesFrameTagFrequency(s, frequency, flush) ==
    LET divider == getFPGACoreFrequency \div frequency
    IN IF Divides(divider) THEN configureLanesFrameTagDivider(s, divider, flush) ELSE s

SourceBit == [on |-> 0, match |-> 1, external |-> 2, force |-> 3]

(* The counter cannot have both sources: an exception is raised.           *)
lanesConfigFPGATimestamp(s, source, flush) ==
    IF {"match", "external"} \subseteq source THEN s
    ELSE write(s, layers_cfg_frame_tag_counter_ctrl, {SourceBit[x] : x \in source}, flush)

(* The divider has four bytes, more than the core frequency needs.         *)
lanesConfigFPGATimestampFrequency(s, frequency, flush) ==
    LET divider == getFPGACoreFrequency \div frequency
    IN IF divider >= 1
       THEN write(s, layers_cfg_frame_tag_counter_trigger_match, divider, flush)
       ELSE s

-----------------------------------------------------------------------------
(* Lanes.  The autoread and MISO bits disable what they are named for.     *)

LaneConfig == [reset : BOOLEAN, autoread : BOOLEAN, hold : BOOLEAN,
               chipSelect : BOOLEAN, disableMISO : BOOLEAN]

getLaneControl(s, lane) == read(s, layer_cfg_ctrl(lane))

(* Mutated form of ConfigBits: bits are set but never cleared.             *)
ConfigBitsSet(v, c) ==
    v \cup {b \in 0 .. 4 : <<c.hold, c.reset, ~c.autoread, c.chipSelect, c.disableMISO>>[b + 1]}

ConfigBits(v, c) ==
    Switched(Switched(Switched(Switched(Switched(v, 1, c.reset), 0, c.hold),
        2, ~c.autoread), 3, c.chipSelect), 4, c.disableMISO)

setLaneConfig(s, lane, c, flush) ==
    modify(s, layer_cfg_ctrl(lane), ConfigBits(getLaneControl(s, lane), c), flush)

holdLane(s, lane, hold, flush) ==
    modify(s, layer_cfg_ctrl(lane), Switched(getLaneControl(s, lane), 0, hold), flush)

setLaneCS(s, lane, cs, flush) ==
    modify(s, layer_cfg_ctrl(lane), Switched(getLaneControl(s, lane), 3, cs), flush)

Disabled == [reset |-> FALSE, autoread |-> FALSE, hold |-> TRUE,
             chipSelect |-> FALSE, disableMISO |-> TRUE]

Enabled(autoread) == [reset |-> FALSE, autoread |-> autoread, hold |-> FALSE,
                      chipSelect |-> TRUE, disableMISO |-> FALSE]

(* range(20)                                                               *)
disableLanesReadout(s) ==
    flushed(FoldLeft(LAMBDA t, lane : setLaneConfig(t, lane, Disabled, FALSE),
                     s, [n \in 1 .. LaneCount |-> n - 1]))

enableLanesReadout(s, lanelst, autoread) ==
    flushed(FoldLeft(LAMBDA t, lane : setLaneConfig(t, lane, Enabled(autoread), FALSE),
                     disableLanesReadout(s), lanelst))

(* Mutated form of resetLaneStatCounters: the same counter twice.          *)
resetFrameCounterTwice(s, lane, flush) ==
    write(write(s, layer_stat_frame_counter(lane), 0, FALSE),
          layer_stat_frame_counter(lane), 0, flush)

resetLaneStatCounters(s, lane, flush) ==
    write(write(s, layer_stat_frame_counter(lane), 0, FALSE),
          layer_stat_idle_counter(lane), 0, flush)

-----------------------------------------------------------------------------
(* The injector: its parameters, and the calls that start and stop the     *)
(* pattern generator.                                                      *)

DefaultPattern == [period |-> 100, clkdiv |-> 300, initdelay |-> 100,
                   cycle |-> 0, pulsesperset |-> 1]

(* A parameter that is out of range keeps its value.                       *)
InRange(field, v) == v \in 0 .. IF field \in {"period", "pulsesperset"} THEN 255 ELSE 65535

setPattern(pattern, new) ==
    [f \in DOMAIN pattern |-> IF InRange(f, new[f]) THEN new[f] ELSE pattern[f]]

patgenCtrl(s, bits) == addWrite(s, layers_inj_ctrl, <<bits>>)

patgenwrite(s, address, v, stick) ==
    LET placed == addWrite(addWrite(s, layers_inj_waddr, <<address>>),
                           layers_inj_wdata, <<v>>)
    IN patgenCtrl(patgenCtrl(placed, stick \cup {PG_CTRL_WRITE}), stick)

patgen(s, p, stick) ==
    LET values == <<<<7, p.pulsesperset>>, <<8, p.period>>, <<9, 20>>,
                    <<10, p.cycle \div 256>>, <<11, p.cycle % 256>>,
                    <<12, p.initdelay \div 256>>, <<13, p.initdelay % 256>>,
                    <<14, p.clkdiv \div 256>>, <<15, p.clkdiv % 256>>>>
    IN FoldLeft(LAMBDA t, av : patgenwrite(t, av[1], av[2], stick), s, values)

Stopped == {PG_CTRL_SUSPEND, PG_CTRL_RESET}

stop(s) == flushed(patgenCtrl(s, Stopped))

(* Mutated form of start: without stopping first and without the reset     *)
(* that loads the counters.                                                *)
startUnloaded(s, p) == flushed(patgenCtrl(patgen(s, p, {PG_CTRL_SUSPEND}), {}))

start(s, p) ==
    flushed(patgenCtrl(patgenCtrl(patgen(stop(s), p, Stopped), Stopped), {}))

=============================================================================
