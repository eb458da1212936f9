---------------------------- MODULE DriverCalls ----------------------------
(***************************************************************************)
(* A script that calls the functions of the board driver in any order,     *)
(* with and without flush.                                                 *)
(***************************************************************************)
EXTENDS BoardDriver

CONSTANTS Configs,      \* of setLaneConfig
          Frequencies,  \* asked for, in Hz
          Patterns,     \* of setPattern
          Sources,      \* of lanesConfigFPGATimestamp
          MaxCalls,     \* bound on the calls of a script
          Repeats       \* a register of several bytes is written again
                        \* without a flush in between

VARIABLES pattern,      \* parameters of the injector
          calls,
          call,         \* the last one, with its arguments
          asked,        \* the settings of the board if all that is
                        \* collected were sent,
          effective     \* and its settings now

callVars == <<session, pattern, calls, call, asked, effective>>

-----------------------------------------------------------------------------
(* The settings that the registers of a board stand for.                   *)

ConfigOf(v) == [reset |-> 1 \in v, autoread |-> 2 \notin v, hold |-> 0 \in v,
                chipSelect |-> 3 \in v, disableMISO |-> 4 \in v]

Number(registers, r) ==
    FoldLeft(LAMBDA sum, k : sum + registers[r.address + k] * 256^k, 0,
             [k \in 1 .. r.width |-> k - 1])

PatternOf(x) == [pulsesperset |-> x[7], period |-> x[8], cycle |-> 256 * x[10] + x[11],
                 initdelay |-> 256 * x[12] + x[13], clkdiv |-> 256 * x[14] + x[15]]

(* A generator that runs uses its settings besides the counters it loaded. *)
PatternRun(board) ==
    IF ~Running(board) THEN <<>>
    ELSE IF board.generator.loaded = board.generator.settings
         THEN <<PatternOf(board.generator.loaded)>>
         ELSE <<PatternOf(board.generator.loaded), PatternOf(board.generator.settings)>>

SettingsOf(board) ==
    LET reg(r) == board.registers[r.address] IN
    [lane      |-> [n \in Lanes |-> ConfigOf(reg(layer_cfg_ctrl(n)))],
     cleared   |-> {n \in Lanes : Number(board.registers, layer_stat_frame_counter(n)) = 0
                               /\ Number(board.registers, layer_stat_idle_counter(n)) = 0},
     clocks    |-> {x \in {"ToT", "TS"} : IF x = "ToT" THEN 0 \in reg(io_ctrl)
                                                      ELSE 1 \in reg(io_ctrl)},
     toChip    |-> 3 \notin reg(io_ctrl),
     spi       |-> reg(spi_layers_ckdivider),
     hkspi     |-> reg(spi_hk_ckdivider),
     source    |-> {x \in DOMAIN SourceBit :
                      SourceBit[x] \in reg(layers_cfg_frame_tag_counter_ctrl)},
     match     |-> Number(board.registers, layers_cfg_frame_tag_counter_trigger_match),
     adc       |-> IF reg(hk_ctrl) = {} THEN 0 ELSE 1 + CHOOSE b \in reg(hk_ctrl) : TRUE,
     injecting |-> PatternRun(board)]

-----------------------------------------------------------------------------
(* Calls.                                                                  *)

(* The register of several bytes whose command is last in the buffer.      *)
LastIsWide(r) ==
    session.commands # <<>> /\ Last(session.commands).address = r.address

Called(c, s) ==
    /\ calls < MaxCalls
    /\ call' = c
    /\ session' = s
    /\ asked' = SettingsOf(flushed(s).board)
    /\ effective' = SettingsOf(s.board)
    /\ calls' = calls + 1
    /\ UNCHANGED pattern

LaneCall(lane, flush) ==
    \/ \E c \in Configs :
          Called(<<"setLaneConfig", lane, c, flush>>, setLaneConfig(session, lane, c, flush))
    \/ \E on \in BOOLEAN :
          \/ Called(<<"holdLane", lane, on, flush>>, holdLane(session, lane, on, flush))
          \/ Called(<<"setLaneCS", lane, on, flush>>, setLaneCS(session, lane, on, flush))
    \/ Called(<<"resetLaneStatCounters", lane, flush>>,
              resetLaneStatCounters(session, lane, flush))

ReadoutCall ==
    \/ Called(<<"disableLanesReadout">>, disableLanesReadout(session))
    \/ \E n \in 1 .. LaneCount, autoread \in BOOLEAN :
          LET lanelst == [k \in 1 .. n |-> LaneCount - k]
          IN Called(<<"enableLanesReadout", ToSet(lanelst), autoread>>,
                    enableLanesReadout(session, lanelst, autoread))

BoardCall(flush) ==
    \/ \E on \in SUBSET {"ToT", "TS"} :
          Called(<<"enableSensorClocks", on, flush>>,
                 enableSensorClocks(session, "ToT" \in on, "TS" \in on, flush))
    \/ \E enable \in BOOLEAN :
          Called(<<"ioSetInjectionToChip", enable, flush>>,
                 ioSetInjectionToChip(session, enable, flush))
    \/ \E n \in 0 .. 3 : Called(<<"selectADC", n, flush>>, selectADC(session, n, flush))
    \/ \E f \in Frequencies :
          \/ Called(<<"configureLaneSPIFrequency", f, flush>>,
                    configureLaneSPIFrequency(session, f, flush))
          \/ Called(<<"configureHKSPIFrequency", f, flush>>,
                    configureHKSPIFrequency(session, f, flush))

TagCall(flush) ==
    \/ \E enable \in BOOLEAN :
          Called(<<"configureLanesFrameTag", enable, flush>>,
                 configureLanesFrameTag(session, enable, flush))
    \/ \E source \in Sources :
          Called(<<"lanesConfigFPGATimestamp", source, flush>>,
                 lanesConfigFPGATimestamp(session, source, flush))
    \/ /\ Repeats \/ ~LastIsWide(layers_cfg_frame_tag_counter_trigger_match)
       /\ \E f \in Frequencies :
             \/ Called(<<"configureLanesFrameTagFrequency", f, flush>>,
                       configureLanesFrameTagFrequency(session, f, flush))
             \/ Called(<<"lanesConfigFPGATimestampFrequency", f, flush>>,
                       lanesConfigFPGATimestampFrequency(session, f, flush))

(* Calls that read, and flush what was collected.                          *)
ReadCall == Called(<<"flush">>, flushed(session))

InjectorCall ==
    \/ Called(<<"start">>, start(session, pattern))
    \/ Called(<<"stop">>, stop(session))

PatternCall ==
    /\ calls < MaxCalls
    /\ \E p \in Patterns : pattern' = setPattern(pattern, p)
    /\ calls' = calls + 1
    /\ call' = <<"setPattern">>
    /\ UNCHANGED <<session, asked, effective>>

(* A board that has run: its counters are not zero.                        *)
Counted(board) ==
    [board EXCEPT !.registers =
        [a \in DOMAIN @ |->
            IF a \in {layer_stat_frame_counter(n).address + 1 : n \in Lanes}
                     \cup {layer_stat_idle_counter(n).address + 3 : n \in Lanes}
            THEN 1 ELSE @[a]]]

(* The board as it was powered up, or as a script before left it.          *)
CallsInit ==
    /\ session \in {Opened(Counted(PowerUp)),
                    start(Opened(Counted(PowerUp)), DefaultPattern)}
    /\ pattern = DefaultPattern
    /\ calls = 0
    /\ call = <<>>
    /\ asked = SettingsOf(session.board)
    /\ effective = asked

CallsNext ==
    \/ \E lane \in Lanes, flush \in BOOLEAN : LaneCall(lane, flush)
    \/ \E flush \in BOOLEAN : BoardCall(flush) \/ TagCall(flush)
    \/ ReadoutCall \/ ReadCall \/ InjectorCall \/ PatternCall

CallsSpec == CallsInit /\ [][CallsNext]_callVars

-----------------------------------------------------------------------------
(* Properties.                                                             *)

(* What is collected stays within the register it is written to: no        *)
(* command of addWrite writes past the end of a register into the next.    *)
WritesStayInside ==
    \A k \in DOMAIN session.commands :
        LET c == session.commands[k] IN
        c.increment => \E r \in Registers :
            /\ c.address = r.address /\ ~r.readonly
            /\ Len(c.values) <= r.width

Board == INSTANCE BoardState WITH
    Lane <- Lanes, Config <- Configs, Frequency <- Frequencies,
    Core <- getFPGACoreFrequency, Sources <- DOMAIN SourceBit

(* Every call changes the settings it is named for and no others, through  *)
(* registers it shares with other calls and with writes still unflushed,   *)
(* and the generator runs with the parameters of the last start only.      *)
CallsAreSettings == Board!Spec

=============================================================================
