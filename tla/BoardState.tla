----------------------------- MODULE BoardState -----------------------------
(***************************************************************************)
(* What the calls of the board driver promise a script: each changes the   *)
(* settings it is named for and no others, whatever calls came before it   *)
(* and whether they were flushed; what it changes takes effect with the    *)
(* call if it flushes, and otherwise not later than with the next call     *)
(* that does.  Registers, their bits and the command buffer are not to be  *)
(* seen.                                                                   *)
(***************************************************************************)
EXTENDS Integers, Sequences

CONSTANTS Lane, Config, Frequency, Core, Sources

VARIABLES call,        \* the last call, with its arguments
          asked,       \* the settings after all calls so far
          effective,   \* the settings of the board
          pattern      \* the parameters the next start will use

vars == <<call, asked, effective, pattern>>

Disabled == [reset |-> FALSE, autoread |-> FALSE, hold |-> TRUE,
             chipSelect |-> FALSE, disableMISO |-> TRUE]

Enabled(autoread) == [Disabled EXCEPT !.autoread = autoread, !.hold = FALSE,
                                      !.chipSelect = TRUE, !.disableMISO = FALSE]

Change(c, settings, flush) ==
    /\ call' = c
    /\ asked' = settings
    /\ effective' \in IF flush THEN {settings} ELSE {effective, asked}
    /\ UNCHANGED pattern

(* A change that is refused if a condition on the arguments fails.         *)
ChangeIf(condition, c, settings, flush) ==
    \/ condition /\ Change(c, settings, flush)
    \/ ~condition /\ Change(c, asked, FALSE)

SetLane(l, c, flush) ==
    Change(<<"setLaneConfig", l, c, flush>>, [asked EXCEPT !.lane[l] = c], flush)
Hold(l, hold, flush) ==
    Change(<<"holdLane", l, hold, flush>>, [asked EXCEPT !.lane[l].hold = hold], flush)
Select(l, cs, flush) ==
    Change(<<"setLaneCS", l, cs, flush>>, [asked EXCEPT !.lane[l].chipSelect = cs], flush)
ClearCounters(l, flush) ==
    Change(<<"resetLaneStatCounters", l, flush>>,
           [asked EXCEPT !.cleared = @ \cup {l}], flush)

DisableReadout ==
    Change(<<"disableLanesReadout">>,
           [asked EXCEPT !.lane = [l \in Lane |-> Disabled]], TRUE)
EnableReadout(ls, autoread) ==
    Change(<<"enableLanesReadout", ls, autoread>>,
           [asked EXCEPT !.lane = [l \in Lane |-> IF l \in ls THEN Enabled(autoread)
                                                  ELSE Disabled]], TRUE)

Clocks(on, flush) ==
    Change(<<"enableSensorClocks", on, flush>>, [asked EXCEPT !.clocks = on], flush)
ToChip(enable, flush) ==
    Change(<<"ioSetInjectionToChip", enable, flush>>, [asked EXCEPT !.toChip = enable], flush)
SelectADC(n, flush) ==
    Change(<<"selectADC", n, flush>>, [asked EXCEPT !.adc = n], flush)

(* A frequency is that of the core divided by a number of one byte.        *)
Divider(f) == Core \div f
OneByte(d) == d \in 1 .. 255

LaneSPI(f, flush) ==
    ChangeIf(OneByte(Divider(2 * f)), <<"configureLaneSPIFrequency", f, flush>>,
             [asked EXCEPT !.spi = Divider(2 * f)], flush)
HousekeepingSPI(f, flush) ==
    ChangeIf(OneByte(Divider(2 * f)), <<"configureHKSPIFrequency", f, flush>>,
             [asked EXCEPT !.hkspi = Divider(2 * f)], flush)
TagFrequency(f, flush) ==
    ChangeIf(OneByte(Divider(f)), <<"configureLanesFrameTagFrequency", f, flush>>,
             [asked EXCEPT !.match = Divider(f)], flush)
TimestampFrequency(f, flush) ==
    ChangeIf(Divider(f) >= 1, <<"lanesConfigFPGATimestampFrequency", f, flush>>,
             [asked EXCEPT !.match = Divider(f)], flush)

(* The counter of the time stamps has one source.                          *)
Tag(enable, flush) ==
    Change(<<"configureLanesFrameTag", enable, flush>>,
           [asked EXCEPT !.source = IF enable THEN {"on"} ELSE {}], flush)
Timestamp(source, flush) ==
    ChangeIf(~({"match", "external"} \subseteq source),
             <<"lanesConfigFPGATimestamp", source, flush>>,
             [asked EXCEPT !.source = source], flush)

(* Any call that reads.                                                    *)
Flush == Change(<<"flush">>, asked, TRUE)

(* The pattern generator runs with the parameters it was started with, and *)
(* new ones wait for the next start.                                       *)
Start == Change(<<"start">>, [asked EXCEPT !.injecting = <<pattern>>], TRUE)
Stop  == Change(<<"stop">>, [asked EXCEPT !.injecting = <<>>], TRUE)
SetPattern ==
    /\ call' = <<"setPattern">>
    /\ UNCHANGED <<asked, effective>>

Init ==
    /\ call = <<>>
    /\ asked = effective

Next ==
    \/ \E l \in Lane, flush \in BOOLEAN :
          \/ \E c \in Config : SetLane(l, c, flush)
          \/ \E on \in BOOLEAN : Hold(l, on, flush) \/ Select(l, on, flush)
          \/ ClearCounters(l, flush)
    \/ DisableReadout
    \/ \E ls \in SUBSET Lane, autoread \in BOOLEAN : EnableReadout(ls, autoread)
    \/ \E flush \in BOOLEAN :
          \/ \E on \in SUBSET {"ToT", "TS"} : Clocks(on, flush)
          \/ \E enable \in BOOLEAN : ToChip(enable, flush) \/ Tag(enable, flush)
          \/ \E n \in 0 .. 3 : SelectADC(n, flush)
          \/ \E f \in Frequency :
                \/ LaneSPI(f, flush) \/ HousekeepingSPI(f, flush)
                \/ TagFrequency(f, flush) \/ TimestampFrequency(f, flush)
          \/ \E source \in SUBSET Sources : Timestamp(source, flush)
    \/ Flush \/ Start \/ Stop \/ SetPattern

Spec == Init /\ [][Next]_vars

=============================================================================
