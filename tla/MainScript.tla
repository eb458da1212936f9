----------------------------- MODULE MainScript -----------------------------
(***************************************************************************)
(* A run of sw/main.py from its arguments to its files: it prepares the    *)
(* board, gives the chips their numbers and configurations, flushes old    *)
(* data, and reads the readout buffer until time is up or the user         *)
(* interrupts.  The lanes, their SPI links and the chips work beside it.   *)
(*                                                                         *)
(* Driver calls are those of BoardDriver and take effect at once, as they  *)
(* flush.  A step of the script ends where the board can change before the *)
(* next call: at each access of a lane, a FIFO or a level.                 *)
(***************************************************************************)
EXTENDS BoardDriver, Asic, Decode

CONSTANTS Arguments,   \* command lines
          Depth,       \* words of the readout buffer
          FlushExtra,  \* words read beyond it to flush old data
          Byte,        \* values of one byte of the level
          Step,        \* bytes of a chunk of writeSPI
          MosiDepth,   \* bytes a MOSI FIFO can hold; fewer than a chunk has
          MaxRounds,   \* attempts to flush the chips of a lane
          Chain,       \* chips that are connected to a lane
          MaxFrames,   \* bound on the frames the chips send
          MaxBacklog,  \* bound on old words waiting behind the buffer
          Cancels      \* the user may interrupt the main loop

ASSUME MainScriptAssumption ==
    /\ {Depth, Byte, Step, MosiDepth} \subseteq Nat \ {0}
    /\ {FlushExtra, MaxRounds, Chain, MaxFrames, MaxBacklog} \subseteq Nat
    /\ Cancels \in BOOLEAN

(* What argparse and the checks behind it let through, for lanes the       *)
(* driver has.  A file has a word for every column of its chips.           *)
Words == [0 .. Side - 1 -> SUBSET (0 .. Side + 2)]

Accepted(a) ==
    /\ a.lanes \in Seq(Lanes) /\ a.chipsPerLane \in Seq(Int)
    /\ Len(a.chipsPerLane) \in {0, Len(a.lanes)}
    /\ Len(a.yaml) \in 0 .. Len(a.chipsPerLane)
    /\ \A n \in 1 .. Len(a.yaml) : LET file == a.yaml[n] IN
          /\ file.length \in Nat
          /\ \A k \in DOMAIN file.config :
                file.config[k] \in [recconfig : Words, vinj : {file.config[k].vinj}]
    /\ a.inject = <<>> \/ (a.inject \in Seq(Nat) /\ Len(a.inject) = 4)
    /\ a.analog = <<>> \/ (a.analog \in Seq(Nat) /\ Len(a.analog) = 3)
    /\ a.readout \in Nat
    /\ {a.noAutoread, a.timed} \subseteq BOOLEAN

ASSUME ArgumentsAssumption == \A a \in Arguments : Accepted(a)

VARIABLES args,      \* of the command line
          inject,    \* what main leaves of args.inject
          asics,     \* chip configurations in memory, by lane
          pc,
          i, j,      \* loop counters of main
          lane,      \* the variable of every loop over the lanes
          rounds,
          resume,    \* where writeSPI was called from
          spi,       \* the payload of writeSPI, its bytes on the wire and in the lane
          chips,     \* by lane
          fifo,      \* the readout buffer
          transit,   \* rest of the frame that enters it
          made,      \* frames sent so far
          low,       \* first byte of the level
          buff,      \* the level as it was read
          left,      \* words still to be read
          readout,
          ofile,
          dataStream_lst, bufferLength_lst,
          taken,     \* every word read since the readout was enabled
          expired,   \* end_time has passed
          cancelled

board  == <<session, spi, chips>>
stream == <<fifo, transit, made>>
reading == <<low, buff, left, readout>>
stored == <<ofile, dataStream_lst, bufferLength_lst, taken>>
script == <<args, inject, asics, pc, i, j, lane, rounds, resume, expired, cancelled>>
vars == <<board, stream, reading, stored, script>>

-----------------------------------------------------------------------------
(* The firmware of a lane, and its chips.                                  *)

Control(l) == session.board.registers[layer_cfg_ctrl(l).address]

(* Chip select follows its bit and autoread.                               *)
Selected(l) == 3 \in Control(l) \/ 2 \notin Control(l)

Receives(l) == Control(l) \cap {1, 4} = {}

(* A lane whose received bytes find no room pauses its SPI clock.          *)
Paused(l) == Receives(l) /\ transit # <<>> /\ Len(fifo) = Depth

(* A byte of a chunk comes out of the UART.  The lane needs less time to   *)
(* shift a byte out than the UART to bring one, so that only a lane that   *)
(* has paused can have a full FIFO by then; the byte is lost.              *)
ByteArrives ==
    /\ spi.coming > 0
    /\ spi.level < MosiDepth \/ Paused(spi.lane)
    /\ spi' = [spi EXCEPT !.coming = @ - 1,
                          !.lost = @ \/ spi.level = MosiDepth,
                          !.level = IF @ = MosiDepth THEN @ ELSE @ + 1]
    /\ UNCHANGED <<session, chips, stream, reading, stored, script>>

Shift ==
    /\ spi.level > 0 /\ ~Paused(spi.lane)
    /\ LET heard == spi.heard /\ Selected(spi.lane)
           last  == spi.level = 1 /\ spi.coming = 0 /\ spi.sent = spi.payload.length
       IN /\ spi' = [spi EXCEPT !.level = @ - 1, !.heard = heard]
          /\ chips' = IF last /\ heard /\ ~spi.lost
                      THEN [chips EXCEPT ![spi.lane] = Receive(@, spi.payload)]
                      ELSE chips
    /\ UNCHANGED <<session, stream, reading, stored, script>>

InLoop == \/ pc \in {"loop", "level", "level2", "read"}
          \/ pc \in {"chunk", "wait"} /\ resume = "loop"

(* The frame of a hit in the readout: the number of bytes that follow, the *)
(* lane, and the bytes of the chip.  Those of an earlier run are marked.   *)
FrameOf(from, n) ==
    [k \in 1 .. 3 |-> [from |-> from, frame |-> n, part |-> k,
                       value |-> IF k = 1 THEN 2 ELSE 9]]

OldWords(n) == [k \in 1 .. n |-> [from |-> "old", frame |-> 0, part |-> 0, value |-> 9]]
Pad == [from |-> "pad", frame |-> 0, part |-> 0, value |-> 255]

(* A chip answers when the lane is read out.                               *)
StartFrame(l) ==
    /\ made < MaxFrames /\ transit = <<>>
    /\ Receives(l) /\ Selected(l)
    /\ 2 \notin Control(l) \/ (spi.lane = l /\ spi.level > 0)
    /\ transit' = FrameOf(IF InLoop THEN "lane" ELSE "old", made + 1)
    /\ made' = made + 1
    /\ UNCHANGED <<board, fifo, reading, stored, script>>

Push ==
    /\ transit # <<>> /\ Len(fifo) < Depth
    /\ fifo' = Append(fifo, Head(transit))
    /\ transit' = Tail(transit)
    /\ UNCHANGED <<board, made, reading, stored, script>>

-----------------------------------------------------------------------------
(* Preparation.                                                            *)

Lane(k) == args.lanes[k]
Yamls   == 1 .. Len(args.yaml)
HasAsic(l) == \E k \in Yamls : Lane(k) = l

(* Of a lane that is named twice the last file counts.                     *)
FileOf(l) == Max({k \in Yamls : Lane(k) = l})

Loaded == [l \in {Lane(k) : k \in Yamls} |->
              setupASIC(args.chipsPerLane[FileOf(l)], args.yaml[FileOf(l)])]

LoadFails == \E k \in Yamls : ~Loads(NewAsic, args.yaml[k])

(* The injection arguments: lane, chip, row and column.  KeyError is       *)
(* caught; the assertions of enable_pixel are not.                         *)
Injectable == /\ args.inject # <<>>
              /\ HasAsic(args.inject[1])
              /\ Known(Loaded[args.inject[1]], args.inject[2])
OffChip == Injectable /\ ~(args.inject[3] < Side /\ args.inject[4] < Side)

EnableInjection(asic) ==
    LET chip == args.inject[2] row == args.inject[3] col == args.inject[4]
        pixel == enable_pixel(enable_inj_row(enable_inj_col(asic, chip, col), chip, row),
                              chip, col, row)
    IN IF args.vinj = "default" THEN pixel ELSE SetInjectionVoltage(pixel, chip, args.vinj)

Configured ==
    LET injected == IF Injectable
                    THEN [Loaded EXCEPT ![args.inject[1]] = EnableInjection(@)]
                    ELSE Loaded
    IN IF args.analog = <<>> THEN injected
       ELSE [injected EXCEPT ![args.analog[1]] =
                enable_ampout_col(@, args.analog[2], args.analog[3])]

AnalogFails == /\ args.analog # <<>>
               /\ ~(/\ HasAsic(args.analog[1]) /\ args.analog[3] < Side
                    /\ Known(Loaded[args.analog[1]], args.analog[2]))

TimestampFrequency == 1000000

Prepared(s) ==
    LET clocks == enableSensorClocks(s, TRUE, TRUE, TRUE)
        stamps == lanesConfigFPGATimestamp(
                      lanesConfigFPGATimestampFrequency(clocks, TimestampFrequency, TRUE),
                      {"on", "match"}, TRUE)
        links  == write(configureLaneSPIDivider(stamps, 20, TRUE),
                        layers_cfg_nodata_continue, 8, TRUE)
    IN IF Injectable /\ ~OffChip /\ ~LoadFails THEN ioSetInjectionToChip(links, TRUE, TRUE) ELSE links

Goto(from, to) == pc = from /\ pc' = to

Setup ==
    /\ session' = Prepared(session)
    /\ IF LoadFails \/ OffChip \/ AnalogFails
       THEN /\ Goto("setup", "dead")
            /\ UNCHANGED <<asics, inject>>
       ELSE /\ Goto("setup", "quiet")
            /\ asics' = Configured
            /\ inject' = IF Injectable THEN args.inject ELSE <<>>
    /\ UNCHANGED <<spi, chips, stream, reading, stored, args, i, j, lane, rounds, resume,
                   expired, cancelled>>

(* Mutated form of QuietConfig: the lane takes what its chips send.        *)
QuietConfigReceiving(reset) == [Disabled EXCEPT !.reset = reset, !.disableMISO = FALSE]

(* The reset line is that of lane 0 and resets the chips of every lane.    *)
QuietConfig(reset) == [Disabled EXCEPT !.reset = reset]

Quiet ==
    /\ Goto("quiet", "reset")
    /\ session' = setLaneConfig(disableLanesReadout(session), 0, QuietConfig(TRUE), TRUE)
    /\ chips' = [l \in Lanes |-> ResetChips(Chain)]
    /\ UNCHANGED <<spi, stream, reading, stored, args, inject, asics, i, j, lane, rounds,
                   resume, expired, cancelled>>

EndReset ==
    /\ Goto("reset", "route")
    /\ session' = setLaneConfig(session, 0, QuietConfig(FALSE), TRUE)
    /\ UNCHANGED <<spi, chips, stream, reading, stored, args, inject, asics, i, j, lane,
                   rounds, resume, expired, cancelled>>

-----------------------------------------------------------------------------
(* writeSPI: chunk after chunk, each when the one before has left.         *)

writeSPI(l, payload, back) ==
    /\ spi' = [lane |-> l, payload |-> payload, sent |-> 0, coming |-> 0, level |-> 0,
               heard |-> TRUE, lost |-> FALSE]
    /\ pc' = "chunk" /\ resume' = back

WriteChunk ==
    /\ pc = "chunk"
    /\ LET n == ChunkAfter(spi.payload, spi.sent, Step) IN
       IF n = 0
       THEN /\ pc' = resume
            /\ UNCHANGED spi
       ELSE /\ pc' = "wait"
            /\ spi' = [spi EXCEPT !.sent = @ + n, !.coming = @ + n]
    /\ UNCHANGED <<session, chips, stream, reading, stored, args, inject, asics, i, j, lane,
                   rounds, resume, expired, cancelled>>

(* The level is asked for over the UART, behind the bytes of the chunk.    *)
ChunkWritten ==
    /\ Goto("wait", "chunk")
    /\ spi.coming = 0 /\ spi.level = 0
    /\ UNCHANGED <<board, stream, reading, stored, args, inject, asics, i, j, lane, rounds,
                   resume, expired, cancelled>>

(* A second is enough for a chunk unless the lane has paused.              *)
TimedOut ==
    /\ Goto("wait", "dead")
    /\ spi.coming = 0 /\ spi.level > 0 /\ Paused(spi.lane)
    /\ UNCHANGED <<board, stream, reading, stored, args, inject, asics, i, j, lane, rounds,
                   resume, expired, cancelled>>

-----------------------------------------------------------------------------
(* Chip numbers and configurations.                                        *)

Count == Len(args.lanes)

(* pc = "route" selects a lane or, when all have their numbers, goes on;   *)
(* max of an empty list of chips raises ValueError.                        *)
Route ==
    /\ pc = "route"
    /\ IF j <= Count
       THEN /\ lane' = Lane(j)
            /\ session' = setLaneCS(session, Lane(j), TRUE, TRUE)
            /\ IF HasAsic(Lane(j))
               THEN writeSPI(Lane(j), writeSPIRoutingFrame(asics[Lane(j)]), "routed")
               ELSE pc' = "dead" /\ UNCHANGED <<spi, resume>>
            /\ UNCHANGED j
       ELSE /\ pc' = IF args.chipsPerLane = <<>> THEN "dead" ELSE "select"
            /\ j' = 1
            /\ UNCHANGED <<session, spi, resume, lane>>
    /\ UNCHANGED <<chips, stream, reading, stored, args, inject, asics, i, rounds, expired,
                   cancelled>>

Routed ==
    /\ Goto("routed", "route")
    /\ session' = setLaneCS(session, lane, FALSE, TRUE)
    /\ j' = j + 1
    /\ UNCHANGED <<spi, chips, stream, reading, stored, args, inject, asics, i, lane, rounds,
                   resume, expired, cancelled>>

MostChips == Max(ToSet(args.chipsPerLane))

(* The lane that is selected is the one the loop before ended with.        *)
Select ==
    /\ pc = "select"
    /\ IF i < MostChips
       THEN pc' = "config" /\ session' = setLaneCS(session, lane, TRUE, TRUE)
       ELSE pc' = "unhold" /\ UNCHANGED session
    /\ j' = 1
    /\ UNCHANGED <<spi, chips, stream, reading, stored, args, inject, asics, i, lane, rounds,
                   resume, expired, cancelled>>

Config ==
    /\ pc = "config"
    /\ IF j <= Count
       THEN /\ lane' = Lane(j)
            /\ j' = j + 1
            /\ \/ /\ i < args.chipsPerLane[j] /\ Known(asics[Lane(j)], i)
                  /\ writeSPI(Lane(j), createSPIConfigFrame(asics[Lane(j)], 10, i), "config")
               \/ /\ i < args.chipsPerLane[j] /\ ~Known(asics[Lane(j)], i)
                  /\ pc' = "dead"
                  /\ UNCHANGED <<spi, resume>>
               \/ /\ i >= args.chipsPerLane[j]
                  /\ UNCHANGED <<pc, spi, resume>>
            /\ UNCHANGED <<session, i>>
       ELSE /\ session' = setLaneCS(session, lane, FALSE, TRUE)
            /\ pc' = "select" /\ i' = i + 1
            /\ UNCHANGED <<j, lane, spi, resume>>
    /\ UNCHANGED <<chips, stream, reading, stored, args, inject, asics, rounds, expired,
                   cancelled>>

-----------------------------------------------------------------------------
(* buffer_flush.                                                           *)

Unhold ==
    /\ pc = "unhold"
    /\ IF j <= Count
       THEN /\ pc' = "poll"
            /\ lane' = Lane(j)
            /\ session' = holdLane(session, Lane(j), FALSE, TRUE)
            /\ rounds' = 0
       ELSE /\ pc' = "empty"
            /\ UNCHANGED <<session, lane, rounds>>
    /\ UNCHANGED <<spi, chips, stream, reading, stored, args, inject, asics, i, j, resume,
                   expired, cancelled>>

(* The interrupt is low while the chips of the lane have data.             *)
Poll(interrupt) ==
    /\ pc = "poll"
    /\ IF interrupt = 0 /\ rounds < MaxRounds
       THEN /\ session' = setLaneCS(session, lane, TRUE, TRUE)
            /\ writeSPI(lane, Zeros(3), "flushed")
            /\ rounds' = rounds + 1
            /\ UNCHANGED j
       ELSE /\ session' = holdLane(session, lane, TRUE, TRUE)
            /\ pc' = "unhold" /\ j' = j + 1
            /\ UNCHANGED <<spi, resume, rounds>>
    /\ UNCHANGED <<chips, stream, reading, stored, args, inject, asics, i, lane, expired,
                   cancelled>>

Deselect ==
    /\ Goto("flushed", "poll")
    /\ session' = setLaneCS(session, lane, FALSE, TRUE)
    /\ UNCHANGED <<spi, chips, stream, reading, stored, args, inject, asics, i, j, lane,
                   rounds, resume, expired, cancelled>>

(* Mutated form of Empty: only what the buffer itself can hold.            *)
EmptyDepth ==
    /\ Goto("empty", "discard")
    /\ left' = Depth
    /\ UNCHANGED <<board, stream, low, buff, readout, stored, args, inject, asics, i, j,
                   lane, rounds, resume, expired, cancelled>>

Empty ==
    /\ Goto("empty", "discard")
    /\ left' = Depth + FlushExtra
    /\ UNCHANGED <<board, stream, low, buff, readout, stored, args, inject, asics, i, j,
                   lane, rounds, resume, expired, cancelled>>

(* A word that waits behind the buffer moves up within a few clocks, long  *)
(* before the next access.                                                 *)
MovesUp == transit # <<>> /\ Head(transit).from = "old" /\ Len(fifo) < Depth

(* Words of an empty FIFO are read as well, as 0xff.                       *)
Discard ==
    /\ pc = "discard" /\ ~MovesUp
    /\ IF left > 0
       THEN /\ left' = left - 1
            /\ fifo' = IF fifo = <<>> THEN fifo ELSE Tail(fifo)
            /\ UNCHANGED <<pc, session>>
       ELSE /\ pc' = "begin"
            /\ session' = resetLaneStatCounters(session, lane, TRUE)
            /\ UNCHANGED <<left, fifo>>
    /\ UNCHANGED <<spi, chips, transit, made, low, buff, readout, stored, args, inject,
                   asics, i, j, lane, rounds, resume, expired, cancelled>>

-----------------------------------------------------------------------------
(* The main loop.                                                          *)

Begin ==
    /\ Goto("begin", "enable")
    /\ session' = IF inject # <<>> THEN start(session, DefaultPattern) ELSE session
    /\ UNCHANGED <<spi, chips, stream, reading, stored, args, inject, asics, i, j, lane,
                   rounds, resume, expired, cancelled>>

Enable ==
    /\ Goto("enable", "loop")
    /\ session' = enableLanesReadout(session, args.lanes, ~args.noAutoread)
    /\ j' = 1
    /\ UNCHANGED <<spi, chips, stream, reading, stored, args, inject, asics, i, lane, rounds,
                   resume, expired, cancelled>>

(* Without autoread the bytes of the chips are clocked out by zeros.       *)
Loop ==
    /\ pc = "loop"
    /\ IF args.noAutoread /\ j <= Count
       THEN /\ lane' = Lane(j)
            /\ writeSPI(Lane(j), Zeros(3), "loop")
            /\ j' = j + 1
       ELSE /\ pc' = "level"
            /\ UNCHANGED <<lane, spi, resume, j>>
    /\ UNCHANGED <<session, chips, stream, reading, stored, args, inject, asics, i, rounds,
                   expired, cancelled>>

(* The level is read byte by byte, the lowest first.                       *)
ReadLevelLow ==
    /\ Goto("level", "level2")
    /\ low' = Len(fifo) % Byte
    /\ UNCHANGED <<board, stream, buff, left, readout, stored, args, inject, asics, i, j,
                   lane, rounds, resume, expired, cancelled>>

readoutGetBufferSize == (Len(fifo) \div Byte) * Byte + low

ReadLevelHigh ==
    /\ Goto("level2", "read")
    /\ buff' = readoutGetBufferSize
    /\ left' = IF args.readout = 0 THEN buff' ELSE args.readout
    /\ UNCHANGED <<board, stream, low, readout, stored, args, inject, asics, i, j, lane,
                   rounds, resume, expired, cancelled>>

ReadWord ==
    /\ pc = "read" /\ left > 0
    /\ left' = left - 1
    /\ IF fifo = <<>>
       THEN /\ readout' = Append(readout, Pad)
            /\ UNCHANGED <<fifo, taken>>
       ELSE /\ readout' = Append(readout, Head(fifo))
            /\ taken' = Append(taken, Head(fifo))
            /\ fifo' = Tail(fifo)
    /\ UNCHANGED <<board, transit, made, low, buff, ofile, dataStream_lst, bufferLength_lst,
                   script>>

(* Mutated form of Store: the time is not looked at.                       *)
StoreRunsOn ==
    /\ pc = "read" /\ left = 0 /\ pc' = "loop" /\ j' = 1
    /\ ofile' = ofile \o readout
    /\ readout' = <<>> /\ low' = 0 /\ buff' = 0
    /\ UNCHANGED <<board, stream, left, dataStream_lst, bufferLength_lst, taken, args,
                   inject, asics, i, lane, rounds, resume, expired, cancelled>>

(* A level of 0 adds nothing to what dataParse_autoread returns.           *)
Store ==
    /\ pc = "read" /\ left = 0
    /\ IF buff = 0 THEN UNCHANGED <<ofile, dataStream_lst, bufferLength_lst>>
       ELSE IF inject # <<>>
       THEN /\ dataStream_lst' = Append(dataStream_lst, readout)
            /\ bufferLength_lst' = Append(bufferLength_lst, buff)
            /\ UNCHANGED ofile
       ELSE /\ ofile' = ofile \o readout
            /\ UNCHANGED <<dataStream_lst, bufferLength_lst>>
    /\ pc' = IF expired THEN "end" ELSE "loop"
    /\ j' = 1
    /\ readout' = <<>> /\ low' = 0 /\ buff' = 0
    /\ UNCHANGED <<board, stream, left, taken, args, inject, asics, i, lane, rounds, resume,
                   expired, cancelled>>

(* The pending call is cancelled and what it read is lost.                 *)
Cancel ==
    /\ Cancels /\ InLoop
    /\ pc' = "end"
    /\ cancelled' = TRUE
    /\ readout' = <<>> /\ low' = 0 /\ buff' = 0
    /\ UNCHANGED <<board, stream, left, stored, args, inject, asics, i, j, lane, rounds,
                   resume, expired>>

Expire ==
    /\ args.timed /\ InLoop /\ ~expired
    /\ expired' = TRUE
    /\ UNCHANGED <<board, stream, reading, stored, args, inject, asics, pc, i, j, lane,
                   rounds, resume, cancelled>>

-----------------------------------------------------------------------------
(* The end of the run.                                                     *)

(* After a cancelled call the thread that still reads may take a byte of   *)
(* the answer of one lane: its register is misread, here with all of its   *)
(* bits clear or all set.  No bit that is written depends on another one   *)
(* that is read, so that any other byte leaves a mixture of the two.       *)
disableMisread(s, bad, v) ==
    flushed(FoldLeft(LAMBDA t, l : modify(t, layer_cfg_ctrl(l),
                         ConfigBits(IF l = bad THEN v ELSE getLaneControl(t, l), Disabled),
                         FALSE),
                     s, [n \in 1 .. LaneCount |-> n - 1]))

Garbled(s) == {disableMisread(s, bad, v) : bad \in Lanes, v \in {{}, 0 .. 7}}

End ==
    /\ Goto("end", "stop")
    /\ spi.coming = 0
    /\ session' \in IF cancelled THEN Garbled(session) ELSE {disableLanesReadout(session)}
    /\ UNCHANGED <<spi, chips, stream, reading, stored, args, inject, asics, i, j, lane,
                   rounds, resume, expired, cancelled>>

Stop ==
    /\ Goto("stop", "post")
    /\ session' = IF inject # <<>> THEN stop(session) ELSE session
    /\ UNCHANGED <<spi, chips, stream, reading, stored, args, inject, asics, i, j, lane,
                   rounds, resume, expired, cancelled>>

(* The decoder is called with one argument too many after an injection     *)
(* run, which raises TypeError.                                            *)
Process ==
    /\ Goto("post", IF inject # <<>> \/ ConcatFails(ofile) THEN "failed" ELSE "done")
    /\ UNCHANGED <<board, stream, reading, stored, args, inject, asics, i, j, lane, rounds,
                   resume, expired, cancelled>>

Script ==
    \/ Setup \/ Quiet \/ EndReset \/ WriteChunk \/ ChunkWritten
    \/ Route \/ Routed \/ Select \/ Config
    \/ Unhold \/ (\E interrupt \in {0, 1} : Poll(interrupt)) \/ Deselect
    \/ Empty \/ Discard \/ Begin \/ Enable
    \/ Loop \/ ReadLevelLow \/ ReadLevelHigh \/ ReadWord \/ Store
    \/ End \/ Stop \/ Process

Environment == ByteArrives \/ Shift \/ Push \/ (\E l \in Lanes : StartFrame(l))

(* The board was powered up, or an earlier run has ended.                  *)
Boards == {Opened(PowerUp), disableLanesReadout(Opened(PowerUp))}

Init ==
    /\ args \in Arguments
    /\ session \in Boards
    /\ fifo \in {<<>>, OldWords(Depth)}
    /\ transit \in {OldWords(n) : n \in 0 .. MaxBacklog}
    /\ chips = [l \in Lanes |-> ResetChips(Chain)]
    /\ spi = [lane |-> 0, payload |-> Zeros(0), sent |-> 0, coming |-> 0, level |-> 0,
              heard |-> TRUE, lost |-> FALSE]
    /\ inject = <<>> /\ asics = <<>> /\ pc = "setup" /\ resume = "setup"
    /\ i = 0 /\ j = 1 /\ lane = 0 /\ rounds = 0 /\ made = 0
    /\ low = 0 /\ buff = 0 /\ left = 0 /\ readout = <<>>
    /\ ofile = <<>> /\ dataStream_lst = <<>> /\ bufferLength_lst = <<>> /\ taken = <<>>
    /\ expired = FALSE /\ cancelled = FALSE

Next == Script \/ TimedOut \/ Cancel \/ Expire \/ Environment

(* In the main loop the script runs on, and a lane shifts out what it has. *)
Looping ==
    \/ Loop \/ ReadLevelLow \/ ReadLevelHigh \/ ReadWord \/ Store
    \/ WriteChunk \/ ChunkWritten \/ TimedOut \/ ByteArrives \/ Shift

Spec == Init /\ [][Next]_vars /\ WF_vars(Looping) /\ WF_vars(Expire)

-----------------------------------------------------------------------------
(* Properties.                                                             *)

(* The register file does not look whether a byte it writes finds room in  *)
(* the FIFO of the lane, and a chunk is longer than the FIFO.  No byte of  *)
(* a routing frame, of a configuration or of the flush is lost all the     *)
(* same: until the main loop begins no lane can pause.                     *)
NothingOverflows == spi.lost => resume = "loop"

(* Words that were in the readout buffer, or behind it, before the readout *)
(* was enabled are not part of the data of the run, when no more of them   *)
(* wait than the flush reads; without that see MainScript_rows.cfg.        *)
OldDataFlushed == \A k \in DOMAIN taken : taken[k].from # "old"

WithoutPads(words) ==
    FlattenSeq([k \in DOMAIN words |-> IF words[k].from = "pad" THEN <<>> ELSE <<words[k]>>])

Data == (IF inject # <<>> THEN dataParse_autoread(dataStream_lst, bufferLength_lst)
         ELSE ofile) \o readout

(* When as many words are read as the level said, every word that leaves   *)
(* the buffer is kept, once and in order, whatever arrives between the     *)
(* reads of the level and of the data; a cancelled call loses the words of *)
(* that call only.                                                         *)
StreamKept ==
    args.readout = 0 =>
        /\ IsPrefix(WithoutPads(Data), taken)
        /\ ~cancelled => WithoutPads(Data) = taken

(* Fill words are between frames and not inside of one.                    *)
PadsBetweenFrames(words) ==
    \A k \in DOMAIN words :
        words[k].from = "pad" /\ k > 1 => words[k - 1].from = "pad" \/ words[k - 1].part = 3

PartOfFrame(p) ==
    \A k \in DOMAIN p : p[k].part = k /\ p[k].frame = p[1].frame

(* The chunk of the file, its fill words aside, begins with a frame.       *)
BeginsWithFrame(words) ==
    \A k \in DOMAIN words :
        words[k].from # "pad" /\ (\A m \in 1 .. k - 1 : words[m].from = "pad")
            => words[k].part = 1

(* A frame that lies in one piece at position n.                           *)
FrameAt(words, n) ==
    /\ n + 2 \in DOMAIN words
    /\ PartOfFrame(SubSeq(words, n, n + 2))

(* Every frame before which no other one is torn by fill words is a packet.*)
FramesFound(words) ==
    \A n \in DOMAIN words :
        FrameAt(words, n) /\ PadsBetweenFrames(SubSeq(words, 1, n))
            => SubSeq(words, n, n + 2) \in ToSet(list_hits(words))

(* The packets are the frames and nothing else; the last may be cut.       *)
NothingElseFound(words) ==
    LET hits == list_hits(words) IN
    /\ \A k \in DOMAIN hits :
          PartOfFrame(hits[k]) /\ (k < Len(hits) => Len(hits[k]) = 3)
    /\ FlattenSeq(hits) = WithoutPads(words)

(* The decoder knows the frames the lanes sent by a length byte only, and  *)
(* sees a chunk of the file at a time.  In a chunk that begins with a      *)
(* frame it finds the frames up to the first that is torn by a fill word   *)
(* (which an outdated level leaves in the file), and, when none is, just   *)
(* the frames.  What it makes of a chunk that begins inside a frame, see   *)
(* MainScript_rows.cfg.                                                    *)
PacketsAreFrames ==
    pc = "done" /\ args.readout = 0 =>
        \A k \in 1 .. chunks(ofile) : LET words == chunk(ofile, k) IN
            BeginsWithFrame(words) =>
                /\ FramesFound(words)
                /\ PadsBetweenFrames(words) => NothingElseFound(words)

(* A run that gets to its end leaves every lane held, deselected and       *)
(* without readout, and no injection going on, even when the reads of the  *)
(* lane registers were answered with the bytes of a cancelled read.        *)
Held(l) == Control(l) \cap (0 .. 4) = {0, 2, 4}

LeftQuiet ==
    pc \in {"done", "failed"} => (\A l \in Lanes : Held(l)) /\ ~Running(session.board)

(* What the chips of a lane should do: pixels that inject and pixels that  *)
(* are on.                                                                 *)
Rows(words)   == {r \in DOMAIN words : InjectRow \in words[r]}
Columns(words) == {c \in DOMAIN words : InjectColumn \in words[c]}
On(words) == {p \in (0 .. Side - 1) \X (0 .. Side - 1) : Comparator(p[2]) \notin words[p[1]]}

AsAsked(l, k) ==
    LET y     == args.yaml[FileOf(l)].config[k]
        here  == inject # <<>> /\ inject[1] = l /\ inject[2] = k
        extra(set, x) == IF here THEN set \cup {x} ELSE set
        c     == chips[l].config[k]
    IN /\ k \in DOMAIN chips[l].config
       /\ Rows(c.recconfig) = extra(Rows(y.recconfig), inject[3])
       /\ Columns(c.recconfig) = extra(Columns(y.recconfig), inject[4])
       /\ On(c.recconfig) = extra(On(y.recconfig), <<inject[4], inject[3]>>)
       /\ c.vinj = IF here /\ args.vinj # "default" THEN args.vinj ELSE y.vinj

(* While data is taken, the chips of the lane that was configured last     *)
(* have the configuration of their file, and the chip that injects has one *)
(* more pixel on and injecting, at the voltage asked for.                  *)
LastLaneConfigured ==
    InLoop => \A k \in 0 .. args.chipsPerLane[Count] - 1 : AsAsked(Lane(Count), k)

(* The same of every lane that was named on the command line.  The code    *)
(* does not keep this: see MainScript_chips.cfg.                           *)
LanesConfigured ==
    InLoop => \A n \in 1 .. Count, k \in 0 .. MostChips - 1 :
                  k < args.chipsPerLane[n] => AsAsked(Lane(n), k)

(* The main loop of a run with a time limit is left, also when a lane has  *)
(* paused because the readout buffer is full.                              *)
LoopEnds == (args.timed /\ InLoop) ~> (pc \in {"end", "dead"})

(* Of the default mode: no word is read that the buffer did not contain.   *)
(* The code does not keep this: see MainScript_rows.cfg.                   *)
OnlyWhatIsThere ==
    args.readout = 0 => \A k \in DOMAIN readout : readout[k].from # "pad"

(* A packet of the decoder has bytes of one frame only, from its first     *)
(* byte.  The code does not keep this: see MainScript_rows.cfg.            *)
ChunksAreFrames ==
    pc = "done" /\ PadsBetweenFrames(ofile) =>
        \A k \in 1 .. chunks(ofile) :
            \A hit \in ToSet(list_hits(chunk(ofile, k))) : PartOfFrame(hit)

(* Every packet the decoder finds in a chunk is a row of the table.  The   *)
(* code does not keep this: see MainScript_rows.cfg.                       *)
EveryHitDecoded ==
    pc = "done" => Len(bin2csv(ofile)) =
        Len(FlattenSeq([k \in 1 .. chunks(ofile) |-> list_hits(chunk(ofile, k))]))

=============================================================================
