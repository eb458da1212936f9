# Verification of the CompAIR readout firmware and its host driver

TLA+ models, model-checking runs and machine-checked proofs for the firmware
that reads AstroPix sensor chains (SystemVerilog, `rtl/`) and for the Python
side of it: the register driver (`vendor/icflow_hdl_240807/hdl_rfg_v1/python`),
the board and chip drivers, and the scripts that configure and read the chips
and the housekeeping ADCs (`sw/`).
The source is the reference: a definition names the operation it stands for,
and `PROJECT.json` gives its lines.

Contents: the system, the hard parts, the modules, the runs, fairness, the
proofs, findings, what is left out, the plan.

## The system

Up to twenty lanes of sensor chips are read over SPI. Per lane the firmware
cuts the byte stream into frames; a switch merges the frames into one readout
FIFO, which the host empties through a register file. The same register file
configures the lanes and the chips.

    chips = SPI master = MISO FIFO = frame decoder \
    chips = SPI master = MISO FIFO = frame decoder - AXIS switch = readout FIFO = register file
      ...      ^ MOSI FIFO <----------------------------------------------------/     |
    host = UART / SPI / FTDI links = AXIS switch = register protocol decoder ---------/
    scripts = board driver = register driver (command buffer, threads) = serial port

| component | state it keeps | operations | talks to |
|---|---|---|---|
| first-word-fall-through FIFO (`mini_fwft_fifo.sv`, `fifo_ptr_logic.sv`) | two pointers, four registered flags, memory, output word, count | a clock edge with read, write or both; reset | inside the next three |
| AXI-Stream FIFO (`fifo_axis_common.sv`) | vendor FIFO, its output register, read strobe, cache, level | write edge, read edge, resets | everything that streams |
| AXIS switch (`axis_switch.sv`, `round_robin_arbiter.sv`) | an input FIFO per port, rotation, grant, target table | one edge: arbitrate, connect, move words | lanes to readout FIFO; host links to decoder |
| lane frame decoder (`astropix_spi_protocol_av1.sv`) | state, remaining length, header, frozen time stamp, readout request and its counter | one edge per byte state; lane reset | MISO FIFO, switch, SPI master (enable), statistics |
| register protocol decoder (`rfg_axis_protocol.sv`) | state, header, address, lengths, read buffer, answer word | one edge per byte state | host switch, register file |
| register file (`main_rfg.sv`) | all configuration registers, counters, FIFO ports | write, read, counter updates | everything |
| register driver (`rfg/core.py`, `rfg/io/uart.py`, generated functions) | command buffer, current register, executor threads | addWrite, flush, syncRead | scripts above, serial port below |
| register table (`astep24_20l_top/__init__.py`) | addresses, widths, increments | one write and one read function per register and lane | register driver |
| board driver, injector (`board_driver.py`, `injector.py`) | pattern parameters in memory; the board's registers by read-modify-write | lane, board, injector calls, with or without flush | register table |
| chip driver, decoding (`asic.py`, `decode.py`) | chip configurations in memory | load, change, chunked SPI frames; cut a readout into hits | board driver |
| readout script (`main.py`) | arguments, configurations, level, data read, file | prepare, configure, flush, read until time is up or Ctrl+C | all of the above |
| housekeeping (`hk_loop.py`, `housekeeping_to_csv.py`, `scripts/housekeeping.py`, `astep/housekeeping.py`) | codes read; two SPI FIFOs, a channel in each pipelined ADC | select, address, count, read | register table |
| SPI master, UART driver, SPI host link, framing | shift registers, handshake states | bit and byte steps | FIFOs, pins |
| injection pattern generator | parameters, counters | load, run, pulse train | register file |

What makes each correct, in short. The FIFOs: a queue, with exact flags. The
switch: no word lost, repeated or reordered, frames of two sources not mixed, a
word only at its target, every source served. The frame decoder: each frame
well formed, its payload that of the sensor, statistics that count. The register
decoder: what is commanded is done once, in order, and answered completely. The
driver: accesses look atomic and in program order. The board driver: a call
changes what it is named for and nothing else, although settings share registers
and writes may wait in a buffer. The readout script: chips get the configuration
that was asked for, old data is thrown away, data is kept whole, and the board is
left quiet. Housekeeping: a code belongs to the channel it is filed under.

### Hard behaviours

- **Registered handshakes.** `ready` and `valid` are computed a cycle before
  they matter, so each block has to survive a word that is already under way
  when the other side stops. Most findings in the hardware are of this kind.
- **Incremental flags.** FIFO flags come from coincidences of wrapped pointers
  and are never recomputed.
- **Several sources, one sink.** Grants overlap the end of the previous
  transmission, and a grant can take over a transmission that has just begun.
- **Timeouts against data.** The readout ends on a counter that races bytes in
  flight.
- **Cancellation and kills.** Ctrl-C cancels a Python task whose thread stays at the
  port; a script that is killed leaves bytes in FIFOs nobody empties.
- **Reads of what moves.** A level of several bytes is read while the lanes
  change it, and as many words are read as it said.
- **Two clocks.** FIFO sides see each other late.

`PROJECT.json` lists every hazard at its line, with the properties that cover it
or the reason why none does yet.

## Modules

A hardware module is modelled one rising edge per step: every register gets its
next value from the present ones, the environment chooses the inputs. Words and
bytes are reduced to what tells them apart: a position, a flag, a number.

| module | models | notes |
|---|---|---|
| `FwftQueue` | abstract bounded queue with its head and flags shown | what the FIFO promises |
| `FwftFifo` | `mini_fwft_fifo.sv` and `fifo_ptr_logic.sv` as operators: state and inputs to next state | used by four modules, each of which clocks it with its own registers |
| `MiniFwftFifo` | one such FIFO as a specification; refinement of `FwftQueue` | the inputs are variables of both, so a word that is accepted has to be the one presented, and none may be passed over |
| `MiniFwftFifo_proofs` | the proofs: first one edge of the operators of `FwftFifo`, then the specification | for every depth of at least 2 |
| `AxisStream` | abstract stream: words go in, come out in order | leaves open which word enters at an edge, so that one- and two-clock FIFOs both implement it |
| `FifoAxis`, `MCFifoAxis` | `fifo_axis_common.sv` around a vendor FIFO, single and dual clock; refinement of `AxisStream` | the vendor FIFO is external: one cycle of latency, late view of the other side |
| `FifoAxis_proofs` | the proofs, with the lemmas of `MiniFwftFifo_proofs` for the cache | for every capacity, one clock or two |
| `AxisSwitch`, `MCAxisSwitch` | `axis_switch.sv` with the arbiter | sources send frames with pauses, sinks may stall |
| `MCAxisSwitchClock` | the same in the lane readout | lanes offer words when the lane decoder does; a frame FIFO the host reads |
| `AxisSwitch_proofs` | the proofs | for every number of ports |
| `AstropixProtocol`, `MCAstropixProtocol` | `astropix_spi_protocol_av1.sv` | environment: SPI master, sensor, switch |
| `AstropixProtocol_proofs` | the proofs | for every payload length |
| `RfgProtocol`, `MCRfgProtocol` | `rfg_axis_protocol.sv` with the access port of the register file | environment: hosts that send whole commands, the switch port behind `m_axis`, the egress FIFO of the host link |
| `RfgProtocol_proofs` | the proofs, with the lemmas of `MiniFwftFifo_proofs` for the read buffer | for every command, every depth of the port and the egress FIFO, and every pattern of stalls |
| `RegisterMap` | what a write and a read do to the registers | shared by the next two |
| `RegisterAccess` | abstract register session: every access atomic, in program order | |
| `RfgHost`, `MCRfgHost` | `core.py` and `uart.py`; refinement of `RegisterAccess` | environment: serial port, firmware that obeys commands in order, unless it lost the beginning of one |
| `RfgHost_proofs` | the proofs: folds and pieces of sequences; the driver | for every register map, part length, number of calls and of faults |
| `RegisterTable` | the generated driver as a table of registers | the number of lanes is a constant; the proofs are in `HostScripts_proofs` |
| `BoardDriver` | `board_driver.py`, `injector.py`, the register part of `astep/housekeeping.py`, as operators on a session: a board and the writes collected for it | declares the session, which the scripts below share |
| `BoardState` | abstract board: settings by name, each changed by its call alone | says when a change takes effect |
| `DriverCalls`, `MCDriverCalls` | a script that makes any calls; refinement of `BoardState` | bits, shared registers and the buffer are hidden by the mapping |
| `Asic` | `asic.py`: configurations, their changes, SPI frames; how a chip takes one | pure operators |
| `Decode` | `decode.py` and what `main.py` does with a readout | pure operators |
| `MainScript`, `MCMainScript` | `main.py` over `BoardDriver`, `Asic` and `Decode`, beside lanes, SPI links, chips and the readout buffer | command lines are constants: any that argparse and the checks behind it let through |
| `HostScripts_proofs` | the proofs of `RegisterTable`, `DriverCalls` and `MainScript`, in this order, since they share the lemmas about the calls | for every number of lanes and chips, every command line, every size of buffer, FIFO and backlog |
| `Housekeeping`, `MCHousekeeping` | the scripts that read the ADCs, killed and started again anywhere, beside SPI master, FIFOs and ADCs | |
| `Housekeeping_proofs` | the proof | for every number of ADCs, channels, FIFO depth and killed scripts |

State and actions correspond to the code by name: a variable is the register or
attribute of that name, an action the state of the `case` statement or the method
of that name (`RfpWriteValue` is `RFP_WRITE_VALUE`, `HeaderId` is `HEADER_ID`,
`syncRead` is `syncRead`). A definition called a mutated form is a plausible mistake in
the definition it names; no specification uses it. It is there to show that the
properties notice.

Points where a model decides something:

- `FwftFifo` keeps the memory and writes behind the pointer as the code does
  (`mem[write_pointer - 1]`); `Contents` is the abstraction of it.
- `AxisSwitch` has a word's position in its frame for `tdata`. `expected` and
  `open` are histories. The order of the assignments of one edge to the target
  table (lines 155 to 171) is that of the nested updates in the model.
- `AstropixProtocol`: a byte carries its place in the sensor's frame, so lost
  and moved bytes are seen. The MISO FIFO is a short queue; `Paced` makes a byte
  arrive only when the decoder can take it, which is the case when SPI is much
  slower than the core clock.
- `RfgProtocol`: values written are numbered, a register reads as its address,
  the readout FIFO as a running number. The decoder's answers enter the switch's
  input FIFO. Once granted, a word leaves it at every edge at which the egress FIFO is
  not full (`axis_switch.sv:210`, `fifo_axis_common.sv:113`; 64 words as built), and a
  word leaves the egress FIFO at most once in `DrainGap + 1` cycles. A byte takes the
  UART seven states of a slower clock at least (`uart_lattice_axis_driver.sv:150-256`), so
  `DrainGap >= 1` is what the hardware has. An empty FWFT FIFO shows its last word on,
  `tlast` included: `stale` is that flag, and where it depends on the sequence of reads
  and writes it may be either.
- `MCAxisSwitchClock`: a lane decoder holds `tvalid` through header and time stamp and
  drops it between payload bytes for as long as the SPI takes to bring the next
  (`LanePause` edges at least; a byte of SPI takes more), without an upper bound.
- `RfgHost`: a thread gives a whole command to the port at a time, and takes
  single bytes. Two threads that write at once can mix their bytes inside a
  command in the real program; the model is kinder there. A cancelled call
  happens only where the code awaits a thread. A write that fails loses what is left of
  the buffer, from a command boundary on or from inside a command (`torn`). After the
  latter the firmware takes bytes for what they are not: each command that arrives is
  carried out, or has bytes written anywhere and answered with anything (`Misread`).
- `BoardDriver`: a byte is a set of bits where the code handles bits, a number
  elsewhere. A flushed write takes effect with the call; `RfgHost` is about how.
- `MainScript`: a step ends where the board can change before the next access, that
  is at each access of a lane, a FIFO or a level. A level has two bytes of `Byte`
  values each, and is read byte by byte. A frame is three words: its length, its
  lane, and one byte of data. A word read beyond the end of the readout buffer is
  a pad (`0xff`). A chunk of `writeSPI` is longer than the FIFO of a lane (256 bytes
  against 64 and a cache of 4, `fifo_axis_common.sv:157`). Its bytes come one by one out of
  the UART, more slowly than a lane that runs shifts them out, so only a lane that has
  paused can find its FIFO full, and loses the byte. What an interrupted call leaves at
  the port (see `RfgHost`) answers the later reads of one lane with any byte; of its bits
  only those that a setter keeps matter, all clear or all set.
- `Decode`: the file is decoded in chunks of `ChunkSize` (4096 bytes in `main.py:121`),
  wherever its frames end.
- `Housekeeping`: an access of the host finds the SPI link idle. With the largest
  divider (255) a frame of 16 bits takes about 140 us, the four and more UART bytes
  of one register access at 115200 baud more than 340 us. A byte is its place in
  the conversion of a channel.

## Runs

All runs are exhaustive over their bounds.

| run | bounds | shows |
|---|---|---|
| `mini_fwft_fifo` | 4 words deep (as built), 2 words told apart | exact pointers and flags; the FIFO is a queue |
| `fifo_axis` | vendor FIFO of 3, cache of 4, built with one clock and with two, resets | stream order, safe read strobe, level never over, words offered |
| `switch_merge` | 3 ports, frames of 2 words, both lanes to one sink, pauses, stalls and resets | one-hot grant; order kept, nothing lost or repeated |
| `switch_served` | the same ports, frames of 11 words with pauses between payload bytes; one lane and a slow host, or two lanes and a host that keeps the frame FIFO from filling | never stuck; every source served |
| `switch_contiguous` | two lanes, no pauses, no stalls | *violation*: frames of two lanes are mixed |
| `protocol_frames` | payload up to 2; either sink stalls and resets, or bytes that arrive when they can be taken | frames well formed, offers stay, frames counted; and when no byte waits: payload complete and in order, idle bytes counted, frames end |
| `rfg_commands` | one host, 4 kinds of commands, a read of 14 words, port of 3 words, egress FIFO of 4 that gives up a word every other cycle | commands carried out and answered exactly; every read answered |
| `host_session` | 4 calls, 4 kinds of registers, parts of 2 values; one call cancelled, or one write to the port failing at the beginning of a command or inside it | undisturbed calls are an atomic register session; writes keep to their register, calls return; an answer that comes is the right one, unless a call was cancelled or a part of a command was left on the wire |
| `driver_calls` | 2 lanes, 3 calls of every function, flushed or not, a fresh board or one that injects | each call changes its settings and no others; no command passes the end of a register |
| `main_script` | 13 command lines, 2 lanes of up to 2 chips, 2 frames, buffer of 3 words with 2 behind it, chunks of 8 bytes and a FIFO of 2, files decoded in chunks of 5, Ctrl+C | nothing sent to a lane before the loop is lost, old data is flushed, data is kept whole, a chunk of the file that begins with a frame splits into frames, the lane configured last has its configuration, the board is left quiet, the loop ends |
| `main_chips` | the two-lane command line | *violation*: all lanes but the last keep their configuration |
| `housekeeping` | 3 ADCs of 8 channels (as built), FIFO of 8 bytes, 2 rows, 3 scripts killed anywhere | codes belong to their channel; the script left alone completes its rows |

More configurations beside these show, each with a counterexample found within
seconds to a minute, where the properties above need their restrictions; see the
findings. Where several properties are named, the configuration holds one and names
the others in a comment.

| configuration (module) | property it violates |
|---|---|
| `FifoAxis_count` (`FifoAxis`) | `CountSettles` |
| `AxisSwitch_host`, `AxisSwitch_commands` (`MCAxisSwitch`) | `ToTarget`, `NotStuck` |
| `AxisSwitch_stuck` (`MCAxisSwitchClock`): the lanes of `switch_served`, two of them and a slow host | `NotStuck` |
| `AstropixProtocol_idle` (`AstropixProtocol`) | `IdleAlwaysCounted`, `NodataCountsBytes`, `PayloadAlwaysInOrder` |
| `RfgProtocol_burst`, `RfgProtocol_hosts` (`MCRfgProtocol`) | `AnswerInOrder`; `OneHostPerCommand`, `NoByteDropped` |
| `RfgHost_faults` (`MCRfgHost`) | `WritesAreKept`, `AnswerIsOwnAlways`, `WriteLeavesOthers` |
| `MainScript_rows` (`MCMainScript`) | `EveryHitDecoded`, `ChunksAreFrames`, `OnlyWhatIsThere`, `OldDataFlushed` |
| `Housekeeping_killed` (`MCHousekeeping`) | `CodesAreChannels` |

Why the bounds are enough. FIFO depth 4 is the real one, and all coincidences of
two wrapped pointers occur with it; the proofs cover the other depths. A vendor
FIFO of 3 is full, almost empty and empty within one behaviour and holds more
than the strobe, register and cache need to be all in use. Three ports are the
fewest with two sources that compete for one sink beside a port without a source;
frames of two words have a word with and one without `tlast`; those of `switch_served` have the
real 11 words, and its frame FIFO of two words is full and empty within a frame. A payload of two
bytes has a first, a last and a header before it; the length counter does not
look at more, and the proofs cover every length. A read of 14 words fills the egress
FIFO (4), the port (3) and the read buffer (4), so that every stage stalls, and has words left. Four calls of the driver are a
write, another that extends or follows it, a flush and a read; parts of two values
make a write of three split as one of 65536 would. What a misread command writes and answers
is of no property of `host_session` (`MaxNoise = 0` there: it is dropped, or carried out as it is). Three calls of the board driver
are one that collects, one on the same register, and one that flushes. Two lanes are
a first and a last; the command lines of `main_script` are one lane, two lanes,
injection, a fixed readout length, no autoread, and eight with arguments the script
stumbles over, a lane named twice among them. A buffer of three words holds a frame and can be full; two bytes of
two values make a level whose carry tears. A FIFO of 2 bytes overflows within a chunk of 8; with
frames of three words and chunks of five, frames lie inside of, at and across boundaries. With a FIFO of 8 bytes
in place of 64 three killed scripts are as many as the theorem allows (see Proofs); one of 6 bytes
is too small for five (`Housekeeping_killed`). The numbers that stand for 65535 (`PartLength`),
512, 1024 or 4096 words (`Capacity`, `Depth`, `ChunkSize`), 7 (`MaxLength`), 20 lanes (`PORTS`,
`LaneCount`), 35 rows and columns (`Side`) are constants.

Every property of a passing run has a mutant in `PROJECT.json`: a change of a
modelled operation that makes the property fail in that run.

Deadlock is checked except in the runs of `RfgHost`, `DriverCalls`, `MainScript` and
`Housekeeping`, where a script makes a bounded number of calls and ends, or waits
for an answer that was lost.

## Fairness

Hardware steps are edges of a clock that never stops. Weak fairness of a plain
step would force the environment to act when nothing else changes the state, so the
clocked instances `MCAxisSwitchClock`, `MCAstropixProtocol` and `MCRfgProtocol` add a
bit `clk` that changes at every edge and ask weak fairness of the tick: an idle edge
satisfies it. On top of it:

- `MCFifoAxis` has no such bit and asks fairness of the edges only while a word is
  inside and not offered, when each edge moves it; with two clocks, what was
  written is seen by the read side in the end (a synchronizer of a few stages);
- `MCAstropixProtocol`: bytes go on arriving while the readout is active (the
  SPI clock runs then);
- `MCAxisSwitchClock`: a lane that has begun a frame gets the rest of it from the chip, since
  the readout is only ended between frames, and the host goes on reading the frame FIFO;
- `MCRfgProtocol`: a host sends the command it began, the switch grants the way, and a word in
  the egress FIFO leaves it, as a host reads what it asked for;
- `RfgHost`: threads, firmware and event loop go on (an executor thread is
  scheduled by the operating system). Nothing obliges the script to make a call,
  a call to be cancelled or the port to fail;
- `MainScript`: in the main loop the script runs on and a lane shifts out the bytes it
  has, and the clock reaches the time limit. Chips need not send, words need not
  enter the buffer, and the user need not interrupt. The loop ends all the same,
  also against a lane that has paused, because `writeSPI` gives up after a time;
- `Housekeeping`: a script that is not killed goes on, and the SPI link shifts while
  an ADC is selected. The number of killed scripts is bounded, so that one is left
  alone in the end.

No source has to start a frame, and no sink that may stall is forced to accept.

## Proofs

All proofs are for every value of the constants that the named assumption of the
component's module allows. `PROJECT.json` lists the theorems.

**`MiniFwftFifo`**, from `DepthAssumption` (a depth of at least two):
`TypeCorrect`; `PointersExact`, the wrapped pointers are `rd_data_count` apart;
`FlagsAlwaysExact`, the four registered flags say what the count says; `Refinement`,
the FIFO implements `FwftQueue`. The flags are set where a pointer is about to meet
the other one. Such a meeting means full or empty depending on the direction it is
approached from, so the flags are not inductive alone, and neither is the distance of
the pointers, since it is known only modulo the depth. The inductive invariant is their
conjunction with the types: the count fixes the distance, the distance makes the
coincidences mean what the flags need. Pointer arithmetic is written as a linear wrap,
not with `%`. The refinement needs what is stored where: `Contents` reads the memory
from the read pointer on, and three lemmas say what a write, a read, and both at once
do to it, with or without the bypass around the memory. All of this is stated of one
edge of the operators at the head of the module, with the FIFO as an argument, so that other
users of the FIFO cite it.

**`FifoAxis`**, from `FifoAxisAssumption`, with one clock or two: `TypeCorrect`;
`StrobesSafe`, the vendor FIFO is read only when it has a word and the cache will have
room; `Refinement`, the whole implements `AxisStream`; `CountsNeverOver`. The invariant
is types, strobe safety and a sound cache (the invariant of `FwftFifo`, cited at depth
4). For the refinement the words inside are the cache's, then the word the vendor FIFO
returns, then the vendor FIFO's own: a read moves the boundary between the last two, and
nothing else.

**`AxisSwitch`**, from `PortsAssumption`: `GrantsOneHot`, by the fact that the masked
rotation has at most one bit; `WordsInOrder`, for a switch whose sources all send to sink
0, as the lane readout is built. There the invariant says of each source that the words in
its FIFO and the word it offers continue what was delivered, whoever is granted, at takeovers
too. (With two sinks the property does not hold: `AxisSwitch_host`.)

**`AstropixProtocol`**, from `ProtocolAssumption`, in every environment: `TypeCorrect`, with
the payload counter never decremented below zero; `FramesWellFormed`; `OffersStay`;
`FramesCounted`. Well-formedness speaks of whole frames, so the invariant has to say of each
state how much of the frame is out: there is a header length n such that the words
accepted so far begin a frame for n (`Beginning`), and state, accepted words and remaining
length agree (`AtForward`: accepted + remaining = n + 2, and so on). Each state has a lemma
that takes one of these descriptions to the next. When a byte arrives only as the decoder can
take it (`Paced`): `PayloadStaysInOrder` and `IdleBytesCounted`. Their invariant (`InStep`)
relates the place of the byte that arrived to the state that is to take it; at any other
pace it fails, as the configuration `AstropixProtocol_idle` shows.

**`RfgProtocol`**, from `RfgAssumption`. `TypeCorrect` is for any hosts: the registers keep
sixteen and eight bits, the read buffer and the port of the switch are never overfilled.
For one host that awaits its answers, and a host link that does not take two words out of the
egress FIFO on consecutive edges (`DrainGap >= 1`, which the UART keeps by far), and an input
FIFO of the switch of at least three words (as built): `AnswerAsAsked`, every byte of an answer
arrives once, in order and with `tlast` on the last; `WritesExact`, the register file sees the
writes that were commanded and no others. The switch itself may forward a word at every edge, for
as long as the egress FIFO, of any depth, has room. That hosts wait and `DrainGap` is not 0 is needed: the
configurations `RfgProtocol_hosts` and `RfgProtocol_burst` are the counterexamples. The
inductive invariant has four parts. `Decoding`: the bytes the host has yet to send are those
of the command from the one on that the state waits for. `WritesDue`: the writes not yet made
are those whose value was not taken, and the one on its way to the register file.
`WordsInPlace` and `ReadOn`: from the oldest on, the words of an answer are with the host, in
the port, on `m_axis`, in the read buffer, on their way into it, in the register file, and
not read yet; each place holds the words whose turn it is, and the two length counters are
what is left. These hold by themselves as long as no word is shown twice and the end is not
taken to be reached early, which is so when the read buffer has a word at each edge at which one
is accepted. That is the fourth part, `Supplied`: it bounds how few words the buffer, its input
and the register file may hold between them, by the room in the port and the egress FIFO, whether
the switch moves words already, and the edges until a word leaves: the pipeline either runs full, with at most
one stall behind it, or stalls have filled it and it is emptied slowly, at every other edge at most. It is what
the pace of the host link is needed for, and the part that is not to be seen in the code.

**`Housekeeping`**, from `HousekeepingAssumption`: `CodesStayChannels`, as long as the FIFO of
commands has room for one more command (two bytes) of each killed script and of the one
that runs (`RoomForKilled`): every code that is kept is the conversion of the channel it is
filed under. A script asks for each reading several times, and each try reads all that has
arrived. The invariant says what that achieves: a killed script leaves at most one frame
(`RoomLeft`), frames are never torn (`FramesWhole`), so with room for them the first try of a reading
empties both FIFOs; from the second try on these hold the frame of the try alone; from the third
on the ADC converts the channel that is asked for (`InTry`). The last try is the one that is kept.
The theorem covers up to `FifoDepth / 2 - 1` killed scripts; TLC finds the first failure with
`FifoDepth / 2 + 2`, and what is between is open.

**`RfgHost`**, from `RegisterMapAssumption` and `HostAssumption`: addresses and lengths of two bytes,
registers with different addresses (`SpansDisjoint` shows it of the generated table), and none that is
wider than the longest write of the wire (the widest has a few bytes, the wire carries 65535).
`TypeCorrect` holds whatever is cancelled and however the port fails. `AnswersAreOwn`: until a call is
cancelled, or a failed write leaves a part of a command on the wire (`torn`), a read returns what its
register holds, also after whole commands were lost in the port.
`OthersKeepTheirBytes` and `SessionImplements` are for scripts that do not write a register of several
bytes twice without a flush (`~Repeats`), since the code spreads such a write over the next registers
(`RfgHost_faults`): a write changes no other register, and the session, as long as it is not disturbed,
implements `RegisterAccess`, so that buffer, merging, splitting and threads are not to be seen.
The invariant has three parts beside the types. `LastIsCurrent`: the last command of the buffer is for the
register the driver remembers, so only a write of the same register extends it. `OneCall`: while no
call was cancelled and no command torn, the one command that is answered is behind all writes on its way to the firmware
(`Ahead`), or its answer lies, in two pieces, at the port and with the thread (`Answered`), or it was lost.
`WholeInv`: no write in the buffer would be torn when it is sent in parts. The refinement maps the
registers to what they will hold when everything called has been carried out (`Shown`), and the position of
the readout to where it stands for the caller (`Returned`), `Back` by what is underway. Every
step of the threads, the firmware and the flush leaves both alone: a command moves from one sequence to
the next in `up \o todo \o OnTheWire(commands)`, the fold over which is the same. That a write in
any number of parts does what the write does (`PartsDo`), and that the wire does what the buffer says
(`WireFold`), are statements about sequences of any length. The library's induction theorems cannot be used here, since they
take an operator as a parameter; but a set can stand for the predicate, and `Smallest`, the least-number
principle for sets, follows from the library's `WFMin`. `FoldLeft` and `FlattenSeq` are unfolded for the one
operator each is used with.

**`RegisterTable`** and **`DriverCalls`**, from `LaneAssumption` (as many lanes as the address map
has room for): `SpansDisjoint`, the addresses of different registers never overlap; and, when no
register of several bytes is written twice without a flush (`~Repeats`), `CallsStayInside`: no
sequence of calls collects a command that runs past the end of its register, and
`CallsReachOneRegister`: it reaches no address of another one. `addWrite` extends the last command when it
is for the same address, without looking at its length, so the invariant (`Callable`) says which
commands there are: one that counts its address up carries the four bytes of one register, one that
does not is for a register of one byte, whose address is no other register's (`SpansDisjoint`), and
the last command is never that of a frame counter, since `resetLaneStatCounters` follows it with
the idle counter. Nothing is assumed of the arguments or of the board. The calls that end with a flush
need only that a flush leaves no commands, whatever was collected by their loops.

**`MainScript`**, from `LaneAssumption`, `MainScriptAssumption` and `ArgumentsAssumption`
(`Accepted`: what argparse and the checks behind it let through; nothing is assumed of how
many lanes, chips or files there are, nor that a lane is named once):

- `ScriptLeavesQuiet`: a run that gets to its end leaves every lane held, deselected and
  without readout and no injection going on, whatever the reads after a cancelled one
  return. `SessionInv` says when the lanes are quiet: until the readout is
  enabled no lane requests a frame (`Deaf`); from the end of the loop on all are held, and
  stopping the injector changes no register of a lane. It needs one lemma per call that says
  which registers it may change. The calls over a list of lanes are folds, so each has a lemma
  by induction over the list.
- `ScriptNothingOverflows`: no byte sent to a lane before the main loop is lost, although a chunk is longer
  than the FIFO. It has no hypothesis on the sizes: a lane pauses only when it receives and a frame
  finds the buffer full, and until the readout is enabled no lane requests one (`Deaf`). In
  the loop with `-na` lanes do pause and bytes are lost; the property does not speak of these.
  `LinkInv` relates what was sent, what is still to come out of the UART, the level of the FIFO
  and the place the script is at.
- `ScriptFlushesOldData`, when no more old words wait behind the readout buffer than the
  flush reads beyond its depth (`MaxBacklog <= FlushExtra`; the run `MainScript_rows` is the
  counterexample without it). `StreamInv` bounds, while the flush is at work, what lies in and
  behind the buffer by what is still to be read, and says of every word taken after it which
  one it is (`FrameWord`): the stream of the run is known word by word.
- `ScriptKeepsStream`: a word that leaves the buffer is kept, once and in order. It has no
  hypothesis. What the script holds lies in four places: words of the call that runs, the file, and with
  an injection a list of readouts with their levels, which are put together after the run.
  `KeepInv` says that each of these steps moves words and changes none, and that
  the level is what a readout has to be cut at.
- `ScriptPacketsAreFrames`, in the default mode (`args.readout = 0`), with the hypothesis of
  `ScriptFlushesOldData` and a largest length (`MaxPacket`) that takes the length byte of a frame for one
  and a fill word (255) for none. It is about what `main.py` decodes, the chunks of the file: in a
  chunk that begins with a frame, the frames before which none is torn by fill words are
  packets, and without a torn frame the packets are these frames and nothing else, the last perhaps cut by
  the end of the chunk. Of a chunk that begins inside a frame nothing is said: `MainScript_rows`
  shows that its packets are no frames. Fill words get between the words of a frame when the level
  tears; what the decoder makes of the rest of the chunk then is left open.
  It rests on the two invariants before: what is in the file, its pads aside, is
  `FrameWord(1)`, `FrameWord(2)`, ... `list_hits` is a recursive function of the rest of the file. Its
  value at a place depends on later places only, so that it is shown to exist, and to be what is claimed,
  from the end of the file backwards.
- `ScriptConfiguresLastLane`, when no lane is said to have more chips than are connected to it (`ChipsConnected`; without them no chip is there to hold a
  configuration): the chips of the last lane run what their file and the arguments asked for. `ChipInv`
  says why it is the last: the loops before leave their variable `lane` there, chip select stays on for
  that lane alone while the loop over the configurations sends to every lane, and a frame has arrived
  when its last byte is shifted out under chip select. What is sent later are idle bytes, which change no
  chip. The lemmas `RowSwitched` to `AnalogSwitched` say what each setter does to a word of a
  configuration, so that what is in memory is related to the file, the injection and the analog argument.

Only model-checked: `NotStuck` of the switch, which is not a property of the switch for every
environment, nor of the lane readout: `switch_served` shows the loads it holds under, `AxisSwitch_stuck` that two lanes
and a frame FIFO that fills up are not among them; the refinement of `BoardState` by `DriverCalls`;
and all liveness, which is out of the prover's reach.
`ReadAnswered` of `RfgProtocol`, `CallReturns` of `RfgHost` and `LoopEnds` of `MainScript` are of this
kind: the proofs show that no answer goes wrong and nothing is lost, the runs that each ends.

## Findings

Violation runs and the configurations listed with them show where the code departs
from a comment, a doc string or its own interface. For the runs `PROJECT.json`
quotes the lines.

- *Switch.* A request right after a grant takes over the transmission and mixes
  frames (`FramesContiguous`); the target of the previous grant survives
  (`ToTarget`); a transmission can be left without a target, with frames of one word or when two
  lanes run into a full frame FIFO, and nothing but a reset ends that (`NotStuck`).
- *Frame decoder.* A byte accepted in a state that does not look at it is lost
  (`PayloadInOrder`); the idle strobe stays set (`IdleCounted`); the counter that
  ends the readout counts cycles (`NodataCountsBytes`).
- *FIFO level.* It leaves out a word under way (`CountSettles`).
- *Register decoder.* If a host link took words on consecutive edges, a read could send a word
  twice or end early (`AnswerInOrder`; the UART does not); commands sent before the answer came are dropped
  (`NoByteDropped`); two hosts mix (`OneHostPerCommand`).
- *Register driver.* A failed write is forgotten (`WritesAreKept`); a cancelled read
  answers the next one, and so may what is left of a command a failed write cut off
  (`AnswerIsOwnAlways`); repeated writes of a wide register run into
  the next registers (`WriteLeavesOthers`).
- *Readout script.* The chips of all lanes but the last named are never configured
  (`LanesConfigured`). In the default mode the level can tear and more words be read than
  there are (`OnlyWhatIsThere`); a flush leaves what waits behind the FIFO and is more than it
  reads beyond its depth (`OldDataFlushed`; the flush of 4098 words is 3074 more than the FIFO of 1024
  holds, so this takes very full lanes); the decoder returns from inside its loop, so one
  hit of a chunk becomes a row (`EveryHitDecoded`); and what lies across the
  boundary of two chunks is decoded as two pieces (`ChunksAreFrames`).
- *Housekeeping.* Scripts never empty the FIFOs. After a few kills the FIFO of commands is so
  full that the tries of `hk_loop` are not enough to get back in step (`CodesAreChannels`
  under `Housekeeping_killed`).

Met on the way, modelled as the code has it, and not the subject of a run: without `-y`
an injection or a configuration ends in `KeyError`, without `-c` in the `ValueError` of an
empty `max`; with `-na` a lane that pauses can lose bytes of a chunk, which is four times its FIFO;
in an injection run `main.py:293` calls the decoder with arguments it does not
take; with `-na` and a full readout FIFO `writeSPI` raises and the lanes stay enabled;
`enable_ampout_col` does not turn off other columns; `layer_3_spi_csn` has no assignment
in the top level.

What holds as well: the switch never loses, repeats or reorders a source's
words; the decoder never sends a malformed frame; the driver used by one script,
to the end of each call, cannot be told from atomic registers, and the board driver on
top of it not from independent settings; the readout script keeps every word it reads
from the buffer and leaves all lanes held, even after Ctrl+C.

## Not modelled

- Vendor IP (FIFOs, UART core, PLLs) except for the behaviour the code relies on;
  clock-domain crossing below the level of late views; the top level's wiring.
- The SPI master, the UART driver of the firmware, the SPI host link and the framing of
  its answers; the composition of lane, switch and readout FIFO, with what a lane reset
  inside a frame does to the switch; a lane disabled in the middle of a frame.
- The reset of one side of `fifo_axis_common` only.
- The pulse train of the injection pattern generator, and the counters and interrupts of
  the register file.
- The FTDI link; the earlier three-lane top level and the AMD UART driver, which are
  not part of this firmware; test benches; plotting, YAML and logging.
- `fwTest.py`, `scripts/astep` and `benchtest.py`: they call driver functions that this
  revision no longer has and stop there. `get_hk_row`, `disable_pixel` and
  `writeConfigSPI`: nothing that runs calls them.
- Two tasks of one event loop that share a driver, and reads of more than 65535 bytes: no
  script does either.

The components concerned have status `partly` or `not_modelled` in `PROJECT.json`, each with
its reason, and hazards without a property have a note.

## Plan

What is left, in order:

1. Lane readout: the SPI master, then decoder, FIFOs and switch composed, with
   the lane reset inside a frame; abstract specification: frames in, whole frames
   out. The proofs of its parts are there.
2. UART driver and SPI host link; the framing of answers; the reset of one side of a FIFO.
3. The pattern generator's pulse train against a reference definition.
4. Proofs: the refinement of `BoardState` by `DriverCalls`.
