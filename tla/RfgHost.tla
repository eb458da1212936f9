------------------------------ MODULE RfgHost ------------------------------
(***************************************************************************)
(* The host side of the register protocol:                                 *)
(* vendor/icflow_hdl_240807/hdl_rfg_v1/python/rfg/core.py, which collects  *)
(* writes in a command buffer and sends them with the next flush or read,  *)
(* and io/uart.py, which runs the blocking calls of the serial port in     *)
(* threads of an executor.                                                 *)
(*                                                                         *)
(* One script calls the functions of the generated driver, each to its     *)
(* end, unless Ctrl-C cancels the task it runs (sw/main.py); a thread that *)
(* serves a cancelled call goes on.  A thread hands whole commands to the  *)
(* port and takes single bytes from it.  A write that fails may leave a    *)
(* part of a command on the wire; what the firmware takes the bytes after  *)
(* it for is left open.                                                    *)
(***************************************************************************)
EXTENDS RegisterMap, SequencesExt

CONSTANTS PartLength,   \* most values of one write on the wire: 65535
          MaxCalls,     \* bound on the calls of a script
          Faults,       \* what goes wrong: a call is cancelled, a write
                        \* to the serial port raises an exception
          MaxFaults,    \* how often
          Noise,        \* bytes told apart in what a misread command writes
                        \* and answers
          MaxNoise,     \* bound on their number
          Repeats       \* a register of several bytes is written twice
                        \* without a flush in between

MostValues == 65535   \* a length of two bytes

ASSUME HostAssumption ==
    /\ PartLength \in 1 .. MostValues
    /\ \A r \in Register : r.increment => r.width <= PartLength
    /\ {MaxCalls, MaxFaults, MaxNoise} \subseteq Nat
    /\ Noise \subseteq 0 .. 255
    /\ Faults \subseteq {"cancel", "port"}
    /\ Repeats \in BOOLEAN

VARIABLES
    commands, currentRegister,   \* of AbstractRFG
    pc,         \* where the script's task is
    want,       \* the read it is in: <<register, count>>, or <<>>
    job,        \* the threads: job[cancels] serves the task
    cancels, calls,
    failures,   \* writes that raised an exception
    torn,       \* one of them left a part of a command on the wire
    up, down,   \* commands and answers in the serial port
    device,     \* the registers of the firmware
    sent,       \* readout words it has sent, modulo FifoWords
    reply       \* what the last read returned

script == <<pc, want, cancels, calls, reply>>
port   == <<up, down, failures, torn>>
fpga   == <<device, sent>>
vars   == <<commands, currentRegister, script, job, port, fpga>>

-----------------------------------------------------------------------------
(* Commands.                                                               *)

WriteCommand(r, bs) == [write |-> TRUE, address |-> r.address,
                        increment |-> r.increment, values |-> bs, length |-> Len(bs)]
ReadCommand(r, n)   == [write |-> FALSE, address |-> r.address,
                        increment |-> r.increment, values |-> <<>>, length |-> n]

addValues(c, bs) == [c EXCEPT !.values = @ \o bs, !.length = Len(c.values) + Len(bs)]

(* A long write is sent in parts, all to the same address.                 *)
WriteParts(c) ==
    [k \in 1 .. (Len(c.values) + PartLength - 1) \div PartLength |->
        LET offset == (k - 1) * PartLength
            remaining == Len(c.values) - offset
            length == IF remaining <= PartLength THEN remaining ELSE PartLength
        IN [c EXCEPT !.values = SubSeq(c.values, offset + 1, offset + length),
                     !.length = length]]

(* Mutated form of PartsOf: a long write is not split.                     *)
PartsUnsplit(c) == <<c>>

PartsOf(c) == IF c.write THEN WriteParts(c) ELSE <<c>>

OnTheWire(cs) == FlattenSeq([k \in DOMAIN cs |-> PartsOf(cs[k])])

-----------------------------------------------------------------------------
(* What the registers will be when everything that is buffered or under    *)
(* way has arrived.  During a flush the commands are both in the buffer    *)
(* and with the thread.                                                    *)

Do(regs, c) == IF c.write THEN Put(regs, c.address, c.increment, c.values)
                          ELSE regs

Kept    == IF pc = "writing" THEN <<>> ELSE commands
Pending == up \o job[cancels].todo \o Kept
Shown   == FoldLeft(Do, device, Pending)

(* Readout words that are on their way have not been returned.             *)
Underway == IF want # <<>> /\ want[1].fifo
            THEN Len(down) + Len(job[cancels].got) ELSE 0
Returned == (sent + FifoWords - (Underway % FifoWords)) % FifoWords

Session == INSTANCE RegisterAccess WITH registers <- Shown, taken <- Returned

-----------------------------------------------------------------------------
(* The functions of the driver.                                            *)

NoJob       == [kind |-> "none", todo |-> <<>>, left |-> 0, got |-> <<>>]
WriteJob(p) == [NoJob EXCEPT !.kind = "write", !.todo = p]

(* Mutated form of ReadJob: one byte more is awaited.                      *)
ReadJobLonger(n) == [NoJob EXCEPT !.kind = "read", !.left = n + 1]

ReadJob(n) == [NoJob EXCEPT !.kind = "read", !.left = n]

Idle == pc = "idle" /\ calls < MaxCalls

(* Mutated form of Extends: any register's command is extended.            *)
ExtendsAny(r) == commands # <<>>

(* The register whose command is in the buffer is written again.           *)
Extends(r) == currentRegister = <<r.address>> /\ commands # <<>>

addWrite(r, v) ==
    LET bs == BytesOf(v, r.width) IN
    /\ Idle
    /\ ~r.readonly
    /\ Repeats \/ ~(Extends(r) /\ r.increment)
    /\ IF Extends(r)
       THEN /\ commands' = [commands EXCEPT ![Len(commands)] = addValues(@, bs)]
            /\ UNCHANGED currentRegister
       ELSE /\ commands' = Append(commands, WriteCommand(r, bs))
            /\ currentRegister' = <<r.address>>
    /\ calls' = calls + 1
    /\ UNCHANGED <<pc, want, cancels, reply, job, port, fpga>>

(* flush turns the buffer into bytes and awaits io.writeBytes.             *)
flush ==
    /\ Idle
    /\ job' = [job EXCEPT ![cancels] = WriteJob(OnTheWire(commands))]
    /\ pc' = "writing"
    /\ want' = <<>>
    /\ calls' = calls + 1
    /\ UNCHANGED <<commands, currentRegister, cancels, reply, port, fpga>>

syncRead(r, n) ==
    /\ Idle
    /\ Readable(r)
    /\ LET added == Append(commands, ReadCommand(r, n))
       IN /\ commands' = added
          /\ job' = [job EXCEPT ![cancels] = WriteJob(OnTheWire(added))]
    /\ currentRegister' = <<r.address>>
    /\ pc' = "writing"
    /\ want' = <<r, n>>
    /\ calls' = calls + 1
    /\ UNCHANGED <<cancels, reply, port, fpga>>

(* Mutated form of resetCommands: the buffer is kept.                      *)
KeepCommands == UNCHANGED commands

resetCommands == commands' = <<>>

(* writeBytes has returned, with or without an exception.                  *)
Flushed ==
    /\ pc = "writing"
    /\ job[cancels].todo = <<>>
    /\ resetCommands
    /\ IF want = <<>>
       THEN /\ pc' = "idle"
            /\ job' = [job EXCEPT ![cancels] = NoJob]
       ELSE /\ pc' = "reading"
            /\ job' = [job EXCEPT ![cancels] = ReadJob(want[2])]
    /\ UNCHANGED <<currentRegister, want, cancels, calls, reply, port, fpga>>

ReadReturns ==
    /\ pc = "reading"
    /\ job[cancels].left = 0
    /\ reply' = <<want[1], job[cancels].got>>
    /\ pc' = "idle"
    /\ want' = <<>>
    /\ job' = [job EXCEPT ![cancels] = NoJob]
    /\ UNCHANGED <<commands, currentRegister, cancels, calls, port, fpga>>

(* The task is cancelled where it awaits a thread, which goes on.          *)
Cancel ==
    /\ pc # "idle"
    /\ "cancel" \in Faults /\ cancels + failures < MaxFaults
    /\ cancels' = cancels + 1
    /\ pc' = "idle"
    /\ want' = <<>>
    /\ UNCHANGED <<commands, currentRegister, calls, reply, job, port, fpga>>

-----------------------------------------------------------------------------
(* The threads.                                                            *)

writeBytesIO(j) ==
    /\ job[j].todo # <<>>
    /\ up' = Append(up, Head(job[j].todo))
    /\ job' = [job EXCEPT ![j].todo = Tail(@)]
    /\ UNCHANGED <<commands, currentRegister, script, failures, torn, down, fpga>>

(* The rest of the bytes is lost, from the beginning of a command or from  *)
(* somewhere inside one.                                                   *)
WriteFails(j) ==
    /\ "port" \in Faults /\ cancels + failures < MaxFaults
    /\ job[j].todo # <<>>
    /\ \/ UNCHANGED <<up, torn>>
       \/ up' = Append(up, Head(job[j].todo)) /\ torn' = TRUE
    /\ job' = [job EXCEPT ![j].todo = <<>>]
    /\ failures' = failures + 1
    /\ UNCHANGED <<commands, currentRegister, script, down, fpga>>

(* Mutated form of readBytesIO: a timeout ends the read.                   *)
ReadUntilTimeout(j) ==
    /\ job[j].kind = "read"
    /\ job' = [job EXCEPT ![j].left = 0, ![j].got = down]
    /\ down' = <<>>
    /\ UNCHANGED <<commands, currentRegister, script, failures, torn, up, fpga>>

readBytesIO(j) ==
    /\ job[j].kind = "read" /\ job[j].left > 0
    /\ down # <<>>
    /\ down' = Tail(down)
    /\ job' = [job EXCEPT ![j].left = @ - 1, ![j].got = Append(@, Head(down))]
    /\ UNCHANGED <<commands, currentRegister, script, failures, torn, up, fpga>>

(* The firmware carries out a command.                                     *)
CarryOut(c) ==
    /\ device' = Do(device, c)
    /\ down' = IF c.write THEN down
               ELSE down \o Bytes(device, sent, c.address, c.increment, c.length)
    /\ sent' = IF ~c.write /\ IsFifo(c.address) THEN (sent + c.length) % FifoWords
                                                ELSE sent

(* With a part of a command before them bytes are taken for other          *)
(* commands, or for the values of one.                                     *)
Strays == UNION {[1 .. n -> Noise] : n \in 0 .. MaxNoise}

Misread ==
    /\ \E a \in Address, increment \in BOOLEAN, bs \in Strays :
          device' = IF bs = <<>> THEN device ELSE Put(device, a, increment, bs)
    /\ \E bs \in Strays : down' = down \o bs
    /\ \E n \in 0 .. MaxNoise : sent' = (sent + n) % FifoWords

(* The firmware takes the commands in the order they arrive.               *)
Firmware ==
    /\ up # <<>>
    /\ CarryOut(Head(up)) \/ (torn /\ Misread)
    /\ up' = Tail(up)
    /\ UNCHANGED <<commands, currentRegister, script, failures, torn, job>>

-----------------------------------------------------------------------------
Jobs == 0 .. MaxFaults

Init ==
    /\ commands = <<>> /\ currentRegister = <<>>
    /\ pc = "idle" /\ want = <<>> /\ cancels = 0 /\ calls = 0
    /\ reply = <<>>
    /\ job = [j \in Jobs |-> NoJob]
    /\ up = <<>> /\ down = <<>> /\ failures = 0 /\ torn = FALSE
    /\ device = Fresh
    /\ sent = 0

Returns == Flushed \/ ReadReturns
Thread  == \E j \in Jobs : writeBytesIO(j) \/ readBytesIO(j)

Next ==
    \/ \E r \in Register, v \in Value : addWrite(r, v)
    \/ flush
    \/ \E r \in Register : \E n \in Counts(r) : syncRead(r, n)
    \/ Returns
    \/ Cancel
    \/ Thread
    \/ \E j \in Jobs : WriteFails(j)
    \/ Firmware

Spec == /\ Init /\ [][Next]_vars
        /\ WF_vars(Returns) /\ WF_vars(Thread) /\ WF_vars(Firmware)

-----------------------------------------------------------------------------

(* The control state is one of the code's, no command on the wire has more *)
(* values than its two length bytes can say, and only a call that is       *)
(* served or was cancelled has a thread.                                   *)
TypeOK ==
    /\ pc \in {"idle", "writing", "reading"}
    /\ calls \in 0 .. MaxCalls /\ {cancels, failures} \subseteq 0 .. MaxFaults
    /\ sent \in 0 .. FifoWords - 1
    /\ torn \in BOOLEAN /\ (torn => failures > 0)
    /\ \A k \in DOMAIN up : up[k].write => /\ up[k].length \in 1 .. PartLength
                                          /\ Len(up[k].values) = up[k].length
    /\ \A j \in Jobs : /\ job[j].left > 0 => job[j].kind = "read"
                       /\ j > cancels => job[j] = NoJob
    /\ pc = "idle" => job[cancels] = NoJob

Undisturbed == cancels' = 0 /\ failures' = 0

(* As long as no call was cancelled and no write has failed, the buffer,   *)
(* the threads and the port are not to be seen: every write arrives once   *)
(* and in the order of the calls, every read returns what the writes       *)
(* before it made of the registers, and no readout word is lost or         *)
(* returned twice.                                                         *)
SessionIsRegisterAccess ==
    Session!Init /\ [][Undisturbed => [Session!Next]_(Session!vars)]_vars

(* A call that waits for its answer returns, also when one before it was   *)
(* cancelled and its thread competes for the bytes, unless a command was   *)
(* lost in the port.                                                       *)
CallReturns == pc # "idle" ~> (pc = "idle" \/ failures > 0)

(* A read of a register returns what that register holds, also after       *)
(* commands were lost, unless a call was cancelled or a failed write left  *)
(* a part of a command on the wire.                                        *)
AnswerIsOwn ==
    [][ReadReturns /\ cancels = 0 /\ ~torn /\ ~want[1].fifo
         => reply'[2] = Bytes(Shown, 0, want[1].address,
                                         want[1].increment, want[2])]_vars

(* The same for every read.  The code does not keep this: see              *)
(* RfgHost_faults.cfg.                                                     *)
AnswerIsOwnAlways ==
    [][ReadReturns /\ ~want[1].fifo
         => reply'[2] = Bytes(Shown, 0, want[1].address,
                                         want[1].increment, want[2])]_vars

(* What was written is neither lost nor repeated: only a call changes what *)
(* the registers will be.                                                  *)
WritesAreKept ==
    [][Shown' # Shown => \E r \in Register, v \in Value : addWrite(r, v)]_vars

(* A write changes the bytes of its own register only.                     *)
WriteLeavesOthers ==
    [][\A r \in Register, v \in Value : addWrite(r, v) =>
         \A a \in Address \ (r.address .. r.address + r.width - 1) :
             Shown'[a] = Shown[a]]_vars

=============================================================================
