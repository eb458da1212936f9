---------------------------- MODULE RfgProtocol ----------------------------
(***************************************************************************)
(* rtl/rfg/protocol/rfg_axis_protocol.sv: decodes the command bytes the    *)
(* hosts send (header, address, length, and the values of a write), drives *)
(* the register file rtl/top/main_rfg.sv and returns the bytes of a read   *)
(* through a four-word FwftFifo and m_axis.                                *)
(*                                                                         *)
(* One step is one rising edge of aclk, or a host beginning a command.     *)
(* Both streams go through the AXIS switch: command bytes come one by one  *)
(* with the port of their host in s_axis_tid.  The answer goes into the    *)
(* switch's input FIFO, which takes a word while it holds fewer than three,*)
(* and from there, once the switch has granted it the way, at every edge a *)
(* word into the egress FIFO of the host while that is not full.           *)
(***************************************************************************)
EXTENDS Naturals, Sequences

CONSTANTS Host,         \* the ports commands come from
          Command,      \* what a host may ask for
          FifoAddress,  \* the register that is a FIFO; others are bytes
          FifoWords,    \* words of the FIFO register told apart
          PortDepth,    \* words the switch's input FIFO takes
          EgressDepth,  \* words the egress FIFO takes
          DrainGap,     \* cycles at least between two words leaving it
          Waits         \* a host awaits its answer before the next command

Byte    == 0 .. 255
Modulus == 65536  \* sixteen bits
Word16  == 0 .. Modulus - 1

ASSUME RfgAssumption ==
    /\ Command \subseteq [write : BOOLEAN, increment : BOOLEAN,
                          address : Word16, length : Word16 \ {0}]
    /\ FifoAddress \in Word16 /\ FifoWords \in 1 .. 256
    /\ {PortDepth, EgressDepth} \subseteq Nat \ {0}
    /\ DrainGap \in Nat /\ Waits \in BOOLEAN

Fifo == INSTANCE FwftFifo WITH Depth <- 4, Word <- Byte

VARIABLES
    rfp_state, rfg_header, rfg_address, rfg_length, rfg_current_length,
    rfg_master_length, s_axis_tready,
    rfg_write, rfg_write_value, rfg_write_last,
    read_buffer, read_buffer_write, read_buffer_read, read_buffer_data_in,
    m_axis_tvalid, m_axis_tdata, m_axis_tlast, m_axis_tdest,
    rfg_read_valid, rfg_read_value,  \* registers of the register file
    fifo_words,  \* words taken from the FIFO register
    port,        \* the switch's input FIFO
    grant, transmitting,
    routed,      \* the target of the transmission is known
    stale,       \* tlast of the word the empty input FIFO still shows
    egress,      \* words in the egress FIFO
    pace,        \* cycles until a word may leave it
    todo,        \* per host, the bytes of its command still to be sent
    asked,       \* history: per host, its last command
    answer,      \* history: per host, the words it received for it
    due          \* history: the register writes commanded and not yet made

write   == <<rfg_write, rfg_write_value, rfg_write_last>>
buffer  == <<read_buffer_write, read_buffer_data_in>>
lengths == <<rfg_length, rfg_current_length>>
m_axis  == <<m_axis_tvalid, m_axis_tdata, m_axis_tlast>>
decoder == <<rfp_state, rfg_header, rfg_address, lengths, rfg_master_length,
             s_axis_tready, write, read_buffer, buffer, read_buffer_read,
             m_axis, m_axis_tdest>>
rfg     == <<rfg_read_valid, rfg_read_value, fifo_words>>
switch  == <<port, grant, transmitting, routed, stale, egress, pace>>
hosts   == <<todo, asked, answer, due>>
vars    == <<decoder, rfg, switch, hosts>>

-----------------------------------------------------------------------------
(* The header byte, least significant bit first: write, read, increment,   *)
(* extended address.                                                       *)

Bit(byte, weight) == (byte \div weight) % 2 = 1
HeaderOf(byte) == [write |-> Bit(byte, 1), read |-> Bit(byte, 2),
                   increment |-> Bit(byte, 4), extended |-> Bit(byte, 8)]

Header == [write : BOOLEAN, read : BOOLEAN, increment : BOOLEAN,
           extended : BOOLEAN]

(* Sixteen bits: a length of 0 counts down from 65536.                     *)
Down(n) == (n + Modulus - 1) % Modulus
Up(n)   == (n + 1) % Modulus

write_valid(tready) == m_axis_tvalid /\ tready
write_stall(tready) == m_axis_tvalid /\ ~tready
empty == read_buffer.flags.empty
full  == read_buffer.flags.full

(* Mutated form of rfg_read: the read buffer may overflow.                 *)
ReadUnguarded == rfp_state = "RFP_READ"

rfg_read == rfp_state = "RFP_READ" /\ ~read_buffer.flags.almost_full

-----------------------------------------------------------------------------
(* The stage that moves words from the read buffer to m_axis.              *)

m_invalid == /\ m_axis_tvalid' = FALSE
             /\ m_axis_tlast' = FALSE
             /\ UNCHANGED m_axis_tdata

m_write_start == /\ m_axis_tvalid' = TRUE
                 /\ m_axis_tdata' = read_buffer.data_out
                 /\ m_axis_tlast' = (m_axis_tlast \/ rfg_master_length = 1)

Answering == rfp_state \in {"RFP_READ", "RFP_READ_FINISH"}

(* Every word that leaves the buffer is counted, shown or not.             *)
CountDown(tready) ==
    IF ~write_stall(tready) /\ ~empty THEN Down(rfg_master_length)
                                      ELSE rfg_master_length

(* With nothing in the buffer m_axis keeps the word just accepted until    *)
(* the buffer has another, except at the end.                              *)
Readback(tready) ==
    IF ~Answering
    THEN /\ read_buffer_read' = TRUE
         /\ IF rfp_state = "RFP_HEADER" THEN m_invalid ELSE UNCHANGED m_axis
    ELSE /\ read_buffer_read' = tready
         /\ rfg_master_length' = CountDown(tready)
         /\ IF empty /\ write_valid(tready) /\ rfp_state = "RFP_READ_FINISH"
            THEN m_invalid
            ELSE IF /\ ~empty
                    /\ \/ write_valid(tready)
                       \/ read_buffer_read /\ ~m_axis_tvalid
            THEN m_write_start
            ELSE UNCHANGED m_axis

ReadBuffer(tready) ==
    read_buffer' = Fifo!Clock(read_buffer, read_buffer_write,
                              ~write_stall(tready), read_buffer_data_in)

-----------------------------------------------------------------------------
(* The states of the decoder.  take says that a byte from port tid is      *)
(* accepted at this edge.                                                  *)

RfpHeader(take, byte, tid) ==
    /\ rfp_state = "RFP_HEADER"
    /\ s_axis_tready' = TRUE
    /\ rfg_write' = FALSE
    /\ rfg_write_last' = FALSE
    /\ IF take /\ (Bit(byte, 1) \/ Bit(byte, 2))
       THEN /\ rfp_state' = "RFP_ADDRESS"
            /\ rfg_header' = HeaderOf(byte)
            /\ m_axis_tdest' = tid
       ELSE UNCHANGED <<rfp_state, rfg_header, m_axis_tdest>>
    /\ UNCHANGED <<rfg_address, lengths, rfg_master_length, rfg_write_value, buffer>>

RfpAddress(take, byte) ==
    /\ rfp_state = "RFP_ADDRESS"
    /\ IF ~take THEN UNCHANGED <<rfp_state, rfg_address>>
       ELSE IF rfg_header.extended
       THEN /\ rfp_state' = "RFP_ADDRESSB"
            /\ rfg_address' = (rfg_address \div 256) * 256 + byte
       ELSE /\ rfp_state' = "RFP_LENGTHA"
            /\ rfg_address' = byte
    /\ UNCHANGED <<s_axis_tready, write, rfg_header, m_axis_tdest, lengths,
                   rfg_master_length, buffer>>

RfpAddressB(take, byte) ==
    /\ rfp_state = "RFP_ADDRESSB"
    /\ IF take
       THEN /\ rfp_state' = "RFP_LENGTHA"
            /\ rfg_address' = byte * 256 + (rfg_address % 256)
       ELSE UNCHANGED <<rfp_state, rfg_address>>
    /\ UNCHANGED <<s_axis_tready, write, rfg_header, m_axis_tdest, lengths,
                   rfg_master_length, buffer>>

RfpLengthA(take, byte) ==
    /\ rfp_state = "RFP_LENGTHA"
    /\ IF take
       THEN /\ rfp_state' = "RFP_LENGTHB"
            /\ rfg_length' = (rfg_length \div 256) * 256 + byte
       ELSE UNCHANGED <<rfp_state, rfg_length>>
    /\ UNCHANGED <<s_axis_tready, write, rfg_header, m_axis_tdest, rfg_address,
                   rfg_current_length, rfg_master_length, buffer>>

RfpLengthB(take, byte) ==
    /\ rfp_state = "RFP_LENGTHB"
    /\ IF take
       THEN LET length == byte * 256 + (rfg_length % 256)
            IN /\ rfg_length' = length
               /\ rfg_current_length' = length
               /\ rfg_master_length' = length
               /\ rfp_state' = IF rfg_header.write THEN "RFP_WRITE_VALUE"
                               ELSE IF rfg_header.read THEN "RFP_READ"
                               ELSE "RFP_HEADER"
       ELSE UNCHANGED <<rfp_state, lengths, rfg_master_length>>
    /\ UNCHANGED <<s_axis_tready, write, rfg_header, m_axis_tdest, rfg_address, buffer>>

(* Mutated form of WriteAddress: the increment bit is not looked at.       *)
WriteAddressAlways == IF rfg_write THEN Up(rfg_address) ELSE rfg_address

WriteAddress == IF rfg_write /\ rfg_header.increment THEN Up(rfg_address)
                                                     ELSE rfg_address

(* The value accepted now is written at the next edge, while the address   *)
(* moves on.                                                               *)
RfpWriteValue(take, byte) ==
    /\ rfp_state = "RFP_WRITE_VALUE"
    /\ rfg_write' = take
    /\ rfg_write_last' = (take /\ rfg_current_length = 1)
    /\ IF take
       THEN /\ rfg_write_value' = byte
            /\ IF rfg_current_length = 1
               THEN /\ rfp_state' = "RFP_HEADER"
                    /\ UNCHANGED rfg_current_length
               ELSE /\ rfg_current_length' = Down(rfg_current_length)
                    /\ UNCHANGED rfp_state
       ELSE UNCHANGED <<rfg_write_value, rfp_state, rfg_current_length>>
    /\ rfg_address' = WriteAddress
    /\ UNCHANGED <<s_axis_tready, rfg_header, m_axis_tdest, rfg_length,
                   rfg_master_length, buffer>>

(* Mutated form of LastRead: the last byte is not read.                    *)
LastReadButOne == rfg_read /\ rfg_current_length = 2

LastRead == rfg_read /\ rfg_current_length = 1

(* s_axis_tready stays set: bytes that arrive during a read are dropped.   *)
RfpRead ==
    /\ rfp_state = "RFP_READ"
    /\ rfp_state' = IF LastRead THEN "RFP_READ_FINISH" ELSE "RFP_READ"
    /\ IF rfg_read
       THEN /\ rfg_current_length' = Down(rfg_current_length)
            /\ rfg_address' = IF rfg_header.increment THEN Up(rfg_address)
                                                      ELSE rfg_address
       ELSE UNCHANGED <<rfg_current_length, rfg_address>>
    /\ IF rfg_read_valid
       THEN read_buffer_write' = TRUE /\ read_buffer_data_in' = rfg_read_value
       ELSE /\ read_buffer_write' = (read_buffer_write /\ full)
            /\ UNCHANGED read_buffer_data_in
    /\ UNCHANGED <<s_axis_tready, write, rfg_header, m_axis_tdest, rfg_length>>

RfpReadFinish(tready) ==
    /\ rfp_state = "RFP_READ_FINISH"
    /\ IF rfg_read_valid
       THEN read_buffer_write' = TRUE /\ read_buffer_data_in' = rfg_read_value
       ELSE /\ read_buffer_write' = (read_buffer_write /\ full)
            /\ UNCHANGED read_buffer_data_in
    /\ rfp_state' = IF empty /\ write_valid(tready) THEN "RFP_HEADER"
                                                    ELSE "RFP_READ_FINISH"
    /\ UNCHANGED <<s_axis_tready, write, rfg_header, m_axis_tdest, rfg_address,
                   lengths>>

Decode(take, byte, tid, tready) ==
    \/ RfpHeader(take, byte, tid)
    \/ RfpAddress(take, byte)
    \/ RfpAddressB(take, byte)
    \/ RfpLengthA(take, byte)
    \/ RfpLengthB(take, byte)
    \/ RfpWriteValue(take, byte)
    \/ RfpRead
    \/ RfpReadFinish(tready)

-----------------------------------------------------------------------------
(* The register file: a read is answered in the next cycle.  A byte        *)
(* register holds its address, the FIFO register the numbers in order.     *)
RegisterFile ==
    /\ rfg_read_valid' = rfg_read
    /\ IF rfg_read
       THEN rfg_read_value' = IF rfg_address = FifoAddress THEN fifo_words
                                                           ELSE rfg_address % 256
       ELSE UNCHANGED rfg_read_value
    /\ fifo_words' = IF rfg_read /\ rfg_address = FifoAddress
                     THEN (fifo_words + 1) % FifoWords ELSE fifo_words

(* The answer: into the switch's input FIFO and from there, while the      *)
(* switch transmits, to the host.  An input FIFO that runs empty shows an  *)
(* old word, whose tlast ends the transmission too.                        *)
Out == [value |-> m_axis_tdata, last |-> m_axis_tlast, to |-> m_axis_tdest]

Ready     == egress < EgressDepth
Request   == port # <<>> /\ ~transmitting /\ Ready
Shown     == port # <<>> /\ transmitting /\ routed
Leaves    == Shown /\ Ready
last_data == transmitting /\ routed /\ IF port = <<>> THEN stale ELSE Head(port).last

Switch(tready) ==
    /\ tready = (Len(port) < PortDepth)
    /\ LET left == IF Leaves THEN Tail(port) ELSE port
       IN port' = IF write_valid(tready) THEN Append(left, Out) ELSE left
    /\ stale' \in IF port' # <<>> THEN {FALSE} ELSE IF port = <<>> THEN {stale} ELSE BOOLEAN
    /\ grant' = IF transmitting /\ ~last_data THEN grant ELSE Request /\ ~grant
    /\ transmitting' = IF Request /\ grant THEN TRUE ELSE transmitting /\ ~last_data
    /\ routed' = (grant \/ (routed /\ ~last_data))

(* The host's link takes a word now and then.                              *)
MayDrain == egress > 0 /\ pace = 0

Egress(drains) ==
    /\ drains => MayDrain
    /\ egress' = egress + (IF Leaves THEN 1 ELSE 0) - (IF drains THEN 1 ELSE 0)
    /\ pace' = IF drains THEN DrainGap ELSE IF pace = 0 THEN 0 ELSE pace - 1

Receive ==
    answer' = IF Leaves
              THEN [answer EXCEPT ![Head(port).to] = Append(@, Head(port))]
              ELSE answer

(* One rising edge.                                                        *)
Edge(valid, byte, tid, tready, drains) ==
    /\ Readback(tready)
    /\ ReadBuffer(tready)
    /\ Decode(valid /\ s_axis_tready, byte, tid, tready)
    /\ RegisterFile
    /\ Switch(tready)
    /\ Egress(drains)
    /\ Receive
    /\ due' = IF rfg_write THEN Tail(due) ELSE due
    /\ UNCHANGED asked

-----------------------------------------------------------------------------
(* The hosts.  Values written are numbered, modulo what a byte can hold.   *)

AddressBytes(a) == IF a > 255 THEN <<a % 256, a \div 256>> ELSE <<a>>

HeaderByte(c) == (IF c.write THEN 1 ELSE 2) + (IF c.increment THEN 4 ELSE 0)
                     + (IF c.address > 255 THEN 8 ELSE 0)

BytesOf(c) ==
    <<HeaderByte(c)>> \o AddressBytes(c.address)
        \o <<c.length % 256, c.length \div 256>>
        \o (IF c.write THEN [k \in 1 .. c.length |-> k % 256] ELSE <<>>)

(* Where the k-th byte of a command goes to or comes from.                 *)
AddressAt(c, k) ==
    IF c.increment THEN (c.address + k - 1) % Modulus ELSE c.address

Writes(c) == [k \in 1 .. c.length |->
                 [address |-> AddressAt(c, k), value |-> k % 256, last |-> k = c.length]]

Unanswered(h) ==
    /\ asked[h] # <<>>
    /\ ~asked[h][1].write
    /\ Len(answer[h]) < asked[h][1].length

Ask(h, c) ==
    /\ todo[h] = <<>>
    /\ Waits => ~Unanswered(h) /\ egress = 0
    /\ todo' = [todo EXCEPT ![h] = BytesOf(c)]
    /\ asked' = [asked EXCEPT ![h] = <<c, fifo_words>>]
    /\ answer' = [answer EXCEPT ![h] = <<>>]
    /\ due' = IF c.write THEN due \o Writes(c) ELSE due
    /\ UNCHANGED <<decoder, rfg, switch>>

Send(h, tready, drains) ==
    /\ todo[h] # <<>>
    /\ Edge(TRUE, Head(todo[h]), h, tready, drains)
    /\ todo' = IF s_axis_tready THEN [todo EXCEPT ![h] = Tail(@)] ELSE todo

Silent(tready, drains) ==
    /\ Edge(FALSE, 0, 0, tready, drains)
    /\ UNCHANGED todo

Running(drains) ==
    \E tready \in BOOLEAN :
        Silent(tready, drains) \/ \E h \in Host : Send(h, tready, drains)

Init ==
    /\ rfp_state = "RFP_HEADER"
    /\ rfg_header = HeaderOf(0)
    /\ rfg_address = 0 /\ rfg_length = 0
    /\ rfg_current_length = 0 /\ rfg_master_length = 0
    /\ s_axis_tready = FALSE
    /\ rfg_write = FALSE /\ rfg_write_value = 0 /\ rfg_write_last = FALSE
    /\ read_buffer = Fifo!FreshFifo([k \in Fifo!Slot |-> 0], 0)
    /\ read_buffer_write = FALSE
    /\ read_buffer_read = FALSE
    /\ read_buffer_data_in = 0
    /\ m_axis_tvalid = FALSE /\ m_axis_tdata = 0 /\ m_axis_tlast = FALSE
    /\ m_axis_tdest = 0
    /\ rfg_read_valid = FALSE /\ rfg_read_value = 0 /\ fifo_words = 0
    /\ port = <<>>
    /\ grant = FALSE /\ transmitting = FALSE /\ routed = FALSE /\ stale = FALSE
    /\ egress = 0 /\ pace = 0
    /\ todo = [h \in Host |-> <<>>]
    /\ asked = [h \in Host |-> <<>>]
    /\ answer = [h \in Host |-> <<>>]
    /\ due = <<>>

Next ==
    \/ \E drains \in BOOLEAN : Running(drains)
    \/ \E h \in Host, c \in Command : Ask(h, c)

Spec == Init /\ [][Next]_vars

-----------------------------------------------------------------------------

(* The registers keep their widths, and the buffers are not overfilled.     *)
TypeOK ==
    /\ rfp_state \in {"RFP_HEADER", "RFP_ADDRESS", "RFP_ADDRESSB",
                      "RFP_LENGTHA", "RFP_LENGTHB", "RFP_WRITE_VALUE",
                      "RFP_READ", "RFP_READ_FINISH"}
    /\ rfg_header \in Header
    /\ {rfg_address, rfg_length, rfg_current_length, rfg_master_length}
           \subseteq Word16
    /\ {s_axis_tready, rfg_write, rfg_write_last, read_buffer_write,
        read_buffer_read, m_axis_tvalid, m_axis_tlast, rfg_read_valid}
           \subseteq BOOLEAN
    /\ {rfg_write_value, read_buffer_data_in, m_axis_tdata, rfg_read_value}
           \subseteq Byte
    /\ read_buffer.rd_data_count \in 0 .. 4
    /\ {grant, transmitting, routed, stale} \subseteq BOOLEAN
    /\ Len(port) <= PortDepth /\ egress \in 0 .. EgressDepth

(* The k-th word of the answer to command c, which was asked when `first`  *)
(* words had been taken from the FIFO register.                            *)
Answer(c, first, k) ==
    [value |-> IF AddressAt(c, k) # FifoAddress THEN AddressAt(c, k) % 256
               ELSE IF c.increment THEN first
               ELSE (first + k - 1) % FifoWords,
     last |-> k = c.length]

(* A host receives exactly the bytes it asked for, each once and in order, *)
(* with tlast on the last: none lost or repeated between register file,    *)
(* read buffer and switch, while the switch takes a word at every edge and *)
(* when it stalls because the egress FIFO is full.  Of that FIFO no two    *)
(* words may leave at consecutive edges: see RfgProtocol_burst.cfg.        *)
AnswerInOrder ==
    \A h \in Host : \A k \in DOMAIN answer[h] :
        /\ k <= asked[h][1].length
        /\ [value |-> answer[h][k].value, last |-> answer[h][k].last]
              = Answer(asked[h][1], asked[h][2], k)

(* The register file is written exactly as commanded: every value once, at *)
(* its address, with rfg_write_last on the last.                           *)
WritesAsCommanded ==
    rfg_write => /\ due # <<>>
                 /\ Head(due) = [address |-> rfg_address,
                                 value |-> rfg_write_value,
                                 last |-> rfg_write_last]

Taken(h) == Len(todo'[h]) < Len(todo[h])

(* A byte is taken only in a state that looks at it, so that a command     *)
(* that follows a read is not lost.  The code does not keep this: see      *)
(* RfgProtocol_hosts.cfg.                                                  *)
NoByteDropped == [][(\E h \in Host : Taken(h)) => ~Answering]_vars

(* A command that has begun is continued by its own host.  The code does   *)
(* not keep this: see RfgProtocol_hosts.cfg.                               *)
OneHostPerCommand ==
    [][rfp_state # "RFP_HEADER"
          => \A h \in Host : Taken(h) => h = m_axis_tdest]_vars

(* Every read that was asked is answered completely: the decoder leaves    *)
(* no word in the read buffer and does not wait for one that never comes.  *)
ReadAnswered ==
    \A h \in Host : Unanswered(h) ~> ~Unanswered(h)

=============================================================================
