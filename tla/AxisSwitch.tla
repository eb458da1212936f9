---------------------------- MODULE AxisSwitch ----------------------------
(***************************************************************************)
(* rtl/axis_switch/axis_switch.sv with its round_robin_arbiter.sv: PORTS   *)
(* AXI-Stream sources, each behind a four-word FwftFifo, share PORTS       *)
(* sinks.  A registered one-hot grant starts a transmission; tlast of the  *)
(* word shown to the sink ends it.                                         *)
(*                                                                         *)
(* One step is one rising edge of clk with every register updated at once. *)
(* The environment chooses, cycle by cycle, which sources offer a word     *)
(* (s_axis_tvalid) and which sinks accept one (m_axis_tready).  A source   *)
(* sends frames: FrameLen words, tlast on the last one.                    *)
(***************************************************************************)
EXTENDS Naturals, FiniteSets

CONSTANTS PORTS,           \* number of ports
          FrameLen,        \* words per frame of each source
          TargetsOf,       \* the sinks each source sends frames to
          SourceMayPause,  \* tvalid may drop inside a frame
          SinkMayStall     \* tready may drop

Port == 0 .. PORTS - 1

ASSUME PortsAssumption ==
    /\ PORTS \in Nat /\ PORTS >= 2
    /\ FrameLen \in [Port -> Nat \ {0}]
    /\ TargetsOf \in [Port -> SUBSET Port]
    /\ SourceMayPause \in BOOLEAN
    /\ SinkMayStall \in BOOLEAN

Source == {s \in Port : TargetsOf[s] # {}}
Sink   == UNION {TargetsOf[s] : s \in Port}

(* A word in an input FIFO: the AXI fields the switch looks at (tdest and  *)
(* tlast) and its position in the frame, which stands for tdata.  Blank is *)
(* what the storage of a configured FPGA holds before the first write.     *)
Word == [index : Nat, tdest : Port, tlast : BOOLEAN]
Blank == [index |-> 0, tdest |-> 0, tlast |-> FALSE]

Fifo == INSTANCE FwftFifo WITH Depth <- 4

VARIABLES
    input_fifo,      \* per source
    rotate_ptr,      \* arbiter: the ports of the current round
    grant,           \* arbiter: registered one-hot grant, as a set
    transmitting,
    source_port,
    valid_source,    \* target_port_source_slave[m][TID_WIDTH]
    source_slave,    \* target_port_source_slave[m][TID_WIDTH-1:0]
    current_target_master,
    sending,         \* environment: the word each source offers next
    taken,           \* what the sinks accepted at the last edge
    expected,        \* history: position due next from each source
    open             \* history: per sink, sources with an unfinished frame

vars == <<input_fifo, rotate_ptr, grant, transmitting, source_port,
          valid_source, source_slave, current_target_master, sending,
          taken, expected, open>>

-----------------------------------------------------------------------------
(* The outputs, which are combinational.                                   *)

Shown(s) == input_fifo[s].data_out
Pending(s) == ~input_fifo[s].flags.empty

SlaveSelected(s) == transmitting /\ source_port = s
MasterSelected(m) == transmitting /\ valid_source[m]

m_axis_tvalid(m) == MasterSelected(m) /\ Pending(source_port)
m_axis_tlast(m) == MasterSelected(m) /\ Shown(source_port).tlast

s_axis_tready(s) == ~input_fifo[s].flags.almost_full

(* tlast is taken from the selected FIFO's output register, whether or not *)
(* that FIFO holds a word and whether or not the sink is ready.            *)
last_data == transmitting /\ \E m \in Port : m_axis_tlast(m)

Enable == ~transmitting \/ last_data

-----------------------------------------------------------------------------
(* round_robin_arbiter.sv                                                  *)

First(S) == {i \in S : \A j \in S : i <= j}

(* Who requests a grant: a source with a word for a ready sink that is not *)
(* transmitting already.                                                   *)
Requests(ready) ==
    {s \in Source : /\ Pending(s)
                    /\ ~SlaveSelected(s)
                    /\ Shown(s).tdest \in ready}

(* Mutated form of GrantComb: the masked requests are not prioritised.     *)
GrantCombUnprioritised(req) ==
    IF req \cap rotate_ptr # {} THEN req \cap rotate_ptr ELSE First(req)

GrantComb(req) ==
    IF req \cap rotate_ptr # {} THEN First(req \cap rotate_ptr) ELSE First(req)

(* Mutated form of NextRotatePtr: the pointer never moves.                 *)
NextRotatePtrFixed == rotate_ptr

(* The ports after the granted one, or all after the last.                 *)
NextRotatePtr ==
    IF grant # {} /\ Enable
    THEN {i \in Port : PORTS - 1 \in grant \/ \E j \in grant : j < i}
    ELSE rotate_ptr

Arbitrate(req) ==
    /\ grant' = IF Enable THEN GrantComb(req) \ grant ELSE grant
    /\ rotate_ptr' = NextRotatePtr

(* one_hot_to_binary: zero when no bit is set.                             *)
GrantBinary == IF grant = {} THEN 0 ELSE CHOOSE i \in grant : TRUE

-----------------------------------------------------------------------------

(* Mutated form of Transmit: tlast does not end the transmission.          *)
TransmitForever(req) ==
    IF req # {} /\ grant # {}
    THEN /\ transmitting' = TRUE
         /\ source_port' = GrantBinary
    ELSE UNCHANGED <<transmitting, source_port>>

(* A grant starts a transmission, also while another one is running, as    *)
(* long as anyone requests; otherwise the last word ends it.               *)
Transmit(req) ==
    IF req # {} /\ grant # {}
    THEN /\ transmitting' = TRUE
         /\ source_port' = GrantBinary
    ELSE /\ transmitting' = (transmitting /\ ~last_data)
         /\ UNCHANGED source_port

(* The target table is written by a loop over the ports whose later        *)
(* assignments win: the entry of a granted source is set; the entry of a   *)
(* source that ends its transmission is cleared.                           *)
Route ==
    LET g       == GrantBinary
        granted == grant # {}
        target  == IF granted THEN Shown(g).tdest ELSE 0
        ends    == last_data /\ ~(granted /\ g = source_port)
        cleared(m) == ends /\ m = current_target_master
    IN /\ valid_source' =
             [m \in Port |->
                 IF granted /\ m = target /\ ~(cleared(m) /\ source_port > g)
                 THEN TRUE
                 ELSE valid_source[m] /\ ~cleared(m)]
       /\ source_slave' =
             IF granted THEN [source_slave EXCEPT ![target] = g]
                        ELSE source_slave
       /\ current_target_master' =
             IF granted THEN target ELSE current_target_master

(* Mutated form of Popped: the FIFO is read although the sink stalls.      *)
PoppedUnready(s, ready) ==
    /\ SlaveSelected(s)
    /\ m_axis_tvalid(current_target_master)

(* The read strobe of the input FIFO of s.                                 *)
Popped(s, ready) ==
    /\ SlaveSelected(s)
    /\ current_target_master \in ready
    /\ m_axis_tvalid(current_target_master)

InputFifos(offer, ready) ==
    input_fifo' =
        [s \in Source |->
            Fifo!Clock(input_fifo[s], s \in offer /\ s_axis_tready(s),
                       Popped(s, ready), sending[s])]

-----------------------------------------------------------------------------
(* The environment: what the sources offer next and what the sinks saw.    *)

WordAt(s, i, m) == [index |-> i, tdest |-> m, tlast |-> (i = FrameLen[s])]

FirstWords ==
    {[s \in Source |-> WordAt(s, 1, t[s])] :
        t \in {u \in [Source -> Sink] : \A s \in Source : u[s] \in TargetsOf[s]}}

(* The word after w; t is the sink of the next frame.                      *)
After(s, w, t) ==
    IF w.tlast THEN WordAt(s, 1, t) ELSE WordAt(s, w.index + 1, w.tdest)

Send(offer) ==
    /\ \A s \in Source \ offer : SourceMayPause \/ sending[s].index = 1
    /\ \E t \in [Source -> Sink] :
          /\ \A s \in Source : t[s] \in TargetsOf[s]
          /\ sending' = [s \in Source |->
                            IF s \in offer /\ s_axis_tready(s)
                            THEN After(s, sending[s], t[s]) ELSE sending[s]]

(* The words the sinks accept at this edge.                                *)
Accept(ready) ==
    /\ SinkMayStall \/ ready = Sink
    /\ taken' = {[sink |-> m, tid |-> source_slave[m],
                from |-> source_port, word |-> Shown(source_port)] :
                    m \in {k \in ready : m_axis_tvalid(k)}}
    /\ expected' = [s \in Source |->
                       IF \E t \in taken' : t.from = s
                       THEN IF Shown(s).tlast THEN 1 ELSE Shown(s).index + 1
                       ELSE expected[s]]
    /\ open' = [m \in Port |->
                   (open[m] \cup {t.from : t \in {u \in taken' : u.sink = m}})
                   \ {t.from : t \in {u \in taken' : u.sink = m /\ u.word.tlast}}]

-----------------------------------------------------------------------------

Init ==
    /\ input_fifo = [s \in Source |->
                        Fifo!FreshFifo([k \in Fifo!Slot |-> Blank], Blank)]
    /\ rotate_ptr = Port
    /\ grant = {}
    /\ transmitting = FALSE
    /\ source_port = 0
    /\ valid_source = [m \in Port |-> FALSE]
    /\ source_slave = [m \in Port |-> 0]
    /\ current_target_master = 0
    /\ sending \in FirstWords
    /\ taken = {}
    /\ expected = [s \in Source |-> 1]
    /\ open = [m \in Port |-> {}]

Clock(offer, ready) ==
    /\ Send(offer)
    /\ InputFifos(offer, ready)
    /\ Arbitrate(Requests(ready))
    /\ Transmit(Requests(ready))
    /\ Route
    /\ Accept(ready)

(* An edge with resn low, which the sources share.  The storage of the     *)
(* FIFOs and current_target_master survive it.                             *)
Reset ==
    /\ input_fifo' = [s \in Source |-> Fifo!ResetFifo(input_fifo[s])]
    /\ rotate_ptr' = Port
    /\ grant' = {}
    /\ transmitting' = FALSE
    /\ source_port' = 0
    /\ valid_source' = [m \in Port |-> FALSE]
    /\ source_slave' = [m \in Port |-> 0]
    /\ sending' \in FirstWords
    /\ taken' = {}
    /\ expected' = [s \in Source |-> 1]
    /\ open' = [m \in Port |-> {}]
    /\ UNCHANGED current_target_master

Running == \E offer \in SUBSET Source, ready \in SUBSET Sink : Clock(offer, ready)

Next == Running \/ Reset

Spec == Init /\ [][Next]_vars

-----------------------------------------------------------------------------

(* The registered grant is one-hot although the arbiter keeps it while a   *)
(* transmission runs and masks it with its own previous value.             *)
GrantOneHot == Cardinality(grant) <= 1

(* Every word a source hands to the switch reaches a sink exactly once and *)
(* in the order it was sent, however often the transmission is taken over, *)
(* ended early by a stale tlast or held up by a sink that is not ready.    *)
InOrder == [][\A t \in taken' : t.word.index = expected[t.from]]_vars

(* Once a frame has begun to arrive at a sink, no word of another source   *)
(* arrives there before the word with tlast.  The code does not keep this: *)
(* see AxisSwitch_contiguous.cfg.                                          *)
FramesContiguous == [][\A t \in taken' : open[t.sink] \subseteq {t.from}]_vars

(* A word only ever arrives at the sink its tdest names.  The code keeps   *)
(* this when all sources share one target; see AxisSwitch_host.cfg for two. *)
ToTarget == \A t \in taken : t.word.tdest = t.sink

(* While a transmission runs, the selected input FIFO is connected to some *)
(* sink: otherwise its tlast is never seen and the transmission never ends.*)
NotStuck == transmitting => \E m \in Port : valid_source[m]

(* A source with a word in its FIFO gets a word through eventually.        *)
Served == \A s \in Source : Pending(s) ~> \E t \in taken : t.from = s

=============================================================================
