--------------------------- MODULE MCRfgProtocol ---------------------------
(***************************************************************************)
(* Instances of RfgProtocol: commands on byte registers, one of them       *)
(* behind a two-byte address, and on the FIFO register; and a clock that   *)
(* never stops, with hosts that send what they began and a switch that     *)
(* forwards what it holds.                                                 *)
(***************************************************************************)
EXTENDS RfgProtocol

Cmd(w, i, a, n) == [write |-> w, increment |-> i, address |-> a, length |-> n]

MCFifoAddress == 544

MCCommands ==
    {Cmd(TRUE, TRUE, 255, 2), Cmd(TRUE, FALSE, 3, 2), Cmd(FALSE, TRUE, 4, 2),
     Cmd(FALSE, FALSE, MCFifoAddress, 30)}

MCLong  == {Cmd(FALSE, FALSE, MCFifoAddress, 30)}
MCShort == {Cmd(FALSE, TRUE, 4, 3), Cmd(TRUE, FALSE, 300, 1), Cmd(FALSE, FALSE, 5, 1)}

VARIABLE clk

Tick     == (\E drains \in BOOLEAN : Running(drains)) /\ clk' = ~clk
Asking   == (\E h \in Host, c \in Command : Ask(h, c)) /\ UNCHANGED clk
Sending  == (\E drains \in BOOLEAN, h \in Host, tready \in BOOLEAN :
                Send(h, tready, drains)) /\ clk' = ~clk
Draining == MayDrain /\ Running(TRUE) /\ clk' = ~clk

ClockedInit == Init /\ clk = FALSE

ClockedSpec ==
    /\ ClockedInit
    /\ [][Tick \/ Asking]_<<vars, clk>>
    /\ WF_<<vars, clk>>(Tick)
    /\ WF_<<vars, clk>>(Sending)
    /\ WF_<<vars, clk>>(Draining)

=============================================================================
