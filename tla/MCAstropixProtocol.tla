------------------------ MODULE MCAstropixProtocol ------------------------
(***************************************************************************)
(* AstropixProtocol with a clock that never stops and an SPI link that     *)
(* goes on delivering bytes as long as the readout is active.              *)
(***************************************************************************)
EXTENDS AstropixProtocol

VARIABLE clk

Tick    == Next /\ clk' = ~clk
Arrival == AnyEdge /\ Arrive /\ clk' = ~clk

ClockedInit == Init /\ clk = FALSE

ClockedSpec ==
    /\ ClockedInit
    /\ [][Tick]_<<vars, clk>>
    /\ WF_<<vars, clk>>(Tick)
    /\ WF_<<vars, clk>>(Arrival)

=============================================================================
