--------------------------- MODULE MCAxisSwitch ---------------------------
(***************************************************************************)
(* Instances of AxisSwitch with three ports.  In the layer readout every   *)
(* source sends to sink 0 (the frame buffer) and nothing enters at the     *)
(* port whose source is unused; in the host link port 0 is the register    *)
(* protocol, which answers ports 1 (UART) and 2 (SPI), whose commands are  *)
(* single words with tlast set.                                            *)
(***************************************************************************)
EXTENDS AxisSwitch, TLC

MCAll(n)      == [p \in 0 .. 2 |-> n]
MCFrameLen    == MCAll(2)
MCCommandLen  == MCAll(1)
MCHostLen     == (0 :> 2) @@ (1 :> 1) @@ (2 :> 1)

MCTwoLayers   == (0 :> {})     @@ (1 :> {0}) @@ (2 :> {0})
MCHostTargets == (0 :> {1, 2}) @@ (1 :> {0}) @@ (2 :> {0})

=============================================================================
