----------------------------- MODULE MCRfgHost -----------------------------
(***************************************************************************)
(* Instances of RfgHost: the control byte of a lane, a register of two     *)
(* bytes with another behind it, the FIFO to a lane and the readout FIFO.  *)
(***************************************************************************)
EXTENDS RfgHost

Byte(a) == [address |-> a, width |-> 1, increment |-> FALSE, fifo |-> FALSE,
            readonly |-> FALSE]
Word(a) == [Byte(a) EXCEPT !.width = 2, !.increment = TRUE]
ToLane  == [Byte(50) EXCEPT !.fifo = TRUE]
Readout == [Byte(60) EXCEPT !.fifo = TRUE, !.readonly = TRUE]

MCAddress  == {40, 41, 42, 50, 60}
MCRegister == {Word(40), Byte(42), ToLane, Readout}

=============================================================================
