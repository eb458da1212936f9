--------------------------- MODULE RegisterAccess ---------------------------
(***************************************************************************)
(* What the register functions of the host software promise the scripts    *)
(* (write_<register>, read_<register> of the generated driver): a write    *)
(* takes effect where it is called, a read returns what the registers hold *)
(* then, and a readout word is returned once.  Buffering, the serial port  *)
(* and the firmware's decoder are not to be seen.                          *)
(***************************************************************************)
EXTENDS RegisterMap

VARIABLES registers,   \* per address, what was written: all of it for a
                       \* FIFO, the last byte for a register
          taken,       \* readout words returned, modulo FifoWords
          reply        \* what the last read returned

vars == <<registers, taken, reply>>

Write(r, v) ==
    /\ ~r.readonly
    /\ registers' = Put(registers, r.address, r.increment, BytesOf(v, r.width))
    /\ UNCHANGED <<taken, reply>>

Read(r, n) ==
    /\ Readable(r)
    /\ reply' = <<r, Bytes(registers, taken, r.address, r.increment, n)>>
    /\ taken' = IF r.fifo THEN (taken + n) % FifoWords ELSE taken
    /\ UNCHANGED registers

Init ==
    /\ registers = Fresh
    /\ taken = 0
    /\ reply = <<>>

Next ==
    \/ \E r \in Register, v \in Value : Write(r, v)
    \/ \E r \in Register : \E n \in Counts(r) : Read(r, n)

Spec == Init /\ [][Next]_vars

=============================================================================
