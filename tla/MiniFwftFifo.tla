--------------------------- MODULE MiniFwftFifo ---------------------------
(***************************************************************************)
(* One FIFO of rtl/fifo/mini_fwft_fifo.sv, driven by arbitrary write, read *)
(* and data_in inputs and by resets.  Its state is the record FwftFifo     *)
(* defines; FwftQueue is what it must implement.                           *)
(***************************************************************************)
EXTENDS FwftFifo

VARIABLES fifo,
          write, read, data_in   \* the inputs the next edge uses

vars == <<fifo, write, read, data_in>>

Init ==
    /\ fifo \in {FreshFifo(m, d) : m \in [Slot -> Word], d \in Word}
    /\ write \in BOOLEAN /\ read \in BOOLEAN /\ data_in \in Word

Edge == fifo' = Clock(fifo, write, read, data_in)

Reset == fifo' = ResetFifo(fifo)

(* The user of the FIFO presents its next inputs.                          *)
Present == write' \in BOOLEAN /\ read' \in BOOLEAN /\ data_in' \in Word

Next == (Edge \/ Reset) /\ Present

Spec == Init /\ [][Next]_vars

-----------------------------------------------------------------------------

(* The state of the FIFO and its inputs keep their types.                  *)
TypeOK ==
    /\ fifo \in FifoState
    /\ write \in BOOLEAN /\ read \in BOOLEAN /\ data_in \in Word

(* The pointers, which wrap at Depth, are rd_data_count apart: the pointer *)
(* logic and the count never drift, over any sequence of reads, writes,    *)
(* simultaneous ones and resets (fifo_ptr_logic.sv:57-65 against           *)
(* mini_fwft_fifo.sv:72-77).                                               *)
PointersMatchCount ==
    \/ fifo.write_pointer = fifo.read_pointer + fifo.rd_data_count
    \/ fifo.write_pointer = fifo.read_pointer + fifo.rd_data_count - Depth

(* The four registered flags are exact in every cycle, although each is    *)
(* set and cleared incrementally on pointer coincidences that look the     *)
(* same for a full and an empty FIFO (fifo_ptr_logic.sv:69-101).            *)
FlagsMatchCount ==
    LET n == fifo.rd_data_count
    IN /\ fifo.flags.full = (n = Depth)
       /\ fifo.flags.almost_full = (n >= Depth - 1)
       /\ fifo.flags.empty = (n = 0)
       /\ fifo.flags.almost_empty = (n <= 1)

(* The FIFO implements the first-word-fall-through queue: every word       *)
(* written while it is not full is kept, none is changed, duplicated or    *)
(* reordered by the bypass around mem, and the head is on data_out         *)
(* whenever the FIFO is not empty (mini_fwft_fifo.sv:57-68).               *)
Queue == INSTANCE FwftQueue WITH
            queue         <- Contents(fifo),
            full          <- fifo.flags.full,
            almost_full   <- fifo.flags.almost_full,
            empty         <- fifo.flags.empty,
            almost_empty  <- fifo.flags.almost_empty,
            data_out      <- fifo.data_out,
            rd_data_count <- fifo.rd_data_count

ImplementsQueue == Queue!Spec

=============================================================================
