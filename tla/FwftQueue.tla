---------------------------- MODULE FwftQueue ----------------------------
(***************************************************************************)
(* What rtl/fifo/mini_fwft_fifo.sv promises to the modules that use it: a  *)
(* bounded queue whose head is already on data_out ("first word fall       *)
(* through"), with registered status flags that are exact in every cycle.  *)
(*                                                                         *)
(* One step is one rising edge of clk, which uses the inputs as they are   *)
(* before it; the user then presents others.  A write to a full queue and  *)
(* a read of an empty one are ignored; a read and a write of the same edge *)
(* are decided by the flags before the edge.                               *)
(***************************************************************************)
EXTENDS Naturals, Sequences

CONSTANTS Depth,      \* 2**AWIDTH words
          Word        \* the set of words the queue carries

VARIABLES queue,                                     \* the words held
          write, read, data_in,                      \* inputs
          full, almost_full, empty, almost_empty,    \* status flags
          data_out,                                  \* the exposed head
          rd_data_count                              \* fill level

vars == <<queue, write, read, data_in, full, almost_full, empty,
          almost_empty, data_out, rd_data_count>>

-----------------------------------------------------------------------------

(* The outputs are functions of the queue; data_out is unspecified when    *)
(* the queue is empty.                                                     *)
OutputsMatch ==
    /\ rd_data_count = Len(queue)
    /\ full = (Len(queue) = Depth)
    /\ almost_full = (Len(queue) >= Depth - 1)
    /\ empty = (queue = <<>>)
    /\ almost_empty = (Len(queue) <= 1)
    /\ queue # <<>> => data_out = Head(queue)

Init ==
    /\ queue = <<>>
    /\ OutputsMatch

Pushes == write /\ Len(queue) < Depth
Pops   == read /\ queue # <<>>

Idle    == ~Pops /\ ~Pushes /\ queue' = queue
Push    == ~Pops /\  Pushes /\ queue' = Append(queue, data_in)
Pop     ==  Pops /\ ~Pushes /\ queue' = Tail(queue)
PopPush ==  Pops /\  Pushes /\ queue' = Append(Tail(queue), data_in)

Reset == queue' = <<>>

Next ==
    /\ Idle \/ Push \/ Pop \/ PopPush \/ Reset
    /\ OutputsMatch'

Spec == Init /\ [][Next]_vars

=============================================================================
