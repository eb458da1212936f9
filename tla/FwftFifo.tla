----------------------------- MODULE FwftFifo -----------------------------
(***************************************************************************)
(* rtl/fifo/mini_fwft_fifo.sv together with its pointer logic              *)
(* rtl/fifo/fifo_ptr_logic.sv.  The operators below give the state of one  *)
(* FIFO after a clock edge as a function of its state and inputs, so that  *)
(* the modules that contain such a FIFO (FifoAxis, AxisSwitch) clock it    *)
(* together with their own registers.  MiniFwftFifo specifies one FIFO on  *)
(* its own.                                                                *)
(*                                                                         *)
(* A word stored while another one is on data_out goes to                  *)
(* mem[write_pointer - 1]; a word that arrives at an empty FIFO, or at one *)
(* whose only word leaves on the same edge, bypasses mem (write_in_to_out).*)
(***************************************************************************)
EXTENDS Naturals, Sequences

CONSTANTS Depth,      \* 2**AWIDTH words
          Word        \* the set of words (DWIDTH bits)

ASSUME DepthAssumption == Depth \in Nat /\ Depth >= 2

Slot == 0 .. Depth - 1

(* Pointer arithmetic on AWIDTH bits: it wraps at Depth.                   *)
Forward(p, k) == IF p + k >= Depth THEN p + k - Depth ELSE p + k
Back(p)       == IF p = 0 THEN Depth - 1 ELSE p - 1

Flags == [full : BOOLEAN, almost_full : BOOLEAN,
          empty : BOOLEAN, almost_empty : BOOLEAN]

FifoState == [flags         : Flags,
              write_pointer : Slot,
              read_pointer  : Slot,
              mem           : [Slot -> Word],
              data_out      : Word,
              rd_data_count : 0 .. Depth]

-----------------------------------------------------------------------------

Reading(f, read)  == read /\ ~f.flags.empty
Writing(f, write) == write /\ ~f.flags.full

(* Mutated form of NextFlags: almost_empty is cleared by every write to a  *)
(* non-empty FIFO, also by one that accompanies a read.                    *)
NextFlagsWriteClears(f, r, w) ==
    LET wp == f.write_pointer
        rp == f.read_pointer
    IN [full         |-> \/ w /\ ~r /\ Forward(wp, 1) = rp
                         \/ f.flags.full /\ ~r,
        almost_full  |-> \/ w /\ ~r /\ Forward(wp, 2) = rp
                         \/ f.flags.almost_full /\ (~r \/ w \/ f.flags.full),
        empty        |-> \/ r /\ ~w /\ Forward(rp, 1) = wp
                         \/ f.flags.empty /\ ~w,
        almost_empty |-> \/ r /\ ~w /\ Forward(rp, 2) = wp
                         \/ f.flags.almost_empty /\ (~w \/ f.flags.empty)]

(* The status flags, which are registers set and cleared on pointer        *)
(* distances, never computed from a count.                                 *)
NextFlags(f, r, w) ==
    LET wp == f.write_pointer
        rp == f.read_pointer
    IN [full         |-> \/ w /\ ~r /\ Forward(wp, 1) = rp
                         \/ f.flags.full /\ ~r,
        almost_full  |-> \/ w /\ ~r /\ Forward(wp, 2) = rp
                         \/ f.flags.almost_full /\ (~r \/ w \/ f.flags.full),
        empty        |-> \/ r /\ ~w /\ Forward(rp, 1) = wp
                         \/ f.flags.empty /\ ~w,
        almost_empty |-> \/ r /\ ~w /\ Forward(rp, 2) = wp
                         \/ f.flags.almost_empty /\ (~w \/ r \/ f.flags.empty)]

(* Mutated form of WriteInToOut: only an empty FIFO bypasses mem.          *)
WriteInToOutOfEmpty(f, r, w) == w /\ f.flags.empty

(* The incoming word goes straight to data_out.                            *)
WriteInToOut(f, r, w) ==
    \/ w /\ f.flags.empty
    \/ w /\ r /\ f.flags.almost_empty

NextMem(f, r, w, d) ==
    IF w /\ ~WriteInToOut(f, r, w)
    THEN [f.mem EXCEPT ![Back(f.write_pointer)] = d]
    ELSE f.mem

NextDataOut(f, r, w, d) ==
    IF WriteInToOut(f, r, w) THEN d
    ELSE IF r THEN f.mem[f.read_pointer]
    ELSE f.data_out

(* Mutated form of NextCount: a write counts even when a word leaves.      *)
NextCountIgnoringRead(f, r, w) ==
    IF w THEN f.rd_data_count + 1
    ELSE IF r THEN f.rd_data_count - 1
    ELSE f.rd_data_count

NextCount(f, r, w) ==
    IF w /\ ~r THEN f.rd_data_count + 1
    ELSE IF r /\ ~w THEN f.rd_data_count - 1
    ELSE f.rd_data_count

(* One clock edge: r and w say whether the FIFO reads and writes.          *)
Clocked(f, r, w, d) ==
    [flags         |-> NextFlags(f, r, w),
     write_pointer |-> IF w THEN Forward(f.write_pointer, 1)
                            ELSE f.write_pointer,
     read_pointer  |-> IF r THEN Forward(f.read_pointer, 1)
                            ELSE f.read_pointer,
     mem           |-> NextMem(f, r, w, d),
     data_out      |-> NextDataOut(f, r, w, d),
     rd_data_count |-> NextCount(f, r, w)]

(* One clock edge as a user of the FIFO sees it.                           *)
Clock(f, write, read, data_in) ==
    Clocked(f, Reading(f, read), Writing(f, write), data_in)

(* An edge with resn low clears the flags, pointers and count and leaves   *)
(* the storage as it is.                                                   *)
ResetFlags == [full |-> FALSE, almost_full |-> FALSE,
               empty |-> TRUE, almost_empty |-> TRUE]

ResetFifo(f) ==
    [f EXCEPT !.flags = ResetFlags,
              !.write_pointer = 0,
              !.read_pointer = 0,
              !.rd_data_count = 0]

(* A FIFO out of reset whose storage holds whatever m and d say: nothing   *)
(* ever initialises mem and data_out.                                      *)
FreshFifo(m, d) ==
    [flags |-> ResetFlags, write_pointer |-> 0, read_pointer |-> 0,
     mem |-> m, data_out |-> d, rd_data_count |-> 0]

(* The k-th of the words held: the head is on data_out, the others follow  *)
(* the read pointer in mem.                                                *)
Held(f, k) ==
    IF k = 1 THEN f.data_out ELSE f.mem[Forward(f.read_pointer, k - 2)]

Contents(f) == [k \in 1 .. f.rd_data_count |-> Held(f, k)]

=============================================================================
