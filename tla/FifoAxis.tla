----------------------------- MODULE FifoAxis -----------------------------
(***************************************************************************)
(* rtl/fifo/fifo_axis_common.sv: an AXI-Stream FIFO made of a vendor FIFO, *)
(* whose data comes one cycle after its read strobe, and a four-word       *)
(* FwftFifo on the read side that hides this latency.                      *)
(*                                                                         *)
(* A word on its way out is, in turn, in the vendor FIFO (store), on its   *)
(* output register (rd_data, with fifo_read_data_valid one cycle behind    *)
(* the strobe fifo_read) and in the cache.  With DUAL_CLOCK the two sides  *)
(* have their own edges, and each learns of the other's progress late.     *)
(***************************************************************************)
EXTENDS Naturals, Sequences

CONSTANTS Word,        \* the set of words (data, id, dest, user and last)
          Capacity,    \* words in the vendor FIFO
          DUAL_CLOCK   \* whether the sides have separate clocks

ASSUME FifoAxisAssumption ==
    /\ Capacity \in Nat /\ Capacity >= 2
    /\ DUAL_CLOCK \in BOOLEAN

Cache == INSTANCE FwftFifo WITH Depth <- 4

VARIABLES
    store,                 \* words in the vendor FIFO
    unseen,                \* of these, how many the read side cannot see yet
    unreturned,            \* words read that still count as stored for writes
    rd_data,               \* the vendor FIFO's output register
    fifo_read,             \* its read strobe
    fifo_read_data_valid,
    cache,
    axis_rd_data_count

vars == <<store, unseen, unreturned, rd_data, fifo_read,
          fifo_read_data_valid, cache, axis_rd_data_count>>

-----------------------------------------------------------------------------
(* The vendor FIFO's flags, each as seen on its side.                      *)

full == Len(store) + unreturned = Capacity
Visible == Len(store) - unseen
empty == Visible = 0
almost_empty == Visible <= 1

s_axis_tready == ~full
m_axis_tvalid == ~cache.flags.empty
m_axis_tdata == cache.data_out

Fetching == fifo_read /\ ~empty

(* Mutated form of Written: wr_en is not masked by full.                   *)
WrittenUnready(tvalid, d) == IF tvalid THEN <<d>> ELSE <<>>

(* The words that one edge of the write side adds.                         *)
Written(tvalid, d) == IF tvalid /\ s_axis_tready THEN <<d>> ELSE <<>>

-----------------------------------------------------------------------------

(* Mutated forms of ReadNext: the strobe also follows the last word; the   *)
(* last word is never read.                                                *)
ReadNextPastLast(tready) ==
    /\ ~empty
    /\ ~(cache.flags.almost_full /\ ~tready)

ReadNextNotLast(tready) ==
    /\ ~empty
    /\ ~almost_empty
    /\ ~(cache.flags.almost_full /\ ~tready)

(* Whether the next word is read from the vendor FIFO.                     *)
ReadNext(tready) ==
    /\ ~empty
    /\ ~(fifo_read /\ almost_empty)
    /\ ~(cache.flags.almost_full /\ ~tready)

(* Mutated form of Counted: a word being read counts twice.                *)
CountedTwice ==
    Visible + cache.rd_data_count + (IF fifo_read THEN 1 ELSE 0)

(* The fill level reported to the reader: the words in the vendor FIFO and *)
(* in the cache, but not the one on rd_data.                               *)
Counted == Visible + cache.rd_data_count

(* The read side of one edge, but for the words in the vendor FIFO.        *)
ReadSide(tready) ==
    /\ rd_data' = IF Fetching THEN Head(store) ELSE rd_data
    /\ fifo_read_data_valid' =
          IF cache.flags.full THEN fifo_read_data_valid ELSE fifo_read
    /\ fifo_read' = ReadNext(tready)
    /\ cache' = Cache!Clock(cache, fifo_read_data_valid, tready, rd_data)
    /\ axis_rd_data_count' = Counted

Remaining == IF Fetching THEN Tail(store) ELSE store

(* One edge of the common clock.                                           *)
Edge(tvalid, d, tready) ==
    /\ ~DUAL_CLOCK
    /\ store' = Remaining \o Written(tvalid, d)
    /\ ReadSide(tready)
    /\ UNCHANGED <<unseen, unreturned>>

(* An edge of one of two clocks.  The side sees the other side's pointer   *)
(* as it was some time before.                                             *)
WriteEdge(tvalid, d) ==
    /\ DUAL_CLOCK
    /\ store' = store \o Written(tvalid, d)
    /\ unseen' = unseen + Len(Written(tvalid, d))
    /\ unreturned' \in 0 .. unreturned
    /\ UNCHANGED <<rd_data, fifo_read, fifo_read_data_valid, cache,
                   axis_rd_data_count>>

ReadEdge(tready) ==
    /\ DUAL_CLOCK
    /\ store' = Remaining
    /\ unseen' \in 0 .. unseen
    /\ unreturned' = unreturned + Len(store) - Len(Remaining)
    /\ ReadSide(tready)

(* A reset of both sides.                                                  *)
Reset ==
    /\ store' = <<>>
    /\ unseen' = 0
    /\ unreturned' = 0
    /\ fifo_read' = FALSE
    /\ fifo_read_data_valid' = FALSE
    /\ cache' = Cache!ResetFifo(cache)
    /\ axis_rd_data_count' = Counted
    /\ UNCHANGED rd_data

Init ==
    /\ store = <<>>
    /\ unseen = 0
    /\ unreturned = 0
    /\ rd_data \in Word
    /\ fifo_read = FALSE
    /\ fifo_read_data_valid = FALSE
    /\ cache \in {Cache!FreshFifo([s \in Cache!Slot |-> d], d) : d \in Word}
    /\ axis_rd_data_count = 0

CommonEdge == \E tvalid, tready \in BOOLEAN, d \in Word : Edge(tvalid, d, tready)

Next ==
    \/ CommonEdge
    \/ \E tvalid \in BOOLEAN, d \in Word : WriteEdge(tvalid, d)
    \/ \E tready \in BOOLEAN : ReadEdge(tready)
    \/ Reset

Spec == Init /\ [][Next]_vars

-----------------------------------------------------------------------------

(* The registers keep their types and the two views of the fill level stay *)
(* within the vendor FIFO's capacity.                                      *)
TypeOK ==
    /\ store \in Seq(Word)
    /\ unseen \in 0 .. Len(store)
    /\ unreturned \in 0 .. Capacity - Len(store)
    /\ rd_data \in Word
    /\ fifo_read \in BOOLEAN
    /\ fifo_read_data_valid \in BOOLEAN
    /\ cache \in Cache!FifoState
    /\ axis_rd_data_count \in 0 .. Capacity + 4

(* The words accepted and not yet delivered, oldest first.                 *)
Accepted ==
    Cache!Contents(cache)
        \o (IF fifo_read_data_valid THEN <<rd_data>> ELSE <<>>)
        \o store

Stream == INSTANCE AxisStream WITH
             queue <- Accepted, tvalid <- m_axis_tvalid, tdata <- m_axis_tdata

(* Whatever the reader's pauses, no word is lost, duplicated or reordered  *)
(* between the strobe, the output register and the cache, although a word  *)
(* may be under way when the cache fills (fifo_axis_common.sv:271-279).     *)
ImplementsStream == Stream!Spec

(* The read strobe is set only when there is a word to read and the cache  *)
(* is not full, the two facts the data path relies on: a strobe on an      *)
(* empty FIFO would repeat the last word, one behind a full cache would    *)
(* overwrite the word that waits on rd_data.                               *)
StrobeSafe == fifo_read => ~empty /\ ~cache.flags.full

(* A fill level that is newly reported never exceeds the words that were   *)
(* there before the edge: a reader that asks for this many gets real ones. *)
CountNeverOver ==
    [][axis_rd_data_count' # axis_rd_data_count
          => axis_rd_data_count' <= Len(Accepted)]_vars

(* When an edge moves no word, the reported level is the number of words   *)
(* in the FIFO.  The code does not keep this: see FifoAxis_count.cfg.      *)
CountSettles ==
    [][UNCHANGED <<store, rd_data, fifo_read, fifo_read_data_valid, cache>>
          => axis_rd_data_count' = Len(Accepted)]_vars

(* A word in the FIFO is offered to the reader after some edges, however   *)
(* the strobe logic hesitates over the last word.                          *)
Offered == Accepted # <<>> ~> (m_axis_tvalid \/ Accepted = <<>>)

=============================================================================
