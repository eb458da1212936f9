---------------------------- MODULE MCFifoAxis ----------------------------
(***************************************************************************)
(* FifoAxis built with one clock or with two, which do not stop while a    *)
(* word is inside and not offered yet.  Every edge then moves the word, so *)
(* that this fairness obliges neither the writer to write nor the reader   *)
(* to read.                                                                *)
(***************************************************************************)
EXTENDS FifoAxis

TwoClocks == INSTANCE FifoAxis WITH DUAL_CLOCK <- TRUE

VARIABLE dual   \* how this FIFO is built

OneEdge == ~dual /\ CommonEdge

WriteTick ==
    dual /\ \E tvalid \in BOOLEAN, d \in Word : TwoClocks!WriteEdge(tvalid, d)

ReadTick == dual /\ \E tready \in BOOLEAN : TwoClocks!ReadEdge(tready)

Steps == (OneEdge \/ WriteTick \/ ReadTick \/ Reset) /\ UNCHANGED dual

UnderWay == Accepted # <<>> /\ ~m_axis_tvalid

BuiltInit == Init /\ dual \in BOOLEAN

(* What the write side added is seen by the read side in the end.          *)
ClockedSpec ==
    /\ BuiltInit
    /\ [][Steps]_<<vars, dual>>
    /\ WF_vars(UnderWay /\ OneEdge /\ UNCHANGED dual)
    /\ WF_vars(UnderWay /\ ReadTick /\ UNCHANGED dual)
    /\ WF_vars(UnderWay /\ ReadTick /\ unseen > 0 /\ unseen' = 0 /\ UNCHANGED dual)

=============================================================================
