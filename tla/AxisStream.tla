---------------------------- MODULE AxisStream ----------------------------
(***************************************************************************)
(* What an AXI-Stream FIFO promises: words come out in the order they went *)
(* in, each exactly once.  tvalid may lag behind the queue, but when it is *)
(* set the head is on tdata.                                               *)
(***************************************************************************)
EXTENDS Naturals, Sequences

CONSTANT Word

VARIABLES queue,    \* the words accepted and not yet delivered
          tvalid,
          tdata

vars == <<queue, tvalid, tdata>>

OutputsMatch == tvalid => queue # <<>> /\ tdata = Head(queue)

Init ==
    /\ queue = <<>>
    /\ OutputsMatch

Push(d) == queue' = Append(queue, d)

Pop ==
    /\ tvalid
    /\ queue' = Tail(queue)

PopPush(d) ==
    /\ tvalid
    /\ queue' = Append(Tail(queue), d)

Idle == queue' = queue

Reset == queue' = <<>>

Next ==
    /\ \/ Pop
       \/ Idle
       \/ Reset
       \/ \E d \in Word : Push(d) \/ PopPush(d)
    /\ OutputsMatch'

Spec == Init /\ [][Next]_vars

=============================================================================
