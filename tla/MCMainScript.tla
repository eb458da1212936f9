---------------------------- MODULE MCMainScript ----------------------------
(***************************************************************************)
(* Command lines for MainScript.                                           *)
(***************************************************************************)
EXTENDS MainScript, TLC

(* A file with one chip that has a pixel on, and one with two chips.       *)
OnePixel == [Blank EXCEPT !.recconfig[1] = @ \ {Comparator(0)}]

One == [length |-> 1, config |-> (0 :> OnePixel)]
Two == [length |-> 2, config |-> (0 :> Blank) @@ (1 :> OnePixel)]
Short == [length |-> 2, config |-> (0 :> Blank)]

Plain == [lanes |-> <<1>>, chipsPerLane |-> <<1>>, yaml |-> <<One>>, inject |-> <<>>,
          vinj |-> "default", analog |-> <<>>, noAutoread |-> FALSE, readout |-> 0,
          timed |-> TRUE]

TwoLanes == [Plain EXCEPT !.lanes = <<1, 0>>, !.chipsPerLane = <<1, 2>>, !.yaml = <<One, Two>>]

Injecting == [TwoLanes EXCEPT !.inject = <<0, 1, 0, 1>>, !.vinj = "asked", !.timed = FALSE,
                              !.analog = <<0, 0, 1>>]

(* Arguments the script stumbles over, or that make it take other ways.    *)
Odd == {[Plain EXCEPT !.inject = <<1, 3, 0, 0>>],
        [Plain EXCEPT !.inject = <<1, 0, 2, 0>>],
        [Plain EXCEPT !.analog = <<0, 0, 0>>],
        [Plain EXCEPT !.yaml = <<Short>>],
        [Plain EXCEPT !.yaml = <<>>],
        [Plain EXCEPT !.chipsPerLane = <<>>, !.yaml = <<>>, !.lanes = <<>>],
        [Plain EXCEPT !.chipsPerLane = <<2>>],
        [TwoLanes EXCEPT !.lanes = <<1, 1>>]}

MCArguments == {Plain, TwoLanes, Injecting, [Plain EXCEPT !.readout = 2],
                [TwoLanes EXCEPT !.noAutoread = TRUE]} \cup Odd

MCTwoLanes == {TwoLanes}

MCPlain == {Plain}

=============================================================================
