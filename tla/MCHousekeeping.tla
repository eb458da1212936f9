--------------------------- MODULE MCHousekeeping ---------------------------
(***************************************************************************)
(* The ADCs of the board and the two channels read by a root.              *)
(***************************************************************************)
EXTENDS Housekeeping

MCRootTaken == {<<3, 3>>, <<3, 4>>}
MCScripts   == {"hk_loop", "tripple"}

=============================================================================
