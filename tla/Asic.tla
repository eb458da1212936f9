-------------------------------- MODULE Asic --------------------------------
(***************************************************************************)
(* The configuration of the chips of a lane as the host keeps it in memory *)
(* (sw/drivers/astropix/asic.py), the SPI frames made from it, and how a   *)
(* chip takes a configuration frame.                                       *)
(*                                                                         *)
(* A chip has one word of bits for each column: bit 0 is the injection     *)
(* switch of the row of the same number, bit r + 1 turns the comparator of *)
(* row r off, and the two bits above the rows are the injection switch of  *)
(* the column and its analog output.                                       *)
(***************************************************************************)
EXTENDS Integers, Sequences, FiniteSets

CONSTANTS Side,        \* rows and columns of a chip
          VectorLength \* bits of the configuration of a chip

ASSUME SideAssumption == Side \in Nat \ {0} /\ VectorLength \in Nat \ {0}

InjectRow     == 0
Comparator(r) == r + 1
InjectColumn  == Side + 1
AnalogOut     == Side + 2

(* reset_recconfig: nothing is switched on.                                *)
AllOff == {Comparator(r) : r \in 0 .. Side - 1}

(* The values of a configuration that scripts change: the words of the     *)
(* columns and the injection voltage.                                      *)
Blank == [recconfig |-> [c \in 0 .. Side - 1 |-> AllOff], vinj |-> "default"]

-----------------------------------------------------------------------------
(* Loading.  A file gives the length of the chain or leaves it to the one  *)
(* before; without a configuration for every chip the script exits.        *)

NewAsic == [numChips |-> 1, config |-> <<>>]

ChainOf(asic, yaml) == IF yaml.length = 0 THEN asic.numChips ELSE yaml.length

Loads(asic, yaml) == 0 .. ChainOf(asic, yaml) - 1 \subseteq DOMAIN yaml.config

load_conf_from_yaml(asic, yaml) ==
    [numChips |-> ChainOf(asic, yaml),
     config   |-> [k \in 0 .. ChainOf(asic, yaml) - 1 |-> yaml.config[k]]]

(* The length of the chain is that of the command line in the end.         *)
setupASIC(chipsPerLane, yaml) ==
    [load_conf_from_yaml(NewAsic, yaml) EXCEPT !.numChips = chipsPerLane]

-----------------------------------------------------------------------------
(* Changing a configuration.  A chip or a column that is not there raises  *)
(* KeyError; a number outside the chip is ignored or fails an assertion.   *)

Known(asic, chip) == chip \in DOMAIN asic.config

Changed(asic, chip, col, word) == [asic EXCEPT !.config[chip].recconfig[col] = word]

Word(asic, chip, col) == asic.config[chip].recconfig[col]

enable_inj_row(asic, chip, row) ==
    IF row < Side THEN Changed(asic, chip, row, Word(asic, chip, row) \cup {InjectRow})
    ELSE asic

enable_inj_col(asic, chip, col) ==
    IF col < Side THEN Changed(asic, chip, col, Word(asic, chip, col) \cup {InjectColumn})
    ELSE asic

(* Mutated form of enable_pixel: column and row exchanged.                 *)
enablePixelExchanged(asic, chip, col, row) ==
    Changed(asic, chip, row, Word(asic, chip, row) \ {Comparator(col)})

enable_pixel(asic, chip, col, row) ==
    Changed(asic, chip, col, Word(asic, chip, col) \ {Comparator(row)})

(* The loop that should clear the other columns clears this one each time. *)
enable_ampout_col(asic, chip, col) ==
    Changed(asic, chip, col, (Word(asic, chip, col) \ {AnalogOut}) \cup {AnalogOut})

SetInjectionVoltage(asic, chip, v) == [asic EXCEPT !.config[chip].vinj = v]

-----------------------------------------------------------------------------
(* SPI frames.  What follows the header and the bits keeps the chain       *)
(* clocked until the last chip has the frame.                              *)

gen_config_vector_SPI(asic, chip) == asic.config[chip]

FillBytes(asic) == IF asic.numChips > 1 THEN (asic.numChips - 1) * 4 ELSE 0

writeSPIRoutingFrame(asic) == [header |-> "routing", length |-> 1 + FillBytes(asic)]

createSPIConfigFrame(asic, n_load, targetChip) ==
    [header |-> "SR", target |-> targetChip,
     vector |-> gen_config_vector_SPI(asic, targetChip),
     length |-> 1 + VectorLength + n_load + FillBytes(asic)]

Zeros(n) == [header |-> "empty", length |-> n]

(* The chunks of a payload, by their number of bytes.                      *)
ChunkAfter(payload, sent, step) ==
    IF payload.length - sent < step THEN payload.length - sent ELSE step

-----------------------------------------------------------------------------
(* The chips of a lane, in the order of the chain: each has a number once  *)
(* a routing frame has passed, and a configuration.                        *)

ResetChips(n) == [routed |-> FALSE, length |-> n, config |-> <<>>]

(* A frame whose bytes all came while the lane was selected.               *)
Receive(chips, payload) ==
    CASE payload.header = "routing" -> [chips EXCEPT !.routed = TRUE]
      [] payload.header = "SR" /\ chips.routed /\ payload.target < chips.length ->
           [chips EXCEPT !.config = [k \in {payload.target} \cup DOMAIN @ |->
                                        IF k = payload.target THEN payload.vector ELSE @[k]]]
      [] OTHER -> chips

=============================================================================
