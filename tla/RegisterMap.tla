----------------------------- MODULE RegisterMap -----------------------------
(***************************************************************************)
(* The registers the generated driver reads and writes, as byte addresses: *)
(* a register of several bytes lies at consecutive addresses and is        *)
(* accessed with the increment bit, a FIFO is one address.                 *)
(***************************************************************************)
EXTENDS Naturals, Sequences

CONSTANTS Register,    \* [address, width, increment, fifo, readonly] records
          Value,       \* values written
          Address,     \* addresses of the register file
          FifoWords,   \* readout words told apart
          MaxRead      \* words of one read of the readout FIFO

LastAddress == 65535   \* of two bytes

ASSUME RegisterMapAssumption ==
    /\ Register \subseteq [address : Address, width : Nat \ {0},
                           increment : BOOLEAN, fifo : BOOLEAN, readonly : BOOLEAN]
    /\ Address \subseteq 0 .. LastAddress /\ Value \subseteq Nat
    /\ {FifoWords, MaxRead} \subseteq Nat \ {0}
    /\ \A r, s \in Register : r.address = s.address => r = s

(* The n bytes of v, least significant first.                              *)
BytesOf(v, n) == [k \in 1 .. n |-> (v \div 256^(k - 1)) % 256]

IsFifo(a)    == \E r \in Register : r.address = a /\ r.fifo
Readable(r)  == r.fifo => r.readonly
Counts(r)    == IF r.fifo THEN 1 .. MaxRead ELSE {r.width}

(* The registers after the bytes bs are written at address a.              *)
Put(regs, a, increment, bs) ==
    [x \in DOMAIN regs |->
        IF increment
        THEN IF x \in a .. a + Len(bs) - 1 THEN <<bs[x - a + 1]>> ELSE regs[x]
        ELSE IF x # a THEN regs[x]
        ELSE IF IsFifo(a) THEN regs[a] \o bs
        ELSE <<bs[Len(bs)]>>]

(* The bytes of a read of n words at address a.                            *)
Bytes(regs, first, a, increment, n) ==
    IF IsFifo(a) THEN [k \in 1 .. n |-> (first + k - 1) % FifoWords]
    ELSE [k \in 1 .. n |-> regs[IF increment THEN a + k - 1 ELSE a][1]]

(* Nothing written yet.                                                    *)
Fresh == [a \in Address |-> IF IsFifo(a) THEN <<>> ELSE <<0>>]

=============================================================================
