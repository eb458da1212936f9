------------------------------- MODULE Decode -------------------------------
(***************************************************************************)
(* The offline decoding of a readout (sw/drivers/astropix/decode.py) and   *)
(* the parts of sw/main.py that feed it.  A byte is a record with its      *)
(* value and with where it came from, which the code cannot see.           *)
(***************************************************************************)
EXTENDS Integers, SequencesExt

CONSTANTS MaxPacket,  \* a larger length is taken for a byte between packets
          ChunkSize   \* bytes of the file that are decoded together

ASSUME DecodeAssumption == MaxPacket \in Nat /\ ChunkSize \in Nat \ {0}

(* Mutated form of list_hits: the length is that of the whole packet.      *)
hitsCutShort(readout) ==
    LET from[b \in 1 .. Len(readout) + 1] ==
            IF b > Len(readout) THEN <<>>
            ELSE IF readout[b].value > MaxPacket THEN from[b + 1]
            ELSE LET e == IF b + readout[b].value - 1 > Len(readout) THEN Len(readout)
                          ELSE b + readout[b].value - 1
                 IN <<SubSeq(readout, b, e)>> \o from[e + 1]
    IN from[1]

(* Packets of a readout, the last one cut off where the readout ends.      *)
list_hits(readout) ==
    LET packet_len(b) == readout[b].value
        from[b \in 1 .. Len(readout) + 1] ==
            IF b > Len(readout) THEN <<>>
            ELSE IF packet_len(b) > MaxPacket THEN from[b + 1]
            ELSE LET e == IF b + packet_len(b) > Len(readout) THEN Len(readout)
                          ELSE b + packet_len(b)
                 IN <<SubSeq(readout, b, e)>> \o from[e + 1]
    IN from[1]

(* One row for the first packet, whatever follows, and none without one:   *)
(* the return statement is in the body of the loop.                        *)
decode_readout(readout) ==
    IF list_hits(readout) = <<>> THEN <<>> ELSE <<Head(list_hits(readout))>>

(* A file is read in chunks of a fixed size, wherever its frames end.      *)
chunks(file) == (Len(file) + ChunkSize - 1) \div ChunkSize

chunk(file, k) ==
    SubSeq(file, (k - 1) * ChunkSize + 1,
           IF k * ChunkSize > Len(file) THEN Len(file) ELSE k * ChunkSize)

(* The rows of a file.                                                     *)
bin2csv(file) ==
    FlattenSeq([k \in 1 .. chunks(file) |-> decode_readout(chunk(file, k))])

(* pandas cannot concatenate results of which none is a table.             *)
ConcatFails(file) == file # <<>> /\ bin2csv(file) = <<>>

(* Mutated form of dataParse_autoread: every readout has the last level.   *)
dataParseLast(data_lst, buffer_lst) ==
    FlattenSeq([k \in DOMAIN data_lst |->
        SubSeq(data_lst[k], 1,
               IF Last(buffer_lst) < Len(data_lst[k]) THEN Last(buffer_lst)
               ELSE Len(data_lst[k]))])

(* The readouts of an injection run, each cut to the level read before it. *)
dataParse_autoread(data_lst, buffer_lst) ==
    FlattenSeq([k \in DOMAIN data_lst |->
        SubSeq(data_lst[k], 1,
               IF buffer_lst[k] < Len(data_lst[k]) THEN buffer_lst[k] ELSE Len(data_lst[k]))])

=============================================================================
