------------------------- MODULE RfgProtocol_proofs -------------------------
(***************************************************************************)
(* Proofs about rfg_axis_protocol.sv.  For all hosts, commands and sinks:  *)
(* the registers keep their types.  For one host that awaits its answers,  *)
(* and a host link that takes no words out of the egress FIFO on           *)
(* consecutive edges: the register file is written as commanded, and every *)
(* answer is the one that was asked for.                                   *)
(***************************************************************************)
EXTENDS RfgProtocol, SequenceTheorems, TLAPS

(* What one edge does to a FIFO of four words such as the read buffer.     *)
Facts == INSTANCE MiniFwftFifo_proofs WITH
            Depth <- 4, Word <- Byte, fifo <- read_buffer,
            write <- read_buffer_write, read <- read_buffer_read,
            data_in <- read_buffer_data_in

-----------------------------------------------------------------------------
(* Types, for any hosts.                                                   *)

Words == [value : Byte, last : BOOLEAN, to : Host \cup {0}]

Sound(f) == Facts!Sound(f)

ReadSound == Sound(read_buffer)

TypeInv ==
    /\ TypeOK
    /\ ReadSound
    /\ m_axis_tdest \in Host \cup {0}
    /\ fifo_words \in 0 .. FifoWords - 1
    /\ pace \in Nat
    /\ port \in Seq(Words)
    /\ todo \in [Host -> Seq(Byte)]
    /\ answer \in [Host -> Seq(Words)]
    /\ asked \in [Host -> {<<>>} \cup (Command \X (0 .. FifoWords - 1))]

(* The conjuncts of TypeOK, one by one.                                    *)
Typed ==
    /\ rfp_state \in {"RFP_HEADER", "RFP_ADDRESS", "RFP_ADDRESSB",
                      "RFP_LENGTHA", "RFP_LENGTHB", "RFP_WRITE_VALUE",
                      "RFP_READ", "RFP_READ_FINISH"}
    /\ rfg_header \in Header
    /\ rfg_address \in Word16 /\ rfg_length \in Word16
    /\ rfg_current_length \in Word16 /\ rfg_master_length \in Word16
    /\ s_axis_tready \in BOOLEAN /\ rfg_write \in BOOLEAN
    /\ rfg_write_last \in BOOLEAN /\ read_buffer_write \in BOOLEAN
    /\ read_buffer_read \in BOOLEAN /\ m_axis_tvalid \in BOOLEAN
    /\ m_axis_tlast \in BOOLEAN /\ rfg_read_valid \in BOOLEAN
    /\ rfg_write_value \in Byte /\ read_buffer_data_in \in Byte
    /\ m_axis_tdata \in Byte /\ rfg_read_value \in Byte
    /\ read_buffer.rd_data_count \in 0 .. 4
    /\ {grant, transmitting, routed, stale} \subseteq BOOLEAN
    /\ Len(port) <= PortDepth /\ egress \in 0 .. EgressDepth

LEMMA TypeFacts == TypeOK <=> Typed
<1> DEFINE words == {rfg_address, rfg_length, rfg_current_length, rfg_master_length}
                       \subseteq Word16
           bits  == {s_axis_tready, rfg_write, rfg_write_last, read_buffer_write,
                     read_buffer_read, m_axis_tvalid, m_axis_tlast, rfg_read_valid}
                       \subseteq BOOLEAN
           bytes == {rfg_write_value, read_buffer_data_in, m_axis_tdata, rfg_read_value}
                       \subseteq Byte
           state == rfp_state \in {"RFP_HEADER", "RFP_ADDRESS", "RFP_ADDRESSB",
                          "RFP_LENGTHA", "RFP_LENGTHB", "RFP_WRITE_VALUE",
                          "RFP_READ", "RFP_READ_FINISH"}
           count == read_buffer.rd_data_count \in 0 .. 4
           turn == {grant, transmitting, routed, stale} \subseteq BOOLEAN
           room == Len(port) <= PortDepth /\ egress \in 0 .. EgressDepth
<1>1. words <=> /\ rfg_address \in Word16 /\ rfg_length \in Word16
                /\ rfg_current_length \in Word16 /\ rfg_master_length \in Word16
  BY Zenon
<1>2. bits <=> /\ s_axis_tready \in BOOLEAN /\ rfg_write \in BOOLEAN
               /\ rfg_write_last \in BOOLEAN /\ read_buffer_write \in BOOLEAN
               /\ read_buffer_read \in BOOLEAN /\ m_axis_tvalid \in BOOLEAN
               /\ m_axis_tlast \in BOOLEAN /\ rfg_read_valid \in BOOLEAN
  BY Zenon
<1>3. bytes <=> /\ rfg_write_value \in Byte /\ read_buffer_data_in \in Byte
                /\ m_axis_tdata \in Byte /\ rfg_read_value \in Byte
  BY Zenon
<1>4. TypeOK <=> state /\ rfg_header \in Header /\ words /\ bits /\ bytes /\ count
             /\ turn /\ room
  BY DEF TypeOK
<1>5. TypeOK <=> state /\ rfg_header \in Header
                 /\ (/\ rfg_address \in Word16 /\ rfg_length \in Word16
                     /\ rfg_current_length \in Word16 /\ rfg_master_length \in Word16)
                 /\ (/\ s_axis_tready \in BOOLEAN /\ rfg_write \in BOOLEAN
                     /\ rfg_write_last \in BOOLEAN /\ read_buffer_write \in BOOLEAN
                     /\ read_buffer_read \in BOOLEAN /\ m_axis_tvalid \in BOOLEAN
                     /\ m_axis_tlast \in BOOLEAN /\ rfg_read_valid \in BOOLEAN)
                 /\ (/\ rfg_write_value \in Byte /\ read_buffer_data_in \in Byte
                     /\ m_axis_tdata \in Byte /\ rfg_read_value \in Byte)
                 /\ count /\ turn /\ room
  <2> HIDE DEF words, bits, bytes, count, turn, room, state
  <2> QED
    BY <1>1, <1>2, <1>3, <1>4, Zenon
<1> QED
  BY <1>5 DEF Typed

-----------------------------------------------------------------------------
(* Arithmetic of the registers.                                            *)

LEMMA WordRange ==
    /\ \A n \in Word16 : n \in Nat /\ n <= 65535
    /\ \A n \in Nat : n <= 65535 => n \in Word16
<1>1. Modulus = 65536
  BY DEF Modulus
<1>2. Modulus \in Nat
  BY <1>1
<1>3. ASSUME NEW n \in Word16 PROVE n \in Nat /\ n <= 65535
  <2>1. n \in Nat /\ n <= Modulus - 1
    BY <1>2 DEF Word16
  <2> QED
    BY <1>1, <2>1
<1>4. ASSUME NEW n \in Nat, n <= 65535 PROVE n \in Word16
  <2>1. n <= Modulus - 1
    BY <1>1, <1>4
  <2> QED
    BY <1>2, <2>1 DEF Word16
<1> QED
  BY <1>3, <1>4

LEMMA ByteRange ==
    /\ \A n \in Byte : n \in Nat /\ n <= 255 /\ n \in Word16
    /\ \A n \in Nat : n <= 255 => n \in Byte
<1>1. ASSUME NEW n \in Byte PROVE n \in Nat /\ n <= 255
  BY DEF Byte
<1>2. ASSUME NEW n \in Byte PROVE n \in Word16
  BY <1>1, WordRange
<1>3. ASSUME NEW n \in Nat, n <= 255 PROVE n \in Byte
  BY <1>3 DEF Byte
<1> QED
  BY <1>1, <1>2, <1>3

LEMMA LowByte == \A n \in Nat : n % 256 \in Nat /\ n % 256 <= 255
  OBVIOUS

LEMMA SixteenBits == \A n \in Nat : n % 65536 \in Nat /\ n % 65536 <= 65535
  OBVIOUS

LEMMA HighNatural == \A n \in Nat : n \div 256 \in Nat
  OBVIOUS

LEMMA HighByte == \A n \in Nat : n <= 65535 => n \div 256 <= 255
  OBVIOUS

LEMMA SplitNumber == \A n \in Nat : n = 256 * (n \div 256) + (n % 256)
  OBVIOUS

LEMMA JoinedLow == \A high, low \in Nat : low < 256 => (high * 256 + low) % 256 = low
  OBVIOUS

LEMMA Multiple == \A f, d \in Nat : f >= 1 /\ d >= 1 => f * d >= f
  OBVIOUS

LEMMA Division ==
    \A n, f \in Nat : f >= 1 => n = f * (n \div f) + (n % f) /\ n \div f \in Nat
  OBVIOUS

(* Equal sums have equal quotients.                                        *)
LEMMA QuotientOrder ==
    ASSUME NEW q \in Nat, NEW r \in Nat, NEW p \in Nat, NEW s \in Nat, NEW f \in Nat,
           r < f, s < f, f * q + r = f * p + s
    PROVE  ~(q < p)
<1> SUFFICES ASSUME q < p
             PROVE  FALSE
  OBVIOUS
<1>1. PICK d \in Nat : d >= 1 /\ p = q + d
  <2>1. p - q \in Nat /\ p - q >= 1 /\ p = q + (p - q)
    OBVIOUS
  <2> QED
    BY <2>1
<1>2. f * p = f * q + f * d
  BY <1>1
<1>3. f * d >= f /\ f * d \in Nat /\ f * q \in Nat /\ f * p \in Nat
  BY <1>1, Multiple
<1> QED
  BY <1>2, <1>3

LEMMA RemainderIs ==
    ASSUME NEW q \in Nat, NEW r \in Nat, NEW f \in Nat, r < f
    PROVE  (f * q + r) % f = r
<1>1. f * q + r \in Nat /\ f >= 1
  OBVIOUS
<1>2. PICK n \in Nat : n = f * q + r
  BY <1>1
<1>3. PICK p \in Nat, s \in Nat : s < f /\ n = f * p + s /\ s = n % f
  <2>1. n = f * (n \div f) + (n % f) /\ n \div f \in Nat
    BY <1>1, Division
  <2>2. n % f \in Nat /\ n % f < f
    BY <1>1
  <2> QED
    BY <2>1, <2>2
<1>4. ~(q < p) /\ ~(p < q)
  BY <1>2, <1>3, QuotientOrder
<1>5. p = q
  BY <1>4
<1>6. PICK a \in Nat : a = f * q
  BY <1>1
<1>7. n = a + r /\ n = a + s
  BY <1>2, <1>3, <1>5, <1>6
<1>8. s = r
  BY <1>7
<1>9. n % f = r
  BY <1>3, <1>8
<1> QED
  BY <1>2, <1>9

LEMMA RemainderOfNext ==
    ASSUME NEW n \in Nat, NEW f \in Nat, f >= 1
    PROVE  ((n % f) + 1) % f = (n + 1) % f
<1>1. PICK q \in Nat, r \in Nat : r < f /\ n = f * q + r /\ r = n % f
  <2>1. n = f * (n \div f) + (n % f) /\ n \div f \in Nat
    BY Division
  <2>2. n % f \in Nat /\ n % f < f
    OBVIOUS
  <2> QED
    BY <2>1, <2>2
<1>2. CASE r + 1 < f
  <2>1. r + 1 \in Nat /\ n + 1 = f * q + (r + 1)
    BY <1>1
  <2>2. (f * q + (r + 1)) % f = r + 1
    BY <1>2, <2>1, RemainderIs
  <2>3. 0 \in Nat /\ (f * 0 + (r + 1)) % f = r + 1
    BY <1>2, <2>1, RemainderIs
  <2>4. f * 0 + (r + 1) = r + 1
    BY <2>1
  <2> QED
    BY <1>1, <2>1, <2>2, <2>3, <2>4
<1>3. CASE r + 1 = f
  <2>1. /\ n + 1 = f * (q + 1) + 0
        /\ q + 1 \in Nat /\ 0 \in Nat /\ 0 < f /\ 1 \in Nat
    <3>1. PICK a \in Nat : a = f * q
      OBVIOUS
    <3>2. f * (q + 1) = f * q + f
      OBVIOUS
    <3>3. n = a + r
      BY <1>1, <3>1
    <3>4. n + 1 = a + f
      BY <1>3, <3>3
    <3>5. n + 1 = f * (q + 1)
      BY <3>1, <3>2, <3>4
    <3>6. f * (q + 1) = f * (q + 1) + 0
      OBVIOUS
    <3> QED
      BY <3>5, <3>6
  <2>2. (f * (q + 1) + 0) % f = 0
    BY <2>1, RemainderIs
  <2>3. (f * 1 + 0) % f = 0
    BY <2>1, RemainderIs
  <2>4. f * 1 + 0 = r + 1
    BY <1>3
  <2> QED
    BY <1>1, <2>1, <2>2, <2>3, <2>4
<1> QED
  BY <1>1, <1>2, <1>3

LEMMA UpOfRemainder == \A n \in Nat : Up(n % 65536) = (n + 1) % 65536
  BY DEF Up, Modulus

LEMMA RemaindersDiffer ==
    \A m, n \in Nat : m < n /\ n - m < 65536 => m % 65536 # n % 65536
  OBVIOUS

LEMMA SmallRemainder == \A n, f \in Nat : f >= 1 /\ n < f => n % f = n
  OBVIOUS

LEMMA DownType == \A n \in Nat : Down(n) \in Nat /\ Down(n) <= 65535
  BY DEF Down, Modulus

LEMMA UpType == \A n \in Nat : Up(n) \in Nat /\ Up(n) <= 65535
  BY DEF Up, Modulus

LEMMA CountingDown == \A n \in Nat : n >= 1 /\ n <= 65535 => Down(n) = n - 1
  BY DEF Down, Modulus

LEMMA CountingUp ==
    \A n \in Nat : n <= 65535 => Up(n) = IF n = 65535 THEN 0 ELSE n + 1
  BY DEF Up, Modulus

LEMMA Counting ==
    ASSUME NEW n \in Word16
    PROVE  /\ Down(n) \in Word16 /\ Up(n) \in Word16
           /\ n >= 1 => Down(n) = n - 1
           /\ Up(n) = IF n = 65535 THEN 0 ELSE n + 1
  BY WordRange, DownType, UpType, CountingDown, CountingUp

LEMMA Joined ==
    ASSUME NEW high \in Byte, NEW low \in Byte
    PROVE  /\ high * 256 + low \in Word16
           /\ (high * 256 + low) % 256 = low
<1>1. high \in Nat /\ high <= 255 /\ low \in Nat /\ low < 256
  BY ByteRange
<1>2. high * 256 + low \in Nat /\ high * 256 + low <= 65535
  BY <1>1
<1> QED
  BY <1>1, <1>2, JoinedLow, WordRange

LEMMA Halves ==
    ASSUME NEW n \in Word16
    PROVE  n \div 256 \in Byte /\ n % 256 \in Byte
<1>1. n \in Nat /\ n <= 65535
  BY WordRange
<1>2. n \div 256 \in Nat /\ n \div 256 <= 255
  BY <1>1, HighNatural, HighByte
<1>3. n % 256 \in Nat /\ n % 256 <= 255
  BY <1>1, LowByte
<1> QED
  BY <1>2, <1>3, ByteRange

-----------------------------------------------------------------------------
(* The bytes of a command.                                                 *)

LEMMA Rejoined ==
    ASSUME NEW n \in Word16
    PROVE  (n \div 256) * 256 + (n % 256) = n
<1>1. n \in Nat
  BY WordRange
<1>2. n = 256 * (n \div 256) + (n % 256) /\ n \div 256 \in Nat /\ n % 256 \in Nat
  BY <1>1, SplitNumber, HighNatural, LowByte
<1> QED
  BY <1>2

(* Bytes of a command before its values, and how many there are in all.    *)
Preamble(cmd) == IF cmd.address > 255 THEN 5 ELSE 4
Total(cmd)    == Preamble(cmd) + IF cmd.write THEN cmd.length ELSE 0

LEMMA CommandType ==
    ASSUME NEW cmd \in Command
    PROVE  /\ cmd.write \in BOOLEAN /\ cmd.increment \in BOOLEAN
           /\ cmd.address \in Word16 /\ cmd.length \in Word16 /\ cmd.length >= 1
<1>1. cmd \in [write : BOOLEAN, increment : BOOLEAN,
               address : Word16, length : Word16 \ {0}]
  BY RfgAssumption, Zenon
<1>2. /\ cmd.write \in BOOLEAN /\ cmd.increment \in BOOLEAN
      /\ cmd.address \in Word16 /\ cmd.length \in Word16 /\ cmd.length # 0
  BY <1>1
<1> QED
  BY <1>2, WordRange

(* The bits of the eight header bytes a host sends.                        *)
LEMMA Bits1 == Bit(1, 1) /\ ~Bit(1, 2) /\ ~Bit(1, 4) /\ ~Bit(1, 8)
  BY DEF Bit

LEMMA Bits2 == ~Bit(2, 1) /\ Bit(2, 2) /\ ~Bit(2, 4) /\ ~Bit(2, 8)
  BY DEF Bit

LEMMA Bits5 == Bit(5, 1) /\ ~Bit(5, 2) /\ Bit(5, 4) /\ ~Bit(5, 8)
  BY DEF Bit

LEMMA Bits6 == ~Bit(6, 1) /\ Bit(6, 2) /\ Bit(6, 4) /\ ~Bit(6, 8)
  BY DEF Bit

LEMMA Bits9 == Bit(9, 1) /\ ~Bit(9, 2) /\ ~Bit(9, 4) /\ Bit(9, 8)
  BY DEF Bit

LEMMA Bits10 == ~Bit(10, 1) /\ Bit(10, 2) /\ ~Bit(10, 4) /\ Bit(10, 8)
  BY DEF Bit

LEMMA Bits13 == Bit(13, 1) /\ ~Bit(13, 2) /\ Bit(13, 4) /\ Bit(13, 8)
  BY DEF Bit

LEMMA Bits14 == ~Bit(14, 1) /\ Bit(14, 2) /\ Bit(14, 4) /\ Bit(14, 8)
  BY DEF Bit

LEMMA HeaderBits ==
    ASSUME NEW cmd \in Command
    PROVE  /\ HeaderByte(cmd) \in Byte
           /\ HeaderOf(HeaderByte(cmd)) =
                 [write |-> cmd.write, read |-> ~cmd.write,
                  increment |-> cmd.increment, extended |-> cmd.address > 255]
           /\ Bit(HeaderByte(cmd), 1) \/ Bit(HeaderByte(cmd), 2)
<1> DEFINE x == HeaderByte(cmd)
           far == cmd.address > 255
<1>1. x = (IF cmd.write THEN 1 ELSE 2) + (IF cmd.increment THEN 4 ELSE 0)
              + (IF far THEN 8 ELSE 0)
  BY DEF HeaderByte
<1>2. cmd.write \in BOOLEAN /\ cmd.increment \in BOOLEAN /\ far \in BOOLEAN
  BY CommandType
<1>3. HeaderOf(x) = [write |-> Bit(x, 1), read |-> Bit(x, 2),
                     increment |-> Bit(x, 4), extended |-> Bit(x, 8)]
  BY DEF HeaderOf
<1> HIDE DEF x, far
<1>5. /\ Bit(x, 1) <=> cmd.write
      /\ Bit(x, 2) <=> ~cmd.write
      /\ Bit(x, 4) <=> cmd.increment
      /\ Bit(x, 8) <=> far
  <2>1. CASE cmd.write /\ ~cmd.increment /\ ~far
    <3>1. x = 1
      BY <1>1, <2>1
    <3> QED
      BY <2>1, <3>1, Bits1
  <2>2. CASE ~cmd.write /\ ~cmd.increment /\ ~far
    <3>1. x = 2
      BY <1>1, <2>2
    <3> QED
      BY <2>2, <3>1, Bits2
  <2>3. CASE cmd.write /\ cmd.increment /\ ~far
    <3>1. x = 5
      BY <1>1, <2>3
    <3> QED
      BY <2>3, <3>1, Bits5
  <2>4. CASE ~cmd.write /\ cmd.increment /\ ~far
    <3>1. x = 6
      BY <1>1, <2>4
    <3> QED
      BY <2>4, <3>1, Bits6
  <2>5. CASE cmd.write /\ ~cmd.increment /\ far
    <3>1. x = 9
      BY <1>1, <2>5
    <3> QED
      BY <2>5, <3>1, Bits9
  <2>6. CASE ~cmd.write /\ ~cmd.increment /\ far
    <3>1. x = 10
      BY <1>1, <2>6
    <3> QED
      BY <2>6, <3>1, Bits10
  <2>7. CASE cmd.write /\ cmd.increment /\ far
    <3>1. x = 13
      BY <1>1, <2>7
    <3> QED
      BY <2>7, <3>1, Bits13
  <2>8. CASE ~cmd.write /\ cmd.increment /\ far
    <3>1. x = 14
      BY <1>1, <2>8
    <3> QED
      BY <2>8, <3>1, Bits14
  <2> QED
    BY <1>2, <2>1, <2>2, <2>3, <2>4, <2>5, <2>6, <2>7, <2>8
<1>6. x \in Byte
  BY <1>1, <1>2, ByteRange
<1>7. /\ Bit(x, 1) \in BOOLEAN /\ Bit(x, 2) \in BOOLEAN
      /\ Bit(x, 4) \in BOOLEAN /\ Bit(x, 8) \in BOOLEAN
  BY Zenon DEF Bit
<1>8. /\ Bit(x, 1) = cmd.write /\ Bit(x, 2) = ~cmd.write
      /\ Bit(x, 4) = cmd.increment /\ Bit(x, 8) = far
  BY <1>2, <1>5, <1>7, Zenon
<1>9. HeaderOf(x) = [write |-> cmd.write, read |-> ~cmd.write,
                     increment |-> cmd.increment, extended |-> far]
  BY <1>3, <1>8, Zenon
<1>10. Bit(x, 1) \/ Bit(x, 2)
  BY <1>2, <1>5, Zenon
<1> QED
  BY <1>6, <1>9, <1>10, Zenon DEF x, far

LEMMA HeaderType == \A byte \in Byte : HeaderOf(byte) \in Header
<1> SUFFICES ASSUME NEW byte \in Byte
             PROVE  HeaderOf(byte) \in Header
  OBVIOUS
<1>1. /\ Bit(byte, 1) \in BOOLEAN /\ Bit(byte, 2) \in BOOLEAN
      /\ Bit(byte, 4) \in BOOLEAN /\ Bit(byte, 8) \in BOOLEAN
  BY Zenon DEF Bit
<1> QED
  BY <1>1 DEF HeaderOf, Header

(* The values of a write.                                                  *)
Values(cmd) == IF cmd.write THEN [k \in 1 .. cmd.length |-> k % 256] ELSE <<>>

LEMMA ValuesFacts ==
    ASSUME NEW cmd \in Command
    PROVE  /\ Values(cmd) \in Seq(Byte)
           /\ Len(Values(cmd)) = IF cmd.write THEN cmd.length ELSE 0
           /\ cmd.write => \A k \in 1 .. cmd.length : Values(cmd)[k] = k % 256
<1>1. cmd.length \in Nat
  BY CommandType, WordRange
<1>2. CASE cmd.write
  <2>1. Values(cmd) = [k \in 1 .. cmd.length |-> k % 256]
    BY <1>2 DEF Values
  <2>2. \A k \in 1 .. cmd.length : k % 256 \in Byte
    <3> TAKE k \in 1 .. cmd.length
    <3>1. k \in Nat
      BY <1>1
    <3> QED
      BY <3>1, LowByte, ByteRange
  <2>3. Values(cmd) \in [1 .. cmd.length -> Byte]
    BY <2>1, <2>2, Zenon
  <2>4. Values(cmd) \in Seq(Byte) /\ Len(Values(cmd)) = cmd.length
    BY <1>1, <2>1, <2>3
  <2>5. \A k \in 1 .. cmd.length : Values(cmd)[k] = k % 256
    BY <2>1, Zenon
  <2> QED
    BY <1>2, <2>4, <2>5
<1>3. CASE ~cmd.write
  BY <1>3, EmptySeq DEF Values
<1> QED
  BY <1>2, <1>3, CommandType

LEMMA AddressBytesFacts ==
    ASSUME NEW a \in Word16
    PROVE  /\ AddressBytes(a) \in Seq(Byte)
           /\ a > 255 => /\ Len(AddressBytes(a)) = 2
                         /\ AddressBytes(a)[1] = a % 256
                         /\ AddressBytes(a)[2] = a \div 256
           /\ ~(a > 255) => Len(AddressBytes(a)) = 1 /\ AddressBytes(a)[1] = a
<1>1. a \in Nat /\ a <= 65535
  BY WordRange
<1>2. CASE a > 255
  <2>1. AddressBytes(a) = <<a % 256, a \div 256>>
    BY <1>2 DEF AddressBytes
  <2>2. PICK low \in Byte, high \in Byte : low = a % 256 /\ high = a \div 256
    BY Halves
  <2>3. AddressBytes(a) = <<low, high>>
    BY <2>1, <2>2, Zenon
  <2>4. /\ AddressBytes(a) \in Seq(Byte) /\ Len(AddressBytes(a)) = 2
        /\ AddressBytes(a)[1] = low /\ AddressBytes(a)[2] = high
    BY <2>3
  <2> QED
    BY <1>2, <2>2, <2>4, Zenon
<1>3. CASE ~(a > 255)
  <2>1. AddressBytes(a) = <<a>>
    BY <1>3 DEF AddressBytes
  <2>2. a \in Byte
    BY <1>1, <1>3, ByteRange
  <2> QED
    BY <1>3, <2>1, <2>2
<1> QED
  BY <1>2, <1>3

(* The bytes of a command, by their places.                                *)
LEMMA BytesFacts ==
    ASSUME NEW cmd \in Command
    PROVE  /\ BytesOf(cmd) \in Seq(Byte) /\ Len(BytesOf(cmd)) = Total(cmd)
           /\ BytesOf(cmd)[1] = HeaderByte(cmd)
           /\ cmd.address > 255 => /\ BytesOf(cmd)[2] = cmd.address % 256
                                   /\ BytesOf(cmd)[3] = cmd.address \div 256
           /\ ~(cmd.address > 255) => BytesOf(cmd)[2] = cmd.address
           /\ BytesOf(cmd)[Preamble(cmd) - 1] = cmd.length % 256
           /\ BytesOf(cmd)[Preamble(cmd)] = cmd.length \div 256
           /\ cmd.write => \A k \in 1 .. cmd.length :
                             BytesOf(cmd)[Preamble(cmd) + k] = k % 256
<1> DEFINE head == <<HeaderByte(cmd)>>
           addr == AddressBytes(cmd.address)
           len == <<cmd.length % 256, cmd.length \div 256>>
           vals == Values(cmd)
           one == head \o addr
           two == one \o len
           all == two \o vals
           p == Preamble(cmd)
           far == cmd.address > 255
           n == cmd.length
<1>1. BytesOf(cmd) = all
  BY DEF BytesOf, Values
<1>2. HeaderByte(cmd) \in Byte
  BY HeaderBits
<1>3. head \in Seq(Byte) /\ Len(head) = 1 /\ head[1] = HeaderByte(cmd)
  BY <1>2
<1>4. /\ addr \in Seq(Byte) /\ p = 3 + Len(addr) /\ p \in 4 .. 5
      /\ far => Len(addr) = 2 /\ addr[1] = cmd.address % 256
                             /\ addr[2] = cmd.address \div 256
      /\ ~far => Len(addr) = 1 /\ addr[1] = cmd.address
  <2>1. /\ addr \in Seq(Byte)
        /\ far => Len(addr) = 2 /\ addr[1] = cmd.address % 256
                               /\ addr[2] = cmd.address \div 256
        /\ ~far => Len(addr) = 1 /\ addr[1] = cmd.address
    BY CommandType, AddressBytesFacts, Zenon
  <2>2. (far => p = 5) /\ (~far => p = 4)
    BY DEF Preamble
  <2> HIDE DEF addr, far, p
  <2>3. p = 3 + Len(addr) /\ p \in 4 .. 5
    <3>1. CASE far
      <4>1. p = 5 /\ Len(addr) = 2
        BY <2>1, <2>2, <3>1, Zenon
      <4> QED
        BY <4>1
    <3>2. CASE ~far
      <4>1. p = 4 /\ Len(addr) = 1
        BY <2>1, <2>2, <3>2, Zenon
      <4> QED
        BY <4>1
    <3> QED
      BY <3>1, <3>2
  <2> QED
    BY <2>1, <2>3
<1>5. PICK low \in Byte, high \in Byte : low = n % 256 /\ high = n \div 256
  BY CommandType, Halves
<1>6. len = <<low, high>>
  BY <1>5, Zenon
<1>7. len \in Seq(Byte) /\ Len(len) = 2 /\ len[1] = low /\ len[2] = high
  BY <1>6
<1>8. /\ vals \in Seq(Byte)
      /\ Len(vals) = IF cmd.write THEN n ELSE 0
      /\ cmd.write => \A k \in 1 .. n : vals[k] = k % 256
  BY ValuesFacts
<1>9. n \in Nat /\ n >= 1
  BY CommandType, WordRange
<1> HIDE DEF head, addr, len, vals, far, n, p
<1>10. /\ one \in Seq(Byte) /\ Len(one) = 1 + Len(addr)
       /\ \A i \in 1 .. 1 + Len(addr) :
             one[i] = IF i <= 1 THEN head[i] ELSE addr[i - 1]
  BY <1>3, <1>4, ConcatProperties
<1> HIDE DEF one
<1>11. /\ two \in Seq(Byte) /\ Len(two) = p
       /\ \A i \in 1 .. p : two[i] = IF i <= p - 2 THEN one[i] ELSE len[i - (p - 2)]
  <2>1. Len(one) = p - 2 /\ Len(one) + 2 = p
    BY <1>4, <1>10
  <2>2. /\ two \in Seq(Byte) /\ Len(two) = Len(one) + Len(len)
        /\ \A i \in 1 .. Len(one) + Len(len) :
              two[i] = IF i <= Len(one) THEN one[i] ELSE len[i - Len(one)]
    BY <1>7, <1>10, ConcatProperties
  <2> HIDE DEF two
  <2> QED
    BY <1>7, <2>1, <2>2
<1> HIDE DEF two
<1>12. /\ all \in Seq(Byte) /\ Len(all) = p + Len(vals)
       /\ \A i \in 1 .. p + Len(vals) :
             all[i] = IF i <= p THEN two[i] ELSE vals[i - p]
  BY <1>8, <1>11, ConcatProperties, ZenonT(60)
<1> HIDE DEF all
<1>13. Len(vals) \in Nat
  BY <1>8, <1>9
<1>14. all[1] = HeaderByte(cmd)
  BY <1>3, <1>4, <1>10, <1>11, <1>12, <1>13
<1>15. far => all[2] = cmd.address % 256 /\ all[3] = cmd.address \div 256
  <2>1. ASSUME far
        PROVE  all[2] = addr[1] /\ all[3] = addr[2]
    BY <1>4, <1>10, <1>11, <1>12, <1>13, <2>1
  <2> QED
    BY <1>4, <2>1, Zenon
<1>16. ~far => all[2] = cmd.address
  <2>1. ASSUME ~far
        PROVE  all[2] = addr[1]
    BY <1>4, <1>10, <1>11, <1>12, <1>13, <2>1
  <2> QED
    BY <1>4, <2>1, Zenon
<1>17. all[p - 1] = low /\ all[p] = high
  BY <1>4, <1>7, <1>11, <1>12, <1>13
<1>18. cmd.write => \A k \in 1 .. n : all[p + k] = k % 256
  <2>1. ASSUME cmd.write, NEW k \in 1 .. n
        PROVE  all[p + k] = vals[k]
    <3>1. /\ p + k \in 1 .. p + Len(vals) /\ ~(p + k <= p) /\ (p + k) - p = k
      BY <1>4, <1>8, <1>9, <2>1
    <3> QED
      BY <1>12, <3>1
  <2> QED
    BY <1>8, <2>1, Zenon
<1>19. Len(all) = Total(cmd)
  BY <1>8, <1>12 DEF Total, n, p
<1> QED
  BY <1>1, <1>5, <1>12, <1>14, <1>15, <1>16, <1>17, <1>18, <1>19, Zenon DEF far, n, p

(* What is left of a command when n bytes were sent.                       *)
Rest(cmd, n) == SubSeq(BytesOf(cmd), n + 1, Len(BytesOf(cmd)))

LEMMA RestFacts ==
    ASSUME NEW cmd \in Command
    PROVE  /\ Total(cmd) \in Nat /\ Preamble(cmd) \in 4 .. 5
           /\ Total(cmd) = IF cmd.write THEN Preamble(cmd) + cmd.length ELSE Preamble(cmd)
           /\ Rest(cmd, 0) = BytesOf(cmd) /\ Rest(cmd, 0) # <<>>
           /\ Rest(cmd, Total(cmd)) = <<>>
           /\ \A n \in 0 .. Total(cmd) - 1 :
                 /\ Rest(cmd, n) # <<>>
                 /\ Head(Rest(cmd, n)) = BytesOf(cmd)[n + 1]
                 /\ Tail(Rest(cmd, n)) = Rest(cmd, n + 1)
<1> DEFINE bytes == BytesOf(cmd)
           m == Total(cmd)
<1>1. bytes \in Seq(Byte) /\ Len(bytes) = m
  BY BytesFacts
<1>2. /\ m \in Nat /\ m >= 4 /\ Preamble(cmd) \in 4 .. 5
      /\ m = IF cmd.write THEN Preamble(cmd) + cmd.length ELSE Preamble(cmd)
  <2>1. cmd.length \in Nat
    BY CommandType, WordRange
  <2> QED
    BY <2>1 DEF Total, Preamble
<1>3. \A n : Rest(cmd, n) = SubSeq(bytes, n + 1, m)
  BY <1>1 DEF Rest
<1> HIDE DEF bytes, m
<1>4. Rest(cmd, 0) = bytes
  <2>1. Rest(cmd, 0) = SubSeq(bytes, 1, m)
    BY <1>3
  <2> QED
    BY <1>1, <2>1, SubSeqFull
<1>5. Rest(cmd, m) = <<>>
  <2>1. m + 1 \in Int /\ m \in Int /\ m < m + 1
    BY <1>2
  <2> QED
    BY <1>3, <2>1, SubSeqEmpty
<1>6. ASSUME NEW n \in 0 .. m - 1
      PROVE  /\ Rest(cmd, n) # <<>>
             /\ Head(Rest(cmd, n)) = bytes[n + 1]
             /\ Tail(Rest(cmd, n)) = Rest(cmd, n + 1)
  <2> DEFINE k == n + 1
  <2>1. k \in 1 .. Len(bytes) /\ m \in k .. Len(bytes)
    BY <1>1, <1>2
  <2>2. Rest(cmd, n) = SubSeq(bytes, k, m) /\ Rest(cmd, n + 1) = SubSeq(bytes, k + 1, m)
    BY <1>3
  <2> HIDE DEF k
  <2>3. /\ Head(SubSeq(bytes, k, m)) = bytes[k]
        /\ Tail(SubSeq(bytes, k, m)) = SubSeq(bytes, k + 1, m)
    BY <1>1, <2>1, HeadTailOfSubSeq
  <2>4. SubSeq(bytes, k, m) # <<>>
    <3>1. k \in Int /\ m \in Int /\ \A i \in k .. m : bytes[i] \in Byte
      BY <1>1, <1>2, <2>1, ElementOfSeq
    <3>2. Len(SubSeq(bytes, k, m)) = IF k <= m THEN m - k + 1 ELSE 0
      BY <3>1, SubSeqProperties
    <3>3. k <= m /\ m - k + 1 # 0
      BY <1>1, <1>2, <2>1
    <3>4. Len(SubSeq(bytes, k, m)) # 0
      BY <3>2, <3>3
    <3>5. Len(<<>>) = 0
      BY EmptySeq
    <3> QED
      BY <3>4, <3>5, Zenon
  <2> QED
    BY <2>2, <2>3, <2>4 DEF k
<1>7. Rest(cmd, 0) # <<>>
  <2>1. 0 \in 0 .. m - 1
    BY <1>2
  <2> QED
    BY <1>6, <2>1
<1> QED
  BY <1>2, <1>4, <1>5, <1>6, <1>7 DEF bytes, m

-----------------------------------------------------------------------------
(* The addresses of a command, and the writes it asks for.                 *)

LEMMA AddressFacts ==
    ASSUME NEW cmd \in Command, NEW k \in Nat, k >= 1
    PROVE  /\ AddressAt(cmd, k) \in Word16
           /\ AddressAt(cmd, 1) = cmd.address
           /\ cmd.increment => Up(AddressAt(cmd, k)) = AddressAt(cmd, k + 1)
           /\ ~cmd.increment => AddressAt(cmd, k) = cmd.address
<1>1. cmd.address \in Word16 /\ cmd.address \in Nat /\ cmd.address <= 65535
  BY CommandType, WordRange
<1>2. PICK n \in Nat : n = cmd.address + k - 1
  <2>1. cmd.address + k - 1 \in Nat
    BY <1>1
  <2> QED
    BY <2>1
<1>3. CASE cmd.increment
  <2>1. /\ AddressAt(cmd, k) = n % 65536
        /\ AddressAt(cmd, k + 1) = (cmd.address + (k + 1) - 1) % 65536
        /\ AddressAt(cmd, 1) = (cmd.address + 1 - 1) % 65536
    BY <1>2, <1>3 DEF AddressAt, Modulus
  <2>2. cmd.address + (k + 1) - 1 = n + 1 /\ cmd.address + 1 - 1 = cmd.address
    BY <1>1, <1>2
  <2>3. cmd.address % 65536 = cmd.address
    <3>1. 65536 \in Nat /\ 65536 >= 1 /\ cmd.address < 65536
      BY <1>1
    <3> QED
      BY <1>1, <3>1, SmallRemainder
  <2>4. n % 65536 \in Word16
    BY SixteenBits, WordRange
  <2> QED
    BY <1>3, <2>1, <2>2, <2>3, <2>4, UpOfRemainder
<1>4. CASE ~cmd.increment
  BY <1>1, <1>4 DEF AddressAt
<1> QED
  BY <1>3, <1>4

(* An incrementing command does not come back to an address.               *)
LEMMA AddressesDiffer ==
    ASSUME NEW cmd \in Command, cmd.increment,
           NEW i \in Nat, NEW k \in Nat, 1 <= i, i < k, k <= 65535
    PROVE  AddressAt(cmd, i) # AddressAt(cmd, k)
<1>1. cmd.address \in Nat
  BY CommandType, WordRange
<1>2. PICK m \in Nat, n \in Nat : m = cmd.address + i - 1 /\ n = cmd.address + k - 1
  <2>1. cmd.address + i - 1 \in Nat /\ cmd.address + k - 1 \in Nat
    BY <1>1
  <2> QED
    BY <2>1
<1>3. AddressAt(cmd, i) = m % 65536 /\ AddressAt(cmd, k) = n % 65536
  BY <1>2 DEF AddressAt, Modulus
<1>4. m < n /\ n - m < 65536
  BY <1>1, <1>2
<1> QED
  BY <1>3, <1>4, RemaindersDiffer

(* A write as the register file is to see it.                              *)
Write == [address : Word16, value : Nat, last : BOOLEAN]

WriteAt(cmd, k) ==
    [address |-> AddressAt(cmd, k), value |-> k % 256, last |-> k = cmd.length]

(* The writes of a command but for its first n.                            *)
RestOfWrites(cmd, n) == SubSeq(Writes(cmd), n + 1, cmd.length)

LEMMA WritesFacts ==
    ASSUME NEW cmd \in Command
    PROVE  /\ Writes(cmd) \in Seq(Write) /\ Len(Writes(cmd)) = cmd.length
           /\ \A k \in 1 .. cmd.length : Writes(cmd)[k] = WriteAt(cmd, k)
<1>1. cmd.length \in Nat
  BY CommandType, WordRange
<1>2. \A k \in 1 .. cmd.length : WriteAt(cmd, k) \in Write
  <2> TAKE k \in 1 .. cmd.length
  <2>1. k \in Nat /\ k >= 1
    BY <1>1
  <2>2. AddressAt(cmd, k) \in Word16 /\ k % 256 \in Nat
    BY <2>1, AddressFacts, LowByte
  <2>3. (k = cmd.length) \in BOOLEAN
    OBVIOUS
  <2> QED
    BY <2>2, <2>3, Zenon DEF Write, WriteAt
<1>3. Writes(cmd) = [k \in 1 .. cmd.length |-> WriteAt(cmd, k)]
  BY DEF Writes, WriteAt
<1>4. Writes(cmd) \in [1 .. cmd.length -> Write]
  BY <1>2, <1>3, Zenon
<1>5. Writes(cmd) \in Seq(Write) /\ Len(Writes(cmd)) = cmd.length
  BY <1>1, <1>3, <1>4
<1>6. \A k \in 1 .. cmd.length : Writes(cmd)[k] = WriteAt(cmd, k)
  BY <1>3, Zenon
<1> QED
  BY <1>5, <1>6

LEMMA RestOfWritesFacts ==
    ASSUME NEW cmd \in Command
    PROVE  /\ RestOfWrites(cmd, 0) = Writes(cmd)
           /\ RestOfWrites(cmd, cmd.length) = <<>>
           /\ \A n \in 0 .. cmd.length : RestOfWrites(cmd, n) \in Seq(Write)
           /\ \A n \in 0 .. cmd.length - 1 :
                 /\ RestOfWrites(cmd, n) # <<>>
                 /\ Head(RestOfWrites(cmd, n)) = WriteAt(cmd, n + 1)
                 /\ Tail(RestOfWrites(cmd, n)) = RestOfWrites(cmd, n + 1)
<1> DEFINE w == Writes(cmd)
           m == cmd.length
<1>1. m \in Nat /\ w \in Seq(Write) /\ Len(w) = m
  BY CommandType, WordRange, WritesFacts
<1>2. \A k \in 1 .. m : w[k] = WriteAt(cmd, k)
  BY WritesFacts
<1>3. \A n : RestOfWrites(cmd, n) = SubSeq(w, n + 1, m)
  BY DEF RestOfWrites
<1> HIDE DEF w, m
<1>4. RestOfWrites(cmd, 0) = w
  <2>1. RestOfWrites(cmd, 0) = SubSeq(w, 1, m)
    BY <1>3
  <2> QED
    BY <1>1, <2>1, SubSeqFull
<1>5. RestOfWrites(cmd, m) = <<>>
  <2>1. m + 1 \in Int /\ m \in Int /\ m < m + 1
    BY <1>1
  <2> QED
    BY <1>3, <2>1, SubSeqEmpty
<1>6. ASSUME NEW n \in 0 .. m - 1
      PROVE  /\ RestOfWrites(cmd, n) # <<>> /\ RestOfWrites(cmd, n) \in Seq(Write)
             /\ Head(RestOfWrites(cmd, n)) = WriteAt(cmd, n + 1)
             /\ Tail(RestOfWrites(cmd, n)) = RestOfWrites(cmd, n + 1)
  <2> DEFINE k == n + 1
  <2>1. k \in 1 .. Len(w) /\ m \in k .. Len(w) /\ k \in 1 .. m
    BY <1>1
  <2>2. RestOfWrites(cmd, n) = SubSeq(w, k, m) /\ RestOfWrites(cmd, n + 1) = SubSeq(w, k + 1, m)
    BY <1>3
  <2> HIDE DEF k
  <2>3. /\ Head(SubSeq(w, k, m)) = w[k]
        /\ Tail(SubSeq(w, k, m)) = SubSeq(w, k + 1, m)
    BY <1>1, <2>1, HeadTailOfSubSeq
  <2>4. SubSeq(w, k, m) # <<>> /\ SubSeq(w, k, m) \in Seq(Write)
    <3>1. k \in Int /\ m \in Int /\ \A i \in k .. m : w[i] \in Write
      BY <1>1, <2>1, ElementOfSeq
    <3>2. /\ SubSeq(w, k, m) \in Seq(Write)
          /\ Len(SubSeq(w, k, m)) = IF k <= m THEN m - k + 1 ELSE 0
      BY <3>1, SubSeqProperties
    <3>3. k <= m /\ m - k + 1 # 0
      BY <1>1, <2>1
    <3>4. Len(SubSeq(w, k, m)) # 0
      BY <3>2, <3>3
    <3>5. Len(<<>>) = 0
      BY EmptySeq
    <3>6. SubSeq(w, k, m) # <<>>
      BY <3>4, <3>5, Zenon
    <3> QED
      BY <3>2, <3>6
  <2> QED
    BY <1>2, <2>1, <2>2, <2>3, <2>4 DEF k
<1>7. \A n \in 0 .. m : RestOfWrites(cmd, n) \in Seq(Write)
  <2> TAKE n \in 0 .. m
  <2>1. CASE n = m
    BY <1>5, <2>1, EmptySeq
  <2>2. CASE n # m
    <3>1. n \in 0 .. m - 1
      BY <1>1, <2>2
    <3> QED
      BY <1>6, <3>1
  <2> QED
    BY <2>1, <2>2
<1> QED
  BY <1>4, <1>5, <1>6, <1>7 DEF w, m

-----------------------------------------------------------------------------
(* The read buffer is a FwftFifo of four words.                            *)

LEMMA BufferIsFifo ==
    /\ Fifo!Slot = Facts!Slot
    /\ \A m, d : Fifo!FreshFifo(m, d) = Facts!FreshFifo(m, d)
    /\ \A f : Fifo!Contents(f) = Facts!Contents(f)
    /\ \A f, w, r, d : Fifo!Clock(f, w, r, d) = Facts!Clock(f, w, r, d)
  BY DEF Fifo!Slot, Facts!Slot,
         Fifo!FreshFifo, Facts!FreshFifo, Fifo!ResetFlags, Facts!ResetFlags,
         Fifo!Contents, Facts!Contents,
         Fifo!Held, Facts!Held, Fifo!Forward, Facts!Forward,
         Fifo!Clock, Facts!Clock, Fifo!Clocked, Facts!Clocked,
         Fifo!Reading, Facts!Reading, Fifo!Writing, Facts!Writing,
         Fifo!NextFlags, Facts!NextFlags, Fifo!NextMem, Facts!NextMem,
         Fifo!NextDataOut, Facts!NextDataOut, Fifo!NextCount, Facts!NextCount,
         Fifo!WriteInToOut, Facts!WriteInToOut, Fifo!Back, Facts!Back

Held(f) == Fifo!Contents(f)

One(b) == IF b THEN 1 ELSE 0

LEMMA BufferOutputs ==
    ASSUME NEW f, Sound(f)
    PROVE  /\ f.rd_data_count \in 0 .. 4
           /\ f.data_out \in Byte
           /\ f.flags.full \in BOOLEAN /\ f.flags.almost_full \in BOOLEAN
           /\ f.flags.empty \in BOOLEAN
           /\ f.flags.full <=> f.rd_data_count = 4
           /\ f.flags.almost_full <=> f.rd_data_count >= 3
           /\ f.flags.empty <=> f.rd_data_count = 0
           /\ Held(f) \in Seq(Byte) /\ Len(Held(f)) = f.rd_data_count
           /\ f.rd_data_count >= 1 => f.data_out = Held(f)[1]
<1> DEFINE c == Facts!Contents(f)
<1>1. f \in Facts!FifoState /\ Facts!Distance(f) /\ Facts!FlagsExact(f)
  BY DEF Sound, Facts!Sound
<1>2. c \in Seq(Byte) /\ Len(c) = f.rd_data_count
  BY <1>1, Facts!ContentsSequence
<1>3. c # <<>> => f.data_out = Head(c)
  BY <1>1, Facts!OutputsOfContents
<1>4. /\ f.rd_data_count \in 0 .. 4 /\ f.data_out \in Byte
      /\ f.flags.full \in BOOLEAN /\ f.flags.almost_full \in BOOLEAN
      /\ f.flags.empty \in BOOLEAN
  BY <1>1 DEF Facts!FifoState, Facts!Flags
<1>5. Held(f) = c
  BY BufferIsFifo DEF Held
<1>6. /\ f.flags.full = (f.rd_data_count = 4)
      /\ f.flags.almost_full = (f.rd_data_count >= 4 - 1)
      /\ f.flags.empty = (f.rd_data_count = 0)
  BY <1>1 DEF Facts!FlagsExact
<1> HIDE DEF c
<1>7. f.rd_data_count >= 1 => f.data_out = c[1]
  BY <1>2, <1>3, EmptySeq
<1>8. 4 - 1 = 3
  OBVIOUS
<1> QED
  BY <1>2, <1>4, <1>5, <1>6, <1>7, <1>8

(* One edge, index by index: pop says that a word leaves, push that one is *)
(* taken in.                                                               *)
LEMMA BufferClock ==
    ASSUME NEW f, Sound(f), NEW wr \in BOOLEAN, NEW rd \in BOOLEAN,
           NEW d \in Byte, NEW g, g = Fifo!Clock(f, wr, rd, d),
           NEW pop \in BOOLEAN, pop <=> rd /\ f.rd_data_count >= 1,
           NEW push \in BOOLEAN, push <=> wr /\ f.rd_data_count < 4
    PROVE  /\ Sound(g)
           /\ g.rd_data_count = f.rd_data_count - One(pop) + One(push)
           /\ \A k \in 1 .. g.rd_data_count :
                 Held(g)[k] = IF k + One(pop) <= f.rd_data_count
                              THEN Held(f)[k + One(pop)] ELSE d
<1> DEFINE n == f.rd_data_count
           s == Held(f)
           t == Held(g)
           left == IF rd /\ s # <<>> THEN Tail(s) ELSE s
           new == IF wr /\ Len(s) < 4 THEN <<d>> ELSE <<>>
<1>1. g = Facts!Clock(f, wr, rd, d)
  BY BufferIsFifo
<1>2. s = Facts!Contents(f) /\ t = Facts!Contents(g)
  BY BufferIsFifo DEF Held
<1>3. Sound(g) /\ t = left \o new
  <2>1. 4 \in Nat /\ 4 >= 2
    OBVIOUS
  <2>2. /\ Facts!Sound(Facts!Clock(f, wr, rd, d))
        /\ Facts!Contents(Facts!Clock(f, wr, rd, d)) =
              (IF rd /\ Facts!Contents(f) # <<>>
               THEN Tail(Facts!Contents(f)) ELSE Facts!Contents(f))
              \o (IF wr /\ Len(Facts!Contents(f)) < 4 THEN <<d>> ELSE <<>>)
    BY <2>1, Facts!ClockSound, ZenonT(60) DEF Sound
  <2> QED
    BY <1>1, <1>2, <2>2 DEF Sound
<1>4. /\ n \in 0 .. 4 /\ s \in Seq(Byte) /\ Len(s) = n
      /\ t \in Seq(Byte) /\ Len(t) = g.rd_data_count
  BY <1>3, BufferOutputs
<1> HIDE DEF s, t
<1>5. s # <<>> <=> n >= 1
  BY <1>4, EmptySeq
<1>6. /\ left \in Seq(Byte) /\ Len(left) = n - One(pop)
      /\ \A k \in 1 .. n - One(pop) : left[k] = s[k + One(pop)]
  <2>1. CASE pop
    <3>1. rd /\ s # <<>>
      BY <1>5, <2>1
    <3>2. left = Tail(s) /\ One(pop) = 1
      BY <2>1, <3>1 DEF One
    <3> HIDE DEF left
    <3> QED
      BY <1>4, <3>1, <3>2, HeadTailProperties
  <2>2. CASE ~pop
    <3>1. left = s /\ One(pop) = 0
      BY <1>5, <2>2 DEF One
    <3> QED
      BY <1>4, <3>1
  <2> QED
    BY <2>1, <2>2
<1>7. /\ new \in Seq(Byte) /\ Len(new) = One(push)
      /\ push => new[1] = d
  <2>1. CASE push
    <3>1. new = <<d>> /\ One(push) = 1
      BY <1>4, <2>1 DEF One
    <3>2. <<d>> \in Seq(Byte) /\ Len(<<d>>) = 1 /\ <<d>>[1] = d
      OBVIOUS
    <3> HIDE DEF new
    <3> QED
      BY <3>1, <3>2, Zenon
  <2>2. CASE ~push
    <3>1. new = <<>> /\ One(push) = 0
      BY <1>4, <2>2 DEF One
    <3> QED
      BY <2>2, <3>1, EmptySeq
  <2> QED
    BY <2>1, <2>2
<1> HIDE DEF left, new
<1>8. /\ Len(t) = Len(left) + Len(new)
      /\ \A i \in 1 .. Len(left) + Len(new) :
            t[i] = IF i <= Len(left) THEN left[i] ELSE new[i - Len(left)]
  BY <1>3, <1>6, <1>7, ConcatProperties
<1>9. One(pop) \in 0 .. 1 /\ One(push) \in 0 .. 1 /\ (One(push) = 1 <=> push)
  BY DEF One
<1>10. g.rd_data_count = n - One(pop) + One(push)
  BY <1>4, <1>6, <1>7, <1>8
<1>11. ASSUME NEW k \in 1 .. g.rd_data_count
       PROVE  t[k] = IF k + One(pop) <= n THEN s[k + One(pop)] ELSE d
  <2>1. k \in 1 .. Len(left) + Len(new)
    BY <1>4, <1>8
  <2>2. CASE k + One(pop) <= n
    <3>1. k \in 1 .. n - One(pop) /\ k <= Len(left)
      BY <1>4, <1>6, <1>9, <2>2
    <3> QED
      BY <1>6, <1>8, <2>1, <2>2, <3>1
  <2>3. CASE ~(k + One(pop) <= n)
    <3>1. ~(k <= Len(left)) /\ k - Len(left) = 1 /\ push
      BY <1>4, <1>6, <1>9, <1>10, <2>3
    <3> QED
      BY <1>7, <1>8, <2>1, <2>3, <3>1
  <2> QED
    BY <2>2, <2>3
<1> QED
  BY <1>3, <1>10, <1>11 DEF s, t

-----------------------------------------------------------------------------
(* Every step keeps the types.                                             *)

LEMMA FifoWordType ==
    \A n \in 0 .. FifoWords - 1 : /\ n \in Byte
                                  /\ (n + 1) % FifoWords \in 0 .. FifoWords - 1
<1> SUFFICES ASSUME NEW n \in 0 .. FifoWords - 1
             PROVE  n \in Byte /\ (n + 1) % FifoWords \in 0 .. FifoWords - 1
  OBVIOUS
<1>1. FifoWords \in Nat /\ FifoWords >= 1 /\ FifoWords <= 256
  BY RfgAssumption
<1>2. n \in Nat /\ n <= 255 /\ n + 1 \in Nat
  BY <1>1
<1>3. \A f, m \in Nat : f >= 1 => m % f \in 0 .. f - 1
  OBVIOUS
<1> QED
  BY <1>1, <1>2, <1>3, ByteRange

LEMMA DecodeTypes ==
    ASSUME Typed, ReadSound, m_axis_tdest \in Host \cup {0},
           NEW take \in BOOLEAN, NEW byte \in Byte, NEW tid \in Host \cup {0},
           NEW tready \in BOOLEAN, Decode(take, byte, tid, tready), Readback(tready)
    PROVE  /\ rfp_state' \in {"RFP_HEADER", "RFP_ADDRESS", "RFP_ADDRESSB",
                             "RFP_LENGTHA", "RFP_LENGTHB", "RFP_WRITE_VALUE",
                             "RFP_READ", "RFP_READ_FINISH"}
           /\ rfg_header' \in Header
           /\ rfg_address' \in Word16 /\ rfg_length' \in Word16
           /\ rfg_current_length' \in Word16 /\ rfg_master_length' \in Word16
           /\ s_axis_tready' \in BOOLEAN /\ rfg_write' \in BOOLEAN
           /\ rfg_write_last' \in BOOLEAN /\ read_buffer_write' \in BOOLEAN
           /\ rfg_write_value' \in Byte /\ read_buffer_data_in' \in Byte
           /\ m_axis_tdest' \in Host \cup {0}
<1>1. CASE RfpHeader(take, byte, tid)
  BY <1>1, HeaderType DEF RfpHeader, Typed, lengths, buffer
<1>2. CASE RfpAddress(take, byte)
  <2>1. (rfg_address \div 256) * 256 + byte \in Word16 /\ byte \in Word16
    BY Halves, Joined, ByteRange DEF Typed
  <2> QED
    BY <1>2, <2>1 DEF RfpAddress, Typed, lengths, buffer, write
<1>3. CASE RfpAddressB(take, byte)
  <2>1. byte * 256 + (rfg_address % 256) \in Word16
    BY Halves, Joined DEF Typed
  <2> QED
    BY <1>3, <2>1 DEF RfpAddressB, Typed, lengths, buffer, write
<1>4. CASE RfpLengthA(take, byte)
  <2>1. (rfg_length \div 256) * 256 + byte \in Word16
    BY Halves, Joined DEF Typed
  <2> QED
    BY <1>4, <2>1 DEF RfpLengthA, Typed, lengths, buffer, write
<1>5. CASE RfpLengthB(take, byte)
  <2>1. byte * 256 + (rfg_length % 256) \in Word16
    BY Halves, Joined DEF Typed
  <2> QED
    BY <1>5, <2>1 DEF RfpLengthB, Typed, lengths, buffer, write
<1>6. CASE RfpWriteValue(take, byte)
  <2>1. Down(rfg_current_length) \in Word16 /\ WriteAddress \in Word16
    BY Counting DEF WriteAddress, Typed
  <2> QED
    BY <1>6, <2>1 DEF RfpWriteValue, Typed, buffer
<1>7. Down(rfg_current_length) \in Word16 /\ Up(rfg_address) \in Word16
  BY Counting DEF Typed
<1>8. Answering => rfg_master_length' \in Word16
  BY Counting DEF Readback, CountDown, Typed
<1>9. full \in BOOLEAN
  BY BufferOutputs DEF full, ReadSound
<1>10. CASE RfpRead
  <2>1. Answering
    BY <1>10 DEF RfpRead, Answering
  <2> QED
    BY <1>10, <2>1, <1>7, <1>8, <1>9 DEF RfpRead, Typed, write
<1>11. CASE RfpReadFinish(tready)
  <2>1. Answering
    BY <1>11 DEF RfpReadFinish, Answering
  <2> QED
    BY <1>11, <2>1, <1>8, <1>9 DEF RfpReadFinish, Typed, write, lengths
<1> QED
  BY <1>1, <1>2, <1>3, <1>4, <1>5, <1>6, <1>10, <1>11 DEF Decode

LEMMA ReadbackTypes ==
    ASSUME Typed, ReadSound, NEW tready \in BOOLEAN, Readback(tready)
    PROVE  /\ read_buffer_read' \in BOOLEAN
           /\ m_axis_tvalid' \in BOOLEAN /\ m_axis_tlast' \in BOOLEAN
           /\ m_axis_tdata' \in Byte
<1>1. read_buffer.data_out \in Byte
  BY BufferOutputs DEF ReadSound
<1>2. CASE m_invalid
  BY <1>2 DEF m_invalid, Readback, Typed
<1>3. CASE m_write_start
  BY <1>1, <1>3 DEF m_write_start, Readback, Typed
<1>4. CASE UNCHANGED m_axis
  BY <1>4 DEF m_axis, Readback, Typed
<1> QED
  BY <1>2, <1>3, <1>4 DEF Readback

(* A word leaves the switch into an egress FIFO with room.                 *)
LEMMA LeavesFacts ==
    /\ Leaves => port # <<>> /\ transmitting /\ egress < EgressDepth
    /\ \E leaves \in BOOLEAN : leaves <=> Leaves
<1>1. \A b : \E x \in BOOLEAN : x <=> b
  OBVIOUS
<1> QED
  BY <1>1 DEF Leaves, Shown, Ready

LEMMA PortTypes ==
    ASSUME TypeInv, NEW tready \in BOOLEAN, NEW drains \in BOOLEAN,
           Switch(tready), Egress(drains), Receive
    PROVE  /\ port' \in Seq(Words) /\ Len(port') <= PortDepth
           /\ answer' \in [Host -> Seq(Words)] /\ pace' \in Nat
           /\ egress' \in 0 .. EgressDepth
           /\ {grant', transmitting', routed', stale'} \subseteq BOOLEAN
<1>0. PICK leaves \in BOOLEAN : leaves <=> Leaves
  BY LeavesFacts
<1> DEFINE left == IF leaves THEN Tail(port) ELSE port
<1>1. port \in Seq(Words) /\ Len(port) \in Nat /\ Len(port) <= PortDepth /\ pace \in Nat
  BY DEF TypeInv, TypeOK
<1>2. leaves => port # <<>>
  BY <1>0, LeavesFacts
<1>3. left \in Seq(Words) /\ Len(left) = Len(port) - One(leaves)
  BY <1>1, <1>2, HeadTailProperties DEF One
<1>4. port' = IF write_valid(tready) THEN Append(left, Out) ELSE left
  BY <1>0 DEF Switch
<1>5. Out \in Words
  BY TypeFacts DEF Out, Words, TypeInv, Typed
<1>6. /\ Append(left, Out) \in Seq(Words)
      /\ Len(Append(left, Out)) = Len(left) + 1
  BY <1>3, <1>5, AppendProperties
<1>7. write_valid(tready) => Len(port) < PortDepth
  BY DEF write_valid, Switch
<1>8. PortDepth \in Nat /\ One(leaves) \in 0 .. 1
  BY RfgAssumption DEF One
<1> HIDE DEF left
<1>9. port' \in Seq(Words) /\ Len(port') <= PortDepth
  <2>1. CASE write_valid(tready)
    <3>1. port' = Append(left, Out)
      BY <1>4, <2>1
    <3>2. Len(left) + 1 <= PortDepth
      BY <1>1, <1>3, <1>7, <1>8, <2>1
    <3> QED
      BY <1>6, <3>1, <3>2
  <2>2. CASE ~write_valid(tready)
    <3>1. port' = left
      BY <1>4, <2>2
    <3>2. Len(left) <= PortDepth
      BY <1>1, <1>3, <1>8
    <3> QED
      BY <1>3, <3>1, <3>2
  <2> QED
    BY <2>1, <2>2
<1>10. pace' \in Nat
  BY <1>1, RfgAssumption DEF Egress
<1>12. egress' \in 0 .. EgressDepth
  <2>1. /\ egress' = egress + (IF leaves THEN 1 ELSE 0) - (IF drains THEN 1 ELSE 0)
        /\ drains => egress > 0
        /\ leaves => egress < EgressDepth
    BY <1>0, LeavesFacts DEF Egress, MayDrain
  <2>2. egress \in 0 .. EgressDepth /\ EgressDepth \in Nat
    BY RfgAssumption DEF TypeInv, TypeOK
  <2> QED
    BY <2>1, <2>2
<1>14. stale' \in BOOLEAN
  <2>1. stale \in BOOLEAN
    BY TypeFacts DEF TypeInv, Typed
  <2>2. stale' \in IF port' # <<>> THEN {FALSE} ELSE IF port = <<>> THEN {stale} ELSE BOOLEAN
    BY DEF Switch
  <2> QED
    BY <2>1, <2>2, Zenon
<1>13. grant' \in BOOLEAN /\ transmitting' \in BOOLEAN /\ routed' \in BOOLEAN
  <2>1. grant \in BOOLEAN /\ transmitting \in BOOLEAN /\ routed \in BOOLEAN
    BY TypeFacts DEF TypeInv, Typed
  <2>2. /\ grant' = IF transmitting /\ ~last_data THEN grant ELSE Request /\ ~grant
        /\ transmitting' = IF Request /\ grant THEN TRUE ELSE transmitting /\ ~last_data
        /\ routed' = (grant \/ (routed /\ ~last_data))
    BY DEF Switch
  <2> QED
    BY <2>1, <2>2, Zenon
<1>11. answer' \in [Host -> Seq(Words)]
  <2>1. answer \in [Host -> Seq(Words)]
    BY DEF TypeInv
  <2>2. CASE leaves
    <3>1. Head(port) \in Words
      BY <1>1, <1>2, <2>2, HeadTailProperties
    <3>2. \A i \in Host : Append(answer[i], Head(port)) \in Seq(Words)
      BY <2>1, <3>1, AppendProperties
    <3>3. answer' = [answer EXCEPT ![Head(port).to] =
                        Append(answer[Head(port).to], Head(port))]
      BY <1>0, <2>2 DEF Receive
    <3> QED
      BY <2>1, <3>2, <3>3
  <2>3. CASE ~leaves
    BY <1>0, <2>1, <2>3 DEF Receive
  <2> QED
    BY <2>2, <2>3
<1> QED
  BY <1>9, <1>10, <1>11, <1>12, <1>13, <1>14

LEMMA RegisterTypes ==
    ASSUME TypeInv, RegisterFile
    PROVE  /\ rfg_read_valid' \in BOOLEAN /\ rfg_read_value' \in Byte
           /\ fifo_words' \in 0 .. FifoWords - 1
<1>1. rfg_address % 256 \in Byte /\ rfg_read_value \in Byte
  BY TypeFacts, Halves DEF TypeInv, Typed
<1>2. /\ fifo_words \in 0 .. FifoWords - 1 /\ fifo_words \in Byte
      /\ (fifo_words + 1) % FifoWords \in 0 .. FifoWords - 1
  BY FifoWordType DEF TypeInv
<1>3. rfg_read \in BOOLEAN
  BY DEF rfg_read
<1> QED
  BY <1>1, <1>2, <1>3, Zenon DEF RegisterFile

LEMMA BufferTypes ==
    ASSUME TypeInv, NEW tready \in BOOLEAN, ReadBuffer(tready)
    PROVE  ReadSound' /\ read_buffer'.rd_data_count \in 0 .. 4
<1>1. /\ read_buffer_write \in BOOLEAN /\ read_buffer_data_in \in Byte
      /\ ReadSound
  BY TypeFacts DEF TypeInv, Typed
<1>2. (~write_stall(tready)) \in BOOLEAN
  BY DEF write_stall
<1>3. Sound(read_buffer')
  BY <1>1, <1>2, BufferClock DEF ReadSound, ReadBuffer
<1> QED
  BY <1>3, BufferOutputs DEF ReadSound, Sound

(* All but what the hosts have yet to send.                                *)
LEMMA EdgeTypes ==
    ASSUME TypeInv, NEW valid \in BOOLEAN, NEW byte \in Byte,
           NEW tid \in Host \cup {0}, NEW tready \in BOOLEAN,
           NEW drains \in BOOLEAN, todo' \in [Host -> Seq(Byte)],
           Edge(valid, byte, tid, tready, drains)
    PROVE  TypeInv'
<1>1. Typed /\ ReadSound /\ m_axis_tdest \in Host \cup {0}
  BY TypeFacts DEF TypeInv
<1>2. (valid /\ s_axis_tready) \in BOOLEAN
  BY <1>1 DEF Typed
<1>3. /\ Decode(valid /\ s_axis_tready, byte, tid, tready) /\ Readback(tready)
      /\ ReadBuffer(tready) /\ RegisterFile
      /\ Switch(tready) /\ Egress(drains) /\ Receive /\ UNCHANGED asked
  BY DEF Edge
<1>4. Typed'
  BY <1>1, <1>2, <1>3, DecodeTypes, ReadbackTypes, RegisterTypes, BufferTypes,
     PortTypes DEF Typed
<1>5. TypeOK' <=> Typed'
  BY TypeFacts, PTL
<1>6. m_axis_tdest' \in Host \cup {0}
  BY <1>1, <1>2, <1>3, DecodeTypes
<1>7. asked' \in [Host -> {<<>>} \cup (Command \X (0 .. FifoWords - 1))]
  BY <1>3 DEF TypeInv
<1> QED
  BY <1>3, <1>4, <1>5, <1>6, <1>7, PortTypes, RegisterTypes, BufferTypes DEF TypeInv

(* An edge as the hosts see it: a byte is taken, or none.                  *)
LEMMA EdgeInputs ==
    ASSUME TypeInv, NEW drains \in BOOLEAN, Running(drains)
    PROVE  \E valid \in BOOLEAN, byte \in Byte, tid \in Host \cup {0},
                tready \in BOOLEAN :
                /\ Edge(valid, byte, tid, tready, drains)
                /\ valid => /\ tid \in Host /\ todo[tid] # <<>>
                            /\ byte = Head(todo[tid])
                /\ todo' = IF valid /\ s_axis_tready
                           THEN [todo EXCEPT ![tid] = Tail(todo[tid])] ELSE todo
<1>1. PICK tready \in BOOLEAN :
         Silent(tready, drains) \/ \E i \in Host : Send(i, tready, drains)
  BY DEF Running
<1>3. CASE Silent(tready, drains)
  <2>1. Edge(FALSE, 0, 0, tready, drains) /\ todo' = todo
    BY <1>3 DEF Silent
  <2>2. 0 \in Byte
    BY ByteRange
  <2> QED
    BY <2>1, <2>2
<1>4. ASSUME NEW i \in Host, Send(i, tready, drains)
      PROVE  \E byte \in Byte :
                /\ Edge(TRUE, byte, i, tready, drains)
                /\ todo[i] # <<>> /\ byte = Head(todo[i])
                /\ todo' = IF s_axis_tready
                           THEN [todo EXCEPT ![i] = Tail(todo[i])] ELSE todo
  <2>1. todo[i] \in Seq(Byte) /\ todo[i] # <<>>
    BY <1>4 DEF Send, TypeInv
  <2>2. Head(todo[i]) \in Byte
    BY <2>1, HeadTailProperties
  <2> QED
    BY <1>4, <2>1, <2>2 DEF Send
<1>5. CASE \E i \in Host : Send(i, tready, drains)
  <2>1. PICK i \in Host : Send(i, tready, drains)
    BY <1>5
  <2>2. PICK byte \in Byte :
                /\ Edge(TRUE, byte, i, tready, drains)
                /\ todo[i] # <<>> /\ byte = Head(todo[i])
                /\ todo' = IF s_axis_tready
                           THEN [todo EXCEPT ![i] = Tail(todo[i])] ELSE todo
    BY <1>4, <2>1
  <2>3. i \in Host \cup {0} /\ TRUE \in BOOLEAN
    OBVIOUS
  <2> QED
    BY <2>2, <2>3
<1> QED
  BY <1>1, <1>3, <1>5

LEMMA RunningTypes ==
    ASSUME TypeInv, NEW drains \in BOOLEAN, Running(drains)
    PROVE  TypeInv'
<1>1. PICK valid \in BOOLEAN, byte \in Byte, tid \in Host \cup {0},
           tready \in BOOLEAN :
         /\ Edge(valid, byte, tid, tready, drains)
         /\ valid => tid \in Host /\ todo[tid] # <<>>
         /\ todo' = IF valid /\ s_axis_tready
                    THEN [todo EXCEPT ![tid] = Tail(todo[tid])] ELSE todo
  BY EdgeInputs
<1>3. todo \in [Host -> Seq(Byte)]
  BY DEF TypeInv
<1>4. valid => Tail(todo[tid]) \in Seq(Byte)
  BY <1>1, <1>3, HeadTailProperties
<1>5. todo' \in [Host -> Seq(Byte)]
  BY <1>1, <1>3, <1>4
<1> QED
  BY <1>1, <1>5, EdgeTypes

LEMMA AskTypes ==
    ASSUME TypeInv, NEW i \in Host, NEW cmd \in Command, Ask(i, cmd)
    PROVE  TypeInv'
<1>1. /\ todo' = [todo EXCEPT ![i] = BytesOf(cmd)]
      /\ asked' = [asked EXCEPT ![i] = <<cmd, fifo_words>>]
      /\ answer' = [answer EXCEPT ![i] = <<>>]
      /\ UNCHANGED <<decoder, rfg, switch>>
  BY DEF Ask
<1>2. BytesOf(cmd) \in Seq(Byte)
  BY BytesFacts
<1>3. <<>> \in Seq(Words)
  BY EmptySeq
<1>4. todo' \in [Host -> Seq(Byte)]
  BY <1>1, <1>2 DEF TypeInv
<1>5. answer' \in [Host -> Seq(Words)]
  BY <1>1, <1>3 DEF TypeInv
<1>6. asked' \in [Host -> {<<>>} \cup (Command \X (0 .. FifoWords - 1))]
  BY <1>1 DEF TypeInv
<1>7. TypeOK' /\ ReadSound' /\ m_axis_tdest' \in Host \cup {0}
      /\ fifo_words' \in 0 .. FifoWords - 1 /\ pace' \in Nat /\ port' \in Seq(Words)
  BY <1>1 DEF TypeInv, TypeOK, ReadSound, Sound, decoder, lengths, write, buffer,
              m_axis, rfg, switch
<1> QED
  BY <1>4, <1>5, <1>6, <1>7 DEF TypeInv

LEMMA InitTypes == Init => TypeInv
<1> SUFFICES ASSUME Init
             PROVE  TypeInv
  OBVIOUS
<1>1. 0 \in Byte /\ 0 \in Word16
  BY ByteRange
<1>2. Sound(read_buffer) /\ read_buffer.rd_data_count \in 0 .. 4
  <2>1. [k \in Facts!Slot |-> 0] \in [Facts!Slot -> Byte]
    BY <1>1
  <2>2. read_buffer = Facts!FreshFifo([k \in Facts!Slot |-> 0], 0)
    BY BufferIsFifo DEF Init
  <2>3. 4 \in Nat /\ 4 >= 2
    OBVIOUS
  <2>4. Sound(read_buffer)
    BY <1>1, <2>1, <2>2, <2>3, Facts!FreshSound DEF Sound
  <2> QED
    BY <2>4, BufferOutputs
<1>3. rfg_header \in Header
  BY <1>1, HeaderType DEF Init
<1>4. /\ PortDepth \in Nat /\ PortDepth >= 1 /\ FifoWords \in Nat /\ FifoWords >= 1
      /\ EgressDepth \in Nat
  BY RfgAssumption
<1>5. Typed
  <2>1. port = <<>>
    BY DEF Init
  <2>2. /\ Len(port) <= PortDepth /\ egress \in 0 .. EgressDepth
        /\ {grant, transmitting, routed, stale} \subseteq BOOLEAN
    <3>1. Len(port) <= PortDepth
      BY <1>4, <2>1
    <3>2. egress \in 0 .. EgressDepth
      BY <1>4 DEF Init
    <3>3. {grant, transmitting, routed, stale} \subseteq BOOLEAN
      BY Zenon DEF Init
    <3> QED
      BY <3>1, <3>2, <3>3
  <2>3. /\ rfg_address \in Word16 /\ rfg_length \in Word16
        /\ rfg_current_length \in Word16 /\ rfg_master_length \in Word16
        /\ rfg_write_value \in Byte /\ read_buffer_data_in \in Byte
        /\ m_axis_tdata \in Byte /\ rfg_read_value \in Byte
    BY <1>1 DEF Init
  <2>4. /\ s_axis_tready \in BOOLEAN /\ rfg_write \in BOOLEAN
        /\ rfg_write_last \in BOOLEAN /\ read_buffer_write \in BOOLEAN
        /\ read_buffer_read \in BOOLEAN /\ m_axis_tvalid \in BOOLEAN
        /\ m_axis_tlast \in BOOLEAN /\ rfg_read_valid \in BOOLEAN
        /\ rfp_state = "RFP_HEADER"
    BY DEF Init
  <2> QED
    BY <1>2, <1>3, <2>2, <2>3, <2>4 DEF Typed
<1>6. 0 \in 0 .. FifoWords - 1
  BY <1>4
<1> QED
  BY <1>2, <1>5, <1>6, EmptySeq, TypeFacts DEF Init, TypeInv, ReadSound

LEMMA StepTypes == TypeInv /\ [Next]_vars => TypeInv'
<1> SUFFICES ASSUME TypeInv, [Next]_vars
             PROVE  TypeInv'
  OBVIOUS
<1>1. ASSUME NEW drains \in BOOLEAN, Running(drains)
      PROVE  TypeInv'
  BY <1>1, RunningTypes
<1>2. ASSUME NEW i \in Host, NEW cmd \in Command, Ask(i, cmd)
      PROVE  TypeInv'
  BY <1>2, AskTypes
<1>3. CASE UNCHANGED vars
  BY <1>3 DEF vars, decoder, lengths, write, buffer, m_axis, rfg, switch, hosts,
              TypeInv, TypeOK, ReadSound, Sound
<1> QED
  BY <1>1, <1>2, <1>3 DEF Next

LEMMA TypesAlways == Spec => []TypeInv
  BY InitTypes, StepTypes, PTL DEF Spec

(* The registers of rfg_axis_protocol.sv keep their widths, its read       *)
(* buffer and the switch's input FIFO are never overfilled: for any hosts, *)
(* any commands and any pattern of stalls.                                 *)
THEOREM TypeCorrect == Spec => []TypeOK
<1>1. TypeInv => TypeOK
  BY DEF TypeInv
<1> QED
  BY <1>1, TypesAlways, PTL

-----------------------------------------------------------------------------
(* One host, h, that awaits its answers.  Its last command is cmd, which   *)
(* it gave when `first` words had been taken from the FIFO register.       *)

HeaderKept(cmd) ==
    rfg_header = [write |-> cmd.write, read |-> ~cmd.write,
                  increment |-> cmd.increment, extended |-> cmd.address > 255]

(* Values of the present write that were taken.                            *)
Taking(cmd) == cmd.length - rfg_current_length

(* What the decoder has taken of the command, and what the host still      *)
(* sends of it.                                                            *)
Decoding(h, cmd) ==
    /\ rfp_state = "RFP_HEADER" => todo[h] = <<>> \/ todo[h] = Rest(cmd, 0)
    /\ rfp_state = "RFP_ADDRESS" => todo[h] = Rest(cmd, 1)
    /\ rfp_state = "RFP_ADDRESSB" =>
          /\ todo[h] = Rest(cmd, 2) /\ cmd.address > 255
          /\ rfg_address % 256 = cmd.address % 256
    /\ rfp_state = "RFP_LENGTHA" =>
          todo[h] = Rest(cmd, Preamble(cmd) - 2) /\ rfg_address = cmd.address
    /\ rfp_state = "RFP_LENGTHB" =>
          /\ todo[h] = Rest(cmd, Preamble(cmd) - 1) /\ rfg_address = cmd.address
          /\ rfg_length % 256 = cmd.length % 256
    /\ rfp_state = "RFP_WRITE_VALUE" =>
          /\ cmd.write
          /\ rfg_current_length >= 1 /\ rfg_current_length <= cmd.length
          /\ todo[h] = Rest(cmd, Preamble(cmd) + Taking(cmd))
          /\ rfg_write => Taking(cmd) >= 1
          /\ rfg_address = AddressAt(cmd, IF rfg_write THEN Taking(cmd)
                                                       ELSE Taking(cmd) + 1)
    /\ Answering => ~cmd.write /\ todo[h] = <<>>
    /\ rfp_state # "RFP_HEADER" => HeaderKept(cmd) /\ m_axis_tdest = h

(* The writes still due but for the one on its way to the register file:   *)
(* those whose value was not taken.                                        *)
Left == IF rfg_write THEN Tail(due) ELSE due

Begun(h, cmd) == IF rfp_state = "RFP_WRITE_VALUE" THEN Taking(cmd)
                 ELSE IF todo[h] = <<>> THEN cmd.length ELSE 0

WritesDue(h, cmd) ==
    /\ due \in Seq(Write)
    /\ WritesAsCommanded
    /\ rfg_write => rfp_state \in {"RFP_HEADER", "RFP_WRITE_VALUE"}
    /\ Left = IF cmd.write THEN RestOfWrites(cmd, Begun(h, cmd)) ELSE <<>>

(* The words of an answer are, from the oldest: with the host, in the      *)
(* switch, on m_axis, in the read buffer, on their way into it, and in the *)
(* register file.                                                          *)
Received(h)  == Len(answer[h])
Forwarded(h) == Received(h) + Len(port)
Offered(h)   == Forwarded(h) + One(m_axis_tvalid)
Buffered(h)  == Offered(h) + read_buffer.rd_data_count
Entering(h)  == Buffered(h) + One(read_buffer_write)
ReadOut(h)   == Entering(h) + One(rfg_read_valid)

Value(cmd, first, k) == Answer(cmd, first, k).value

WordOf(h, cmd, first, k) ==
    [value |-> Value(cmd, first, k), last |-> k = cmd.length, to |-> h]

(* Each place holds the words that are its turn.                           *)
WordsInPlace(h, cmd, first) ==
    /\ \A k \in 1 .. Received(h) : answer[h][k] = WordOf(h, cmd, first, k)
    /\ \A k \in 1 .. Len(port) :
          port[k] = WordOf(h, cmd, first, Received(h) + k)
    /\ m_axis_tvalid => /\ m_axis_tdata = Value(cmd, first, Offered(h))
                        /\ m_axis_tlast = (Offered(h) = cmd.length)
    /\ \A k \in 1 .. read_buffer.rd_data_count :
          Held(read_buffer)[k] = Value(cmd, first, Offered(h) + k)
    /\ read_buffer_write => read_buffer_data_in = Value(cmd, first, Entering(h))
    /\ rfg_read_valid => rfg_read_value = Value(cmd, first, ReadOut(h))

(* How far the read is.                                                    *)
ReadOn(h, cmd, first) ==
    /\ rfg_current_length + ReadOut(h) = cmd.length
    /\ rfg_master_length + Offered(h) = cmd.length
    /\ rfp_state = "RFP_READ" =>
          /\ rfg_current_length >= 1
          /\ rfg_address = AddressAt(cmd, ReadOut(h) + 1)
    /\ rfp_state = "RFP_READ_FINISH" => rfg_current_length = 0
    /\ cmd.increment /\ (\A k \in 1 .. ReadOut(h) : AddressAt(cmd, k) # FifoAddress)
          => fifo_words = first
    /\ ~cmd.increment /\ cmd.address = FifoAddress =>
          fifo_words = (first + ReadOut(h)) % FifoWords

(* The switch grants the way to the answer, transmits until the word with  *)
(* tlast has been shown, and finds an egress FIFO that was empty.          *)
Switching(h, cmd) ==
    /\ routed = transmitting
    /\ grant => Request
    /\ transmitting => Received(h) < cmd.length /\ Forwarded(h) >= 1
    /\ Received(h) = 0 => egress = 0

(* The egress FIFO is full or about to be: at most one of the next two     *)
(* edges finds m_axis_tready set.                                          *)
Slow(room, free, wait) ==
    \/ room = 0 /\ free = 0
    \/ room = 0 /\ free = 1 /\ wait >= 1
    \/ room = 1 /\ free = 0

(* Words the switch may take in until it transmits.                        *)
Ahead == IF grant THEN 1 ELSE IF port = <<>> THEN 3 ELSE 2

(* q, w and v words are in the read buffer, entering it and in the         *)
(* register file.  When m_axis has a word that is taken, the buffer has    *)
(* the next one: the pipeline either runs full, with one stall behind it   *)
(* or none, or has been filled by stalls and is emptied slowly.            *)
Supplied(offering, finishing, q, w, v, room, moving, ahead, free, wait) ==
    IF offering
    THEN /\ q + w + v <= 5
         /\ q = 4 => v = 0
         /\ ~finishing =>
              \/ q = 1 /\ w = 1 /\ v = 1 /\ moving
              \/ q = 1 /\ w = 1 /\ v = 1 /\ room >= ahead /\ free >= 1
              \/ q = 2 /\ w = 1 /\ v = 1 /\ moving /\ room = 1
              \/ moving /\ Slow(room, free, wait) /\ q + w + v >= 3
              \/ moving /\ Slow(room, free, wait) /\ room = 0 /\ q = 2
         /\ finishing => /\ v = 1 => w = 1 \/ q >= 2
                         /\ w + v > 0 => q >= 1
    ELSE /\ ~finishing => q <= w /\ w <= v
         /\ finishing => q + w + v >= 1 /\ (q = 1 => v <= w)
         /\ q <= 1

SuppliedNow ==
    Supplied(m_axis_tvalid, rfp_state = "RFP_READ_FINISH",
             read_buffer.rd_data_count, One(read_buffer_write), One(rfg_read_valid),
             PortDepth - Len(port), transmitting, Ahead, EgressDepth - egress, pace)

Quiet ==
    /\ read_buffer.rd_data_count = 0 /\ ~m_axis_tvalid
    /\ ~read_buffer_write /\ ~rfg_read_valid

(* The read that is under way, or the one that was answered last.          *)
Reading(h, cmd, first) ==
    /\ m_axis_tlast => m_axis_tvalid
    /\ Answering => /\ ReadOn(h, cmd, first) /\ SuppliedNow
                    /\ ~m_axis_tvalid => Forwarded(h) = 0 /\ read_buffer_read
                    /\ transmitting /\ rfp_state = "RFP_READ" => port # <<>>
    /\ ~Answering =>
          /\ Quiet
          /\ ~cmd.write /\ todo[h] = <<>> => Forwarded(h) = cmd.length
          /\ cmd.write \/ todo[h] # <<>> => Forwarded(h) = 0
          /\ ~cmd.write /\ todo[h] # <<>> => fifo_words = first

Serving(h, cmd, first) ==
    /\ Decoding(h, cmd) /\ WritesDue(h, cmd)
    /\ WordsInPlace(h, cmd, first) /\ Reading(h, cmd, first)
    /\ Switching(h, cmd)

(* Nothing was asked yet.                                                  *)
Unasked(h) ==
    /\ todo[h] = <<>> /\ answer[h] = <<>> /\ port = <<>> /\ due = <<>>
    /\ rfp_state = "RFP_HEADER" /\ ~rfg_write /\ Quiet /\ ~m_axis_tlast
    /\ ~grant /\ ~transmitting /\ ~routed /\ egress = 0

IInv(h) ==
    /\ TypeInv
    /\ \/ asked[h] = <<>> /\ Unasked(h)
       \/ \E cmd \in Command, first \in 0 .. FifoWords - 1 :
             asked[h] = <<cmd, first>> /\ Serving(h, cmd, first)


-----------------------------------------------------------------------------
(* One rising edge as host h sees it: take says that a byte of its command *)
(* is accepted.                                                            *)
EdgeFor(h, take, byte, tready, drains) ==
    /\ Readback(tready) /\ ReadBuffer(tready)
    /\ Decode(take, byte, h, tready)
    /\ RegisterFile /\ Switch(tready) /\ Egress(drains) /\ Receive
    /\ due' = Left
    /\ take => todo[h] # <<>> /\ byte = Head(todo[h])
    /\ todo'[h] = IF take THEN Tail(todo[h]) ELSE todo[h]
    /\ UNCHANGED asked

LEMMA RunningOfOne ==
    ASSUME NEW h, Host = {h}, TypeInv, NEW drains \in BOOLEAN, Running(drains)
    PROVE  \E take \in BOOLEAN, byte \in Byte, tready \in BOOLEAN :
              EdgeFor(h, take, byte, tready, drains)
<1>1. PICK valid \in BOOLEAN, byte \in Byte, tid \in Host \cup {0},
           tready \in BOOLEAN :
         /\ Edge(valid, byte, tid, tready, drains)
         /\ valid => tid \in Host /\ todo[tid] # <<>> /\ byte = Head(todo[tid])
         /\ todo' = IF valid /\ s_axis_tready
                    THEN [todo EXCEPT ![tid] = Tail(todo[tid])] ELSE todo
  BY EdgeInputs
<1> DEFINE take == valid /\ s_axis_tready
<1>3. take \in BOOLEAN /\ (take => tid = h)
  BY <1>1, TypeFacts DEF TypeInv, Typed
<1>4. Decode(take, byte, tid, tready) => Decode(take, byte, h, tready)
  <2>1. CASE take
    BY <1>3, <2>1
  <2>2. CASE ~take
    <3>1. RfpHeader(take, byte, tid) => RfpHeader(take, byte, h)
      BY <2>2 DEF RfpHeader
    <3> QED
      BY <3>1 DEF Decode
  <2> QED
    BY <2>1, <2>2
<1>5. todo \in [Host -> Seq(Byte)] /\ h \in Host
  BY DEF TypeInv
<1>6. todo'[h] = IF take THEN Tail(todo[h]) ELSE todo[h]
  BY <1>1, <1>3, <1>5
<1> QED
  BY <1>1, <1>3, <1>4, <1>6 DEF Edge, EdgeFor, Left

(* The bytes of a command are taken one by one.                            *)
LEMMA ByteTaken ==
    ASSUME NEW h, NEW cmd \in Command,
           NEW take \in BOOLEAN, NEW byte \in Byte, NEW tready \in BOOLEAN,
           NEW drains \in BOOLEAN, EdgeFor(h, take, byte, tready, drains),
           NEW n \in 0 .. Total(cmd) - 1, todo[h] = Rest(cmd, n)
    PROVE  /\ take => /\ byte = BytesOf(cmd)[n + 1]
                      /\ todo'[h] = Rest(cmd, n + 1)
           /\ ~take => todo'[h] = Rest(cmd, n)
  BY RestFacts DEF EdgeFor

(* A value of a write is taken: the address moves on with it.              *)
LEMMA ValueTaken ==
    ASSUME NEW h, NEW cmd \in Command, TypeInv, Decoding(h, cmd),
           rfp_state = "RFP_WRITE_VALUE",
           NEW take \in BOOLEAN, NEW byte \in Byte, NEW tready \in BOOLEAN,
           NEW drains \in BOOLEAN, EdgeFor(h, take, byte, tready, drains)
    PROVE  /\ RfpWriteValue(take, byte)
           /\ Taking(cmd) \in Nat /\ Taking(cmd) + 1 <= cmd.length
           /\ rfg_current_length = cmd.length - Taking(cmd)
           /\ take => /\ byte = (Taking(cmd) + 1) % 256
                      /\ todo'[h] = Rest(cmd, Preamble(cmd) + (Taking(cmd) + 1))
           /\ ~take => todo'[h] = Rest(cmd, Preamble(cmd) + Taking(cmd))
           /\ rfg_address' = AddressAt(cmd, Taking(cmd) + 1)
<1> DEFINE p == Preamble(cmd)
           n == Taking(cmd)
           m == cmd.length
<1>1. Decode(take, byte, h, tready)
  BY DEF EdgeFor
<1>2. RfpWriteValue(take, byte)
  BY <1>1 DEF Decode, RfpHeader, RfpAddress, RfpAddressB, RfpLengthA,
              RfpLengthB, RfpWriteValue, RfpRead, RfpReadFinish
<1>3. /\ todo[h] = Rest(cmd, p + n) /\ HeaderKept(cmd) /\ cmd.write
      /\ rfg_current_length >= 1 /\ rfg_current_length <= m
      /\ rfg_write => n >= 1
      /\ rfg_address = AddressAt(cmd, IF rfg_write THEN n ELSE n + 1)
  BY DEF Decoding
<1>4. rfg_header.increment <=> cmd.increment
  BY <1>3 DEF HeaderKept
<1>5. rfg_current_length \in Nat /\ m \in Nat /\ n = m - rfg_current_length
  BY CommandType, TypeFacts, WordRange DEF TypeInv, Typed, Taking
<1>6. p \in 4 .. 5 /\ Total(cmd) = p + m /\ Total(cmd) \in Nat
  BY <1>3, RestFacts
<1> HIDE DEF p, n, m
<1>7. n \in Nat /\ n + 1 <= m /\ rfg_current_length = m - n
  BY <1>3, <1>5
<1>8. p + n \in 0 .. Total(cmd) - 1 /\ (p + n) + 1 = p + (n + 1)
  BY <1>5, <1>6, <1>7
<1>9. /\ take => byte = BytesOf(cmd)[p + (n + 1)] /\ todo'[h] = Rest(cmd, p + (n + 1))
      /\ ~take => todo'[h] = Rest(cmd, p + n)
  BY <1>3, <1>8, ByteTaken
<1>10. BytesOf(cmd)[p + (n + 1)] = (n + 1) % 256
  <2>1. n + 1 \in 1 .. m
    BY <1>5, <1>7
  <2> QED
    BY <1>3, <2>1, BytesFacts DEF p, m
<1>11. rfg_address' = AddressAt(cmd, n + 1)
  <2>1. CASE rfg_write
    <3>1. /\ cmd.increment => Up(AddressAt(cmd, n)) = AddressAt(cmd, n + 1)
          /\ ~cmd.increment => /\ AddressAt(cmd, n) = cmd.address
                               /\ AddressAt(cmd, n + 1) = cmd.address
      BY <1>3, <1>7, <2>1, AddressFacts
    <3> QED
      BY <1>2, <1>3, <1>4, <2>1, <3>1, CommandType DEF RfpWriteValue, WriteAddress
  <2>2. CASE ~rfg_write
    BY <1>2, <1>3, <2>2 DEF RfpWriteValue, WriteAddress
  <2> QED
    BY <2>1, <2>2
<1> QED
  BY <1>2, <1>7, <1>9, <1>10, <1>11 DEF p, n, m

(* The last byte of the length is taken.                                   *)
LEMMA LengthTaken ==
    ASSUME NEW h, NEW cmd \in Command, Decoding(h, cmd), rfp_state = "RFP_LENGTHB",
           NEW take \in BOOLEAN, take, NEW byte \in Byte, NEW tready \in BOOLEAN,
           NEW drains \in BOOLEAN, EdgeFor(h, take, byte, tready, drains)
    PROVE  /\ rfg_current_length' = cmd.length /\ rfg_master_length' = cmd.length
           /\ rfg_address' = cmd.address /\ todo'[h] = Rest(cmd, Preamble(cmd))
           /\ rfp_state' = IF cmd.write THEN "RFP_WRITE_VALUE" ELSE "RFP_READ"
<1> DEFINE p == Preamble(cmd)
<1>1. RfpLengthB(take, byte)
  BY DEF EdgeFor, Decode, RfpHeader, RfpAddress, RfpAddressB, RfpLengthA,
         RfpLengthB, RfpWriteValue, RfpRead, RfpReadFinish
<1>2. /\ todo[h] = Rest(cmd, p - 1) /\ HeaderKept(cmd)
      /\ rfg_address = cmd.address /\ rfg_length % 256 = cmd.length % 256
  BY DEF Decoding
<1>3. /\ (rfg_header.write <=> cmd.write) /\ (rfg_header.read <=> ~cmd.write)
  BY <1>2 DEF HeaderKept
<1>4. p - 1 \in 0 .. Total(cmd) - 1 /\ (p - 1) + 1 = p
  <2>1. cmd.length \in Nat
    BY CommandType, WordRange
  <2>2. p \in 4 .. 5 /\ Total(cmd) \in Nat
        /\ Total(cmd) = IF cmd.write THEN p + cmd.length ELSE p
    BY RestFacts
  <2> QED
    BY <2>1, <2>2
<1>5. byte = BytesOf(cmd)[p] /\ todo'[h] = Rest(cmd, p)
  <2>1. PICK n \in 0 .. Total(cmd) - 1 : n = p - 1 /\ n + 1 = p
    BY <1>4
  <2>2. todo[h] = Rest(cmd, n)
    BY <1>2, <2>1
  <2>3. byte = BytesOf(cmd)[n + 1] /\ todo'[h] = Rest(cmd, n + 1)
    BY <2>2, RestFacts DEF EdgeFor
  <2> QED
    BY <2>1, <2>3
<1>6. byte = cmd.length \div 256
  BY <1>5, BytesFacts
<1>7. byte * 256 + (rfg_length % 256) = cmd.length
  BY <1>2, <1>6, CommandType, Rejoined
<1> QED
  BY <1>1, <1>2, <1>3, <1>5, <1>7 DEF RfpLengthB

(* Before its last byte a command is not sent completely.                  *)
LEMMA StillSending ==
    ASSUME NEW h, NEW cmd \in Command, TypeInv, Decoding(h, cmd), ~Answering,
           rfp_state # "RFP_WRITE_VALUE", rfp_state # "RFP_HEADER" \/ todo[h] # <<>>
    PROVE  \E n \in 0 .. Preamble(cmd) - 1 :
              todo[h] = Rest(cmd, n) /\ (n = Preamble(cmd) - 1 => rfp_state = "RFP_LENGTHB")
<1> DEFINE p == Preamble(cmd)
           Claim(n) == /\ n \in 0 .. p - 1 /\ todo[h] = Rest(cmd, n)
                       /\ n = p - 1 => rfp_state = "RFP_LENGTHB"
<1>1. p \in 4 .. 5 /\ (cmd.address > 255 => p = 5)
  BY RestFacts DEF Preamble
<1>2. /\ 0 \in 0 .. p - 1 /\ 1 \in 0 .. p - 1 /\ p - 2 \in 0 .. p - 1
      /\ p - 1 \in 0 .. p - 1
      /\ 0 # p - 1 /\ 1 # p - 1 /\ p - 2 # p - 1
      /\ cmd.address > 255 => 2 \in 0 .. p - 1 /\ 2 # p - 1
  <2> HIDE DEF p
  <2> QED
    BY <1>1
<1>3. rfp_state \in {"RFP_HEADER", "RFP_ADDRESS", "RFP_ADDRESSB",
                     "RFP_LENGTHA", "RFP_LENGTHB"}
  BY TypeFacts DEF TypeInv, Typed, Answering
<1>4. CASE rfp_state = "RFP_HEADER"
  <2>1. Claim(0)
    BY <1>2, <1>4 DEF Decoding
  <2> QED
    BY <2>1
<1>5. CASE rfp_state = "RFP_ADDRESS"
  <2>1. Claim(1)
    BY <1>2, <1>5 DEF Decoding
  <2> QED
    BY <2>1
<1>6. CASE rfp_state = "RFP_ADDRESSB"
  <2>1. Claim(2)
    BY <1>2, <1>6 DEF Decoding
  <2> QED
    BY <2>1
<1>7. CASE rfp_state = "RFP_LENGTHA"
  <2>1. Claim(p - 2)
    BY <1>2, <1>7 DEF Decoding
  <2> QED
    BY <2>1
<1>8. CASE rfp_state = "RFP_LENGTHB"
  <2>1. Claim(p - 1)
    BY <1>2, <1>8 DEF Decoding
  <2> QED
    BY <2>1
<1> QED
  BY <1>3, <1>4, <1>5, <1>6, <1>7, <1>8

LEMMA DecodingKept ==
    ASSUME NEW h, NEW cmd \in Command, TypeInv, Decoding(h, cmd), WritesDue(h, cmd),
           NEW take \in BOOLEAN, NEW byte \in Byte, NEW tready \in BOOLEAN,
           NEW drains \in BOOLEAN, EdgeFor(h, take, byte, tready, drains)
    PROVE  Decoding(h, cmd)'
<1> DEFINE p == Preamble(cmd)
           far == cmd.address > 255
<1>1. /\ Decode(take, byte, h, tready)
      /\ take => todo[h] # <<>> /\ byte = Head(todo[h])
      /\ todo'[h] = IF take THEN Tail(todo[h]) ELSE todo[h]
  BY DEF EdgeFor
<1>2. /\ cmd.length \in Nat /\ cmd.length >= 1 /\ cmd.length <= 65535
      /\ cmd.address \in Word16 /\ cmd.length \in Word16
      /\ cmd.write \in BOOLEAN /\ cmd.increment \in BOOLEAN
  BY CommandType, WordRange
<1>3. /\ p \in 4 .. 5 /\ Total(cmd) \in Nat
      /\ Total(cmd) = IF cmd.write THEN p + cmd.length ELSE p
      /\ Rest(cmd, Total(cmd)) = <<>>
      /\ \A n \in 0 .. Total(cmd) - 1 :
            /\ Rest(cmd, n) # <<>>
            /\ Head(Rest(cmd, n)) = BytesOf(cmd)[n + 1]
            /\ Tail(Rest(cmd, n)) = Rest(cmd, n + 1)
  BY RestFacts
<1>4. (far => p = 5) /\ (~far => p = 4)
  BY DEF Preamble
<1>5. Typed
  BY TypeFacts DEF TypeInv
<1>6. ASSUME NEW n \in 0 .. Total(cmd) - 1, todo[h] = Rest(cmd, n)
      PROVE  /\ take => /\ byte = BytesOf(cmd)[n + 1]
                        /\ todo'[h] = Rest(cmd, n + 1)
             /\ ~take => todo'[h] = Rest(cmd, n)
  BY <1>6, ByteTaken
<1>7. CASE rfp_state = "RFP_HEADER"
  <2>1. RfpHeader(take, byte, h)
    BY <1>1, <1>7 DEF Decode, RfpHeader, RfpAddress, RfpAddressB, RfpLengthA,
                      RfpLengthB, RfpWriteValue, RfpRead, RfpReadFinish
  <2>2. CASE ~take
    <3>1. rfp_state' = "RFP_HEADER" /\ todo'[h] = todo[h]
      BY <1>1, <2>1, <2>2 DEF RfpHeader
    <3> QED
      BY <1>7, <3>1 DEF Decoding, Answering
  <2>3. CASE take
    <3>1. todo[h] = Rest(cmd, 0) /\ 0 \in 0 .. Total(cmd) - 1
      BY <1>1, <1>3, <1>7, <2>3 DEF Decoding
    <3>2. byte = BytesOf(cmd)[0 + 1] /\ todo'[h] = Rest(cmd, 0 + 1)
      BY <1>6, <2>3, <3>1
    <3>3. byte = HeaderByte(cmd) /\ todo'[h] = Rest(cmd, 1)
      BY <3>2, BytesFacts
    <3>4. (Bit(byte, 1) \/ Bit(byte, 2)) /\ HeaderOf(byte) =
              [write |-> cmd.write, read |-> ~cmd.write,
               increment |-> cmd.increment, extended |-> cmd.address > 255]
      BY <3>3, HeaderBits
    <3>5. /\ rfp_state' = "RFP_ADDRESS" /\ rfg_header' = HeaderOf(byte)
          /\ m_axis_tdest' = h
      BY <2>1, <2>3, <3>4 DEF RfpHeader
    <3> QED
      BY <3>3, <3>4, <3>5 DEF Decoding, Answering, HeaderKept
  <2> QED
    BY <2>2, <2>3
<1>8. CASE rfp_state = "RFP_ADDRESS"
  <2>1. RfpAddress(take, byte)
    BY <1>1, <1>8 DEF Decode, RfpHeader, RfpAddress, RfpAddressB, RfpLengthA,
                      RfpLengthB, RfpWriteValue, RfpRead, RfpReadFinish
  <2>2. todo[h] = Rest(cmd, 1) /\ HeaderKept(cmd) /\ m_axis_tdest = h
    BY <1>8 DEF Decoding
  <2>3. HeaderKept(cmd)' /\ m_axis_tdest' = h /\ (rfg_header.extended <=> far)
    BY <2>1, <2>2 DEF RfpAddress, HeaderKept
  <2>4. 1 \in 0 .. Total(cmd) - 1 /\ 1 + 1 = 2
    BY <1>2, <1>3
  <2>5. CASE ~take
    <3>1. rfp_state' = "RFP_ADDRESS" /\ todo'[h] = Rest(cmd, 1)
      BY <1>1, <1>8, <2>1, <2>2, <2>5 DEF RfpAddress
    <3> QED
      BY <2>3, <3>1 DEF Decoding, Answering
  <2>6. CASE take
    <3>1. byte = BytesOf(cmd)[2] /\ todo'[h] = Rest(cmd, 2)
      BY <1>6, <2>2, <2>4, <2>6
    <3>2. CASE far
      <4>1. /\ rfp_state' = "RFP_ADDRESSB"
            /\ rfg_address' = (rfg_address \div 256) * 256 + byte
        BY <2>1, <2>3, <2>6, <3>2 DEF RfpAddress
      <4>2. byte = cmd.address % 256
        BY <3>1, <3>2, BytesFacts
      <4>3. rfg_address' % 256 = byte
        BY <1>5, <4>1, Halves, Joined DEF Typed
      <4> QED
        BY <2>3, <3>1, <3>2, <4>1, <4>2, <4>3 DEF Decoding, Answering
    <3>3. CASE ~far
      <4>1. rfp_state' = "RFP_LENGTHA" /\ rfg_address' = byte
        BY <2>1, <2>3, <2>6, <3>3 DEF RfpAddress
      <4>2. byte = cmd.address
        BY <3>1, <3>3, BytesFacts
      <4>3. p - 2 = 2
        BY <1>4, <3>3
      <4> QED
        BY <2>3, <3>1, <4>1, <4>2, <4>3 DEF Decoding, Answering
    <3> QED
      BY <3>2, <3>3
  <2> QED
    BY <2>5, <2>6
<1>9. CASE rfp_state = "RFP_ADDRESSB"
  <2>1. RfpAddressB(take, byte)
    BY <1>1, <1>9 DEF Decode, RfpHeader, RfpAddress, RfpAddressB, RfpLengthA,
                      RfpLengthB, RfpWriteValue, RfpRead, RfpReadFinish
  <2>2. /\ todo[h] = Rest(cmd, 2) /\ HeaderKept(cmd) /\ m_axis_tdest = h
        /\ far /\ rfg_address % 256 = cmd.address % 256
    BY <1>9 DEF Decoding
  <2>3. HeaderKept(cmd)' /\ m_axis_tdest' = h
    BY <2>1, <2>2 DEF RfpAddressB, HeaderKept
  <2>4. 2 \in 0 .. Total(cmd) - 1 /\ 2 + 1 = 3 /\ p - 2 = 3
    BY <1>2, <1>3, <1>4, <2>2
  <2>5. CASE ~take
    <3>1. /\ rfp_state' = "RFP_ADDRESSB" /\ todo'[h] = Rest(cmd, 2)
          /\ rfg_address' = rfg_address
      BY <1>1, <1>9, <2>1, <2>2, <2>5 DEF RfpAddressB
    <3> QED
      BY <2>2, <2>3, <3>1 DEF Decoding, Answering
  <2>6. CASE take
    <3>1. byte = BytesOf(cmd)[3] /\ todo'[h] = Rest(cmd, 3)
      BY <1>6, <2>2, <2>4, <2>6
    <3>2. /\ rfp_state' = "RFP_LENGTHA"
          /\ rfg_address' = byte * 256 + (rfg_address % 256)
      BY <2>1, <2>6 DEF RfpAddressB
    <3>3. byte = cmd.address \div 256
      BY <2>2, <3>1, BytesFacts
    <3>4. rfg_address' = cmd.address
      BY <1>2, <2>2, <3>2, <3>3, Rejoined
    <3> QED
      BY <2>3, <2>4, <3>1, <3>2, <3>4 DEF Decoding, Answering
  <2> QED
    BY <2>5, <2>6
<1>10. CASE rfp_state = "RFP_LENGTHA"
  <2>1. RfpLengthA(take, byte)
    BY <1>1, <1>10 DEF Decode, RfpHeader, RfpAddress, RfpAddressB, RfpLengthA,
                      RfpLengthB, RfpWriteValue, RfpRead, RfpReadFinish
  <2>2. /\ todo[h] = Rest(cmd, p - 2) /\ HeaderKept(cmd) /\ m_axis_tdest = h
        /\ rfg_address = cmd.address
    BY <1>10 DEF Decoding
  <2>3. /\ HeaderKept(cmd)' /\ m_axis_tdest' = h
        /\ rfg_address' = cmd.address
    BY <2>1, <2>2 DEF RfpLengthA, HeaderKept
  <2>4. p - 2 \in 0 .. Total(cmd) - 1 /\ (p - 2) + 1 = p - 1
    BY <1>2, <1>3
  <2>5. CASE ~take
    <3>1. rfp_state' = "RFP_LENGTHA" /\ todo'[h] = Rest(cmd, p - 2)
      BY <1>1, <1>10, <2>1, <2>2, <2>5 DEF RfpLengthA
    <3> QED
      BY <2>3, <3>1 DEF Decoding, Answering
  <2>6. CASE take
    <3>1. byte = BytesOf(cmd)[p - 1] /\ todo'[h] = Rest(cmd, p - 1)
      BY <1>6, <2>2, <2>4, <2>6
    <3>2. /\ rfp_state' = "RFP_LENGTHB"
          /\ rfg_length' = (rfg_length \div 256) * 256 + byte
      BY <2>1, <2>6 DEF RfpLengthA
    <3>3. byte = cmd.length % 256
      BY <3>1, BytesFacts
    <3>4. rfg_length' % 256 = byte
      BY <1>5, <3>2, Halves, Joined DEF Typed
    <3> QED
      BY <2>3, <3>1, <3>2, <3>3, <3>4 DEF Decoding, Answering
  <2> QED
    BY <2>5, <2>6
<1>11. CASE rfp_state = "RFP_LENGTHB"
  <2>1. RfpLengthB(take, byte)
    BY <1>1, <1>11 DEF Decode, RfpHeader, RfpAddress, RfpAddressB, RfpLengthA,
                       RfpLengthB, RfpWriteValue, RfpRead, RfpReadFinish
  <2>2. /\ todo[h] = Rest(cmd, p - 1) /\ HeaderKept(cmd) /\ m_axis_tdest = h
        /\ rfg_address = cmd.address /\ rfg_length % 256 = cmd.length % 256
    BY <1>11 DEF Decoding
  <2>3. /\ HeaderKept(cmd)' /\ m_axis_tdest' = h /\ rfg_address' = cmd.address
        /\ (rfg_header.write <=> cmd.write) /\ (rfg_header.read <=> ~cmd.write)
        /\ rfg_write' = rfg_write
    BY <2>1, <2>2 DEF RfpLengthB, HeaderKept, write
  <2>4. p - 1 \in 0 .. Total(cmd) - 1 /\ (p - 1) + 1 = p
    BY <1>2, <1>3
  <2>5. CASE ~take
    <3>1. /\ rfp_state' = "RFP_LENGTHB" /\ todo'[h] = Rest(cmd, p - 1)
          /\ rfg_length' = rfg_length
      BY <1>1, <1>11, <2>1, <2>2, <2>5 DEF RfpLengthB, lengths
    <3> QED
      BY <2>2, <2>3, <3>1 DEF Decoding, Answering
  <2>6. CASE take
    <3>1. todo'[h] = Rest(cmd, p)
      BY <1>11, <2>6, LengthTaken
    <3>4. /\ rfg_current_length' = cmd.length
          /\ rfp_state' = IF cmd.write THEN "RFP_WRITE_VALUE" ELSE "RFP_READ"
      BY <1>11, <2>6, LengthTaken
    <3>5. CASE cmd.write
      <4>1. rfp_state' = "RFP_WRITE_VALUE"
        BY <2>3, <3>4, <3>5
      <4>2. Taking(cmd)' = 0 /\ p + 0 = p
        BY <1>2, <1>3, <3>4 DEF Taking
      <4>3. ~rfg_write /\ 0 + 1 = 1 /\ 1 \in Nat /\ 1 >= 1
        BY <1>11 DEF WritesDue
      <4>4. AddressAt(cmd, 1) = cmd.address
        BY <4>3, AddressFacts
      <4> QED
        BY <1>2, <2>3, <3>1, <3>4, <3>5, <4>1, <4>2, <4>3, <4>4
           DEF Decoding, Answering
    <3>6. CASE ~cmd.write
      <4>1. rfp_state' = "RFP_READ"
        BY <2>3, <3>4, <3>6
      <4>2. todo'[h] = <<>>
        BY <1>3, <3>1, <3>6
      <4> QED
        BY <2>3, <3>6, <4>1, <4>2 DEF Decoding, Answering
    <3> QED
      BY <3>5, <3>6
  <2> QED
    BY <2>5, <2>6
<1>12. CASE rfp_state = "RFP_WRITE_VALUE"
  <2> DEFINE n == Taking(cmd)
  <2>1. /\ RfpWriteValue(take, byte)
        /\ n \in Nat /\ n + 1 <= cmd.length /\ rfg_current_length = cmd.length - n
        /\ take => todo'[h] = Rest(cmd, p + (n + 1))
        /\ ~take => todo'[h] = Rest(cmd, p + n)
        /\ rfg_address' = AddressAt(cmd, n + 1)
    BY <1>12, ValueTaken
  <2>2. HeaderKept(cmd) /\ m_axis_tdest = h /\ cmd.write
    BY <1>12 DEF Decoding
  <2>3. HeaderKept(cmd)' /\ m_axis_tdest' = h
    BY <2>1, <2>2 DEF RfpWriteValue, HeaderKept
  <2>4. CASE ~take
    <3>1. /\ rfp_state' = "RFP_WRITE_VALUE" /\ todo'[h] = Rest(cmd, p + n)
          /\ rfg_current_length' = rfg_current_length /\ ~rfg_write'
      BY <1>12, <2>1, <2>4 DEF RfpWriteValue
    <3>2. Taking(cmd)' = n
      BY <3>1 DEF Taking
    <3>3. rfg_current_length >= 1 /\ rfg_current_length <= cmd.length
      BY <1>2, <2>1
    <3> QED
      BY <2>1, <2>2, <2>3, <3>1, <3>2, <3>3 DEF Decoding, Answering
  <2>5. CASE take
    <3>1. CASE rfg_current_length = 1
      <4>1. rfp_state' = "RFP_HEADER"
        BY <2>1, <2>5, <3>1 DEF RfpWriteValue
      <4>2. p + (n + 1) = Total(cmd)
        <5>1. n + 1 = cmd.length
          BY <1>2, <2>1, <3>1
        <5> QED
          BY <1>3, <2>2, <5>1
      <4>3. todo'[h] = <<>>
        BY <1>3, <2>1, <2>5, <4>2
      <4> QED
        BY <4>1, <4>3 DEF Decoding, Answering
    <3>2. CASE rfg_current_length # 1
      <4>1. /\ rfp_state' = "RFP_WRITE_VALUE" /\ rfg_write' = TRUE
            /\ rfg_current_length' = Down(rfg_current_length)
        BY <1>12, <2>1, <2>5, <3>2 DEF RfpWriteValue
      <4>2. Down(rfg_current_length) = rfg_current_length - 1
        <5>1. rfg_current_length >= 1
          BY <1>2, <2>1
        <5> QED
          BY <1>5, <5>1, Counting DEF Typed
      <4>3. /\ rfg_current_length' >= 1 /\ rfg_current_length' <= cmd.length
            /\ cmd.length - rfg_current_length' = n + 1 /\ n + 1 >= 1
        <5> HIDE DEF n
        <5> QED
          BY <1>2, <2>1, <3>2, <4>1, <4>2
      <4>4. Taking(cmd)' = n + 1
        BY <4>3 DEF Taking
      <4> QED
        BY <2>1, <2>2, <2>3, <2>5, <4>1, <4>3, <4>4 DEF Decoding, Answering
    <3> QED
      BY <3>1, <3>2
  <2> QED
    BY <2>4, <2>5
<1>13. CASE rfp_state = "RFP_READ"
  <2>1. RfpRead
    BY <1>1, <1>13 DEF Decode, RfpHeader, RfpAddress, RfpAddressB, RfpLengthA,
                       RfpLengthB, RfpWriteValue, RfpRead, RfpReadFinish
  <2>2. ~cmd.write /\ todo[h] = <<>> /\ HeaderKept(cmd) /\ m_axis_tdest = h
    BY <1>13 DEF Decoding, Answering
  <2>3. /\ HeaderKept(cmd)' /\ m_axis_tdest' = h /\ todo'[h] = <<>>
        /\ rfp_state' = "RFP_READ" \/ rfp_state' = "RFP_READ_FINISH"
    BY <1>1, <2>1, <2>2 DEF RfpRead, HeaderKept
  <2> QED
    BY <2>2, <2>3 DEF Decoding, Answering
<1>14. CASE rfp_state = "RFP_READ_FINISH"
  <2>1. RfpReadFinish(tready)
    BY <1>1, <1>14 DEF Decode, RfpHeader, RfpAddress, RfpAddressB, RfpLengthA,
                       RfpLengthB, RfpWriteValue, RfpRead, RfpReadFinish
  <2>2. ~cmd.write /\ todo[h] = <<>> /\ HeaderKept(cmd) /\ m_axis_tdest = h
    BY <1>14 DEF Decoding, Answering
  <2>3. /\ HeaderKept(cmd)' /\ m_axis_tdest' = h /\ todo'[h] = <<>>
        /\ rfp_state' = "RFP_HEADER" \/ rfp_state' = "RFP_READ_FINISH"
    BY <1>1, <2>1, <2>2 DEF RfpReadFinish, HeaderKept
  <2> QED
    BY <2>2, <2>3 DEF Decoding, Answering
<1> QED
  BY <1>5, <1>7, <1>8, <1>9, <1>10, <1>11, <1>12, <1>13, <1>14 DEF Typed

(* The writes that are due stay those whose value was not taken, and the   *)
(* one on its way is the next of them.                                     *)
LEMMA WritesKept ==
    ASSUME NEW h, NEW cmd \in Command, TypeInv, Decoding(h, cmd), WritesDue(h, cmd),
           NEW take \in BOOLEAN, NEW byte \in Byte, NEW tready \in BOOLEAN,
           NEW drains \in BOOLEAN, EdgeFor(h, take, byte, tready, drains)
    PROVE  WritesDue(h, cmd)'
<1> DEFINE p == Preamble(cmd)
           m == cmd.length
<1>1. Decode(take, byte, h, tready) /\ due' = Left
  BY DEF EdgeFor
<1>2. /\ m \in Nat /\ m >= 1 /\ m <= 65535
      /\ cmd.write \in BOOLEAN /\ cmd.increment \in BOOLEAN
  BY CommandType, WordRange
<1>3. /\ RestOfWrites(cmd, m) = <<>>
      /\ \A n \in 0 .. m : RestOfWrites(cmd, n) \in Seq(Write)
      /\ \A n \in 0 .. m - 1 :
            /\ RestOfWrites(cmd, n) # <<>>
            /\ Head(RestOfWrites(cmd, n)) = WriteAt(cmd, n + 1)
            /\ Tail(RestOfWrites(cmd, n)) = RestOfWrites(cmd, n + 1)
  BY RestOfWritesFacts
<1>4. Typed
  BY TypeFacts DEF TypeInv
<1>5. Left = IF cmd.write THEN RestOfWrites(cmd, Begun(h, cmd)) ELSE <<>>
  BY DEF WritesDue
<1>6. /\ p \in 4 .. 5 /\ Total(cmd) \in Nat /\ (cmd.write => Total(cmd) = p + m)
      /\ Total(cmd) >= p
      /\ \A n \in 0 .. Total(cmd) - 1 : Rest(cmd, n) # <<>>
      /\ Rest(cmd, Total(cmd)) = <<>>
  BY <1>2, RestFacts
<1>7. CASE rfp_state = "RFP_WRITE_VALUE"
  <2> DEFINE n == Taking(cmd)
  <2>1. /\ RfpWriteValue(take, byte)
        /\ n \in Nat /\ n + 1 <= m /\ rfg_current_length = m - n
        /\ take => byte = (n + 1) % 256 /\ todo'[h] = Rest(cmd, p + (n + 1))
        /\ rfg_address' = AddressAt(cmd, n + 1)
    BY <1>7, ValueTaken
  <2>2. cmd.write
    BY <1>7 DEF Decoding
  <2>3. due' = RestOfWrites(cmd, n)
    BY <1>1, <1>5, <1>7, <2>2 DEF Begun
  <2>4. n \in 0 .. m - 1 /\ n \in 0 .. m /\ n + 1 \in 0 .. m
    <3> HIDE DEF n, m
    <3> QED
      BY <1>2, <2>1
  <2>5. due' \in Seq(Write)
    BY <1>3, <2>3, <2>4
  <2>6. CASE ~take
    <3>1. /\ ~rfg_write' /\ rfp_state' = "RFP_WRITE_VALUE"
          /\ rfg_current_length' = rfg_current_length
      BY <1>7, <2>1, <2>6 DEF RfpWriteValue
    <3>2. Left' = due' /\ Begun(h, cmd)' = n
      BY <3>1 DEF Left, Begun, Taking
    <3> QED
      BY <2>2, <2>3, <2>5, <3>1, <3>2 DEF WritesDue, WritesAsCommanded
  <2>7. CASE take
    <3>1. /\ rfg_write' /\ rfg_write_value' = byte
          /\ rfg_write_last' = (rfg_current_length = 1)
          /\ rfp_state' \in {"RFP_HEADER", "RFP_WRITE_VALUE"}
      BY <1>7, <2>1, <2>7 DEF RfpWriteValue
    <3>2. rfg_current_length = 1 <=> n + 1 = m
      <4> HIDE DEF n, m
      <4> QED
        BY <1>2, <2>1
    <3>3. /\ due' # <<>> /\ Head(due') = WriteAt(cmd, n + 1)
          /\ Left' = RestOfWrites(cmd, n + 1)
      BY <1>3, <2>3, <2>4, <3>1 DEF Left
    <3>4. WriteAt(cmd, n + 1) = [address |-> rfg_address', value |-> rfg_write_value',
                                 last |-> rfg_write_last']
      BY <2>1, <2>7, <3>1, <3>2 DEF WriteAt
    <3>5. Begun(h, cmd)' = n + 1
      <4>1. CASE rfg_current_length = 1
        <5>1. rfp_state' = "RFP_HEADER"
          BY <2>1, <2>7, <4>1 DEF RfpWriteValue
        <5>2. p + (n + 1) = Total(cmd)
          BY <1>6, <2>2, <3>2, <4>1
        <5>3. todo'[h] = <<>>
          BY <1>6, <2>1, <2>7, <5>2
        <5> QED
          BY <3>2, <4>1, <5>1, <5>3 DEF Begun
      <4>2. CASE rfg_current_length # 1
        <5>1. /\ rfp_state' = "RFP_WRITE_VALUE"
              /\ rfg_current_length' = Down(rfg_current_length)
          BY <1>7, <2>1, <2>7, <4>2 DEF RfpWriteValue
        <5>2. rfg_current_length >= 1
          BY <1>2, <2>1
        <5>3. Down(rfg_current_length) = rfg_current_length - 1
          BY <1>4, <5>2, Counting DEF Typed
        <5>4. m - rfg_current_length' = n + 1
          <6> HIDE DEF n, m
          <6> QED
            BY <1>2, <2>1, <5>1, <5>3
        <5> QED
          BY <5>1, <5>4 DEF Begun, Taking
      <4> QED
        BY <4>1, <4>2
    <3> QED
      BY <2>2, <2>5, <3>1, <3>3, <3>4, <3>5 DEF WritesDue, WritesAsCommanded
  <2> QED
    BY <2>6, <2>7
<1>8. CASE rfp_state # "RFP_WRITE_VALUE"
  <2>1. ~rfg_write'
    <3>1. rfp_state # "RFP_HEADER" => ~rfg_write
      BY <1>8 DEF WritesDue
    <3> QED
      BY <1>1, <1>8, <3>1 DEF Decode, RfpHeader, RfpAddress, RfpAddressB,
                              RfpLengthA, RfpLengthB, RfpWriteValue, RfpRead,
                              RfpReadFinish, write
  <2>2. Left' = due'
    BY <2>1 DEF Left
  <2>3. due' = IF cmd.write THEN RestOfWrites(cmd, Begun(h, cmd)) ELSE <<>>
    BY <1>1, <1>5
  <2>4. Begun(h, cmd) \in 0 .. m
    <3>1. 0 \in 0 .. m /\ m \in 0 .. m
      BY <1>2
    <3> QED
      BY <1>8, <3>1, Zenon DEF Begun
  <2>5. due' \in Seq(Write)
    BY <1>3, <2>3, <2>4, EmptySeq
  <2>6. CASE cmd.write
    <3> SUFFICES Begun(h, cmd)' = Begun(h, cmd)
      BY <2>1, <2>2, <2>3, <2>5, <2>6 DEF WritesDue, WritesAsCommanded
    <3>1. CASE rfp_state = "RFP_HEADER" /\ todo[h] = <<>>
      <4>1. ~take /\ todo'[h] = <<>>
        BY <3>1 DEF EdgeFor
      <4>2. rfp_state' = "RFP_HEADER"
        BY <1>1, <3>1, <4>1
           DEF Decode, RfpHeader, RfpAddress, RfpAddressB, RfpLengthA,
               RfpLengthB, RfpWriteValue, RfpRead, RfpReadFinish
      <4> QED
        BY <3>1, <4>1, <4>2 DEF Begun
    <3>2. CASE rfp_state # "RFP_HEADER" \/ todo[h] # <<>>
      <4>1. ~Answering
        BY <2>6 DEF Decoding
      <4>2. PICK n \in 0 .. p - 1 : todo[h] = Rest(cmd, n)
        BY <1>8, <3>2, <4>1, StillSending
      <4>3. n \in 0 .. Total(cmd) - 1 /\ n + 1 \in 0 .. Total(cmd) - 1
        <5> HIDE DEF p, m
        <5> QED
          BY <1>2, <1>6, <2>6
      <4>4. todo[h] # <<>> /\ todo'[h] # <<>>
        <5>1. todo'[h] = Rest(cmd, n) \/ todo'[h] = Rest(cmd, n + 1)
          BY <4>2, <4>3, ByteTaken
        <5>2. Rest(cmd, n) # <<>> /\ Rest(cmd, n + 1) # <<>>
          BY <1>6, <4>3
        <5> QED
          BY <4>2, <5>1, <5>2
      <4>5. Begun(h, cmd) = 0
        BY <1>8, <4>4 DEF Begun
      <4>6. rfp_state' = "RFP_WRITE_VALUE" => rfp_state = "RFP_LENGTHB" /\ take
        BY <1>1, <1>8 DEF Decode, RfpHeader, RfpAddress, RfpAddressB, RfpLengthA,
                          RfpLengthB, RfpWriteValue, RfpRead, RfpReadFinish
      <4>7. CASE rfp_state' = "RFP_WRITE_VALUE"
        <5>1. rfg_current_length' = m
          BY <4>6, <4>7, LengthTaken
        <5>2. m - rfg_current_length' = 0
          BY <1>2, <5>1
        <5> QED
          BY <4>5, <4>7, <5>2 DEF Begun, Taking
      <4>8. CASE rfp_state' # "RFP_WRITE_VALUE"
        BY <4>4, <4>5, <4>8 DEF Begun
      <4> QED
        BY <4>7, <4>8
    <3> QED
      BY <3>1, <3>2
  <2>7. CASE ~cmd.write
    BY <2>1, <2>2, <2>3, <2>5, <2>7 DEF WritesDue, WritesAsCommanded
  <2> QED
    BY <1>2, <2>6, <2>7
<1> QED
  BY <1>7, <1>8

-----------------------------------------------------------------------------
(* The words of an answer keep their places.                               *)

(* A word that leaves the switch goes to the host, one that is accepted    *)
(* from m_axis into the switch.                                            *)
LEMMA PortMoves ==
    ASSUME NEW h, Host = {h}, NEW cmd, NEW first, TypeInv, WordsInPlace(h, cmd, first),
           m_axis_tvalid => m_axis_tdest = h,
           NEW take \in BOOLEAN, NEW byte \in Byte, NEW tready \in BOOLEAN,
           NEW drains \in BOOLEAN, EdgeFor(h, take, byte, tready, drains),
           NEW leaves \in BOOLEAN, leaves <=> Leaves,
           NEW acc \in BOOLEAN, acc <=> m_axis_tvalid /\ tready
    PROVE  /\ Received(h)' = Received(h) + One(leaves)
           /\ Len(port') = Len(port) - One(leaves) + One(acc)
           /\ Forwarded(h)' = Forwarded(h) + One(acc)
           /\ \A k \in 1 .. Received(h)' : answer'[h][k] = WordOf(h, cmd, first, k)
           /\ \A k \in 1 .. Len(port') :
                 port'[k] = WordOf(h, cmd, first, Received(h)' + k)
           /\ leaves => Len(port) >= 1
           /\ tready <=> Len(port) < PortDepth
<1> DEFINE a == answer[h]
           n == Len(port)
           left == IF leaves THEN Tail(port) ELSE port
           W(k) == WordOf(h, cmd, first, k)
<1>1. /\ leaves => port # <<>>
      /\ tready = (n < PortDepth)
      /\ port' = IF write_valid(tready) THEN Append(left, Out) ELSE left
      /\ answer' = IF leaves
                   THEN [answer EXCEPT ![Head(port).to] = Append(@, Head(port))]
                   ELSE answer
  BY LeavesFacts DEF EdgeFor, Switch, Receive
<1>2. /\ port \in Seq(Words) /\ answer \in [Host -> Seq(Words)] /\ a \in Seq(Words)
      /\ n \in Nat /\ Len(a) \in Nat
  <2>1. port \in Seq(Words) /\ answer \in [Host -> Seq(Words)] /\ h \in Host
    BY DEF TypeInv
  <2>2. a \in Seq(Words)
    BY <2>1
  <2> QED
    BY <2>1, <2>2
<1>3. /\ \A k \in 1 .. Len(a) : a[k] = W(k)
      /\ \A k \in 1 .. n : port[k] = W(Len(a) + k)
  BY DEF WordsInPlace, Received
<1>4. acc => Out = W(Len(a) + n + 1)
  <2>1. ASSUME m_axis_tvalid
        PROVE  Out = W(Len(a) + n + 1)
    <3>1. Offered(h) = Len(a) + n + 1
      BY <2>1 DEF Offered, Forwarded, Received, One
    <3>2. /\ m_axis_tdata = Value(cmd, first, Len(a) + n + 1)
          /\ m_axis_tlast = (Len(a) + n + 1 = cmd.length)
      BY <2>1, <3>1 DEF WordsInPlace
    <3> QED
      BY <2>1, <3>2, Zenon DEF Out, WordOf
  <2> QED
    BY <2>1
<1>5. write_valid(tready) <=> acc
  BY DEF write_valid
<1>6. One(leaves) \in 0 .. 1 /\ One(acc) \in 0 .. 1
  BY DEF One
<1> HIDE DEF W
<1>7. /\ left \in Seq(Words) /\ Len(left) = n - One(leaves)
      /\ \A k \in 1 .. n - One(leaves) : left[k] = port[k + One(leaves)]
      /\ leaves => n >= 1
  <2>1. CASE leaves
    <3>1. left = Tail(port) /\ One(leaves) = 1 /\ port # <<>>
      BY <1>1, <2>1 DEF One
    <3>2. n >= 1
      BY <1>2, <3>1, EmptySeq
    <3>3. /\ Tail(port) \in Seq(Words) /\ Len(Tail(port)) = n - 1
          /\ \A k \in 1 .. Len(Tail(port)) : Tail(port)[k] = port[k + 1]
      BY <1>2, <3>1, HeadTailProperties
    <3> HIDE DEF left, n
    <3> QED
      BY <3>1, <3>2, <3>3
  <2>2. CASE ~leaves
    <3>1. left = port /\ One(leaves) = 0
      BY <2>2 DEF One
    <3> QED
      BY <1>2, <2>2, <3>1
  <2> QED
    BY <2>1, <2>2
<1>8. /\ answer'[h] \in Seq(Words) /\ Len(answer'[h]) = Len(a) + One(leaves)
      /\ \A k \in 1 .. Len(a) + One(leaves) : answer'[h][k] = W(k)
  <2>1. CASE leaves
    <3>1. One(leaves) = 1 /\ n >= 1 /\ port # <<>>
      BY <1>1, <1>7, <2>1 DEF One
    <3>2. Head(port) = port[1] /\ port[1] = W(Len(a) + 1) /\ Head(port) \in Words
      BY <1>2, <1>3, <3>1, HeadTailProperties
    <3>3. W(Len(a) + 1).to = h
      BY DEF W, WordOf
    <3>4. answer'[h] = Append(a, W(Len(a) + 1))
      BY <1>1, <1>2, <2>1, <3>2, <3>3
    <3> HIDE DEF a
    <3>5. /\ Append(a, W(Len(a) + 1)) \in Seq(Words)
          /\ Len(Append(a, W(Len(a) + 1))) = Len(a) + 1
          /\ \A k \in 1 .. Len(a) : Append(a, W(Len(a) + 1))[k] = a[k]
          /\ Append(a, W(Len(a) + 1))[Len(a) + 1] = W(Len(a) + 1)
      BY <1>2, <3>2, AppendProperties
    <3> QED
      BY <1>2, <1>3, <3>1, <3>4, <3>5
  <2>2. CASE ~leaves
    <3>1. answer'[h] = a /\ One(leaves) = 0
      BY <1>1, <2>2 DEF One
    <3> HIDE DEF a
    <3> QED
      BY <1>2, <1>3, <3>1
  <2> QED
    BY <2>1, <2>2
<1> HIDE DEF a, left
<1>9. /\ Len(port') = n - One(leaves) + One(acc)
      /\ \A k \in 1 .. n - One(leaves) + One(acc) :
            port'[k] = W(Len(a) + One(leaves) + k)
  <2>1. \A k \in 1 .. n - One(leaves) : left[k] = W(Len(a) + One(leaves) + k)
    <3> TAKE k \in 1 .. n - One(leaves)
    <3>1. k + One(leaves) \in 1 .. n /\ Len(a) + (k + One(leaves)) = Len(a) + One(leaves) + k
      <4>1. PICK x \in 0 .. 1, y \in Nat, z \in Nat :
               x = One(leaves) /\ y = Len(port) /\ z = Len(a)
        BY <1>2, <1>6
      <4>2. k \in 1 .. y - x
        BY <4>1
      <4>3. k + x \in 1 .. y /\ z + (k + x) = z + x + k
        BY <4>2
      <4> QED
        BY <4>1, <4>3
    <3> QED
      BY <1>3, <1>7, <3>1
  <2>2. CASE acc
    <3>1. port' = Append(left, Out) /\ One(acc) = 1
      BY <1>1, <1>5, <2>2 DEF One
    <3>2. Out \in Words
      BY TypeFacts DEF Out, Words, TypeInv, Typed
    <3>3. /\ Len(port') = Len(left) + 1
          /\ \A k \in 1 .. Len(left) : port'[k] = left[k]
          /\ port'[Len(left) + 1] = Out
      BY <1>7, <3>1, <3>2, AppendProperties
    <3>4. Out = W(Len(a) + One(leaves) + (n - One(leaves) + 1))
      <4>1. Len(a) + One(leaves) + (n - One(leaves) + 1) = Len(a) + n + 1
        BY <1>2, <1>6
      <4> QED
        BY <1>4, <2>2, <4>1
    <3>5. ASSUME NEW k \in 1 .. n - One(leaves) + 1
          PROVE  port'[k] = W(Len(a) + One(leaves) + k)
      <4>1. CASE k <= n - One(leaves)
        <5>1. k \in 1 .. n - One(leaves)
          BY <1>2, <1>6, <4>1
        <5> QED
          BY <1>7, <2>1, <3>3, <5>1
      <4>2. CASE ~(k <= n - One(leaves))
        <5>1. k = n - One(leaves) + 1
          BY <1>2, <1>6, <4>2
        <5> QED
          BY <1>7, <3>3, <3>4, <5>1
      <4> QED
        BY <4>1, <4>2
    <3> QED
      BY <1>7, <3>1, <3>3, <3>5
  <2>3. CASE ~acc
    <3>1. port' = left /\ One(acc) = 0
      BY <1>1, <1>5, <2>3 DEF One
    <3>2. n - One(leaves) + 0 = n - One(leaves)
      BY <1>2, <1>6
    <3> QED
      BY <1>7, <2>1, <3>1, <3>2
  <2> QED
    BY <2>2, <2>3
<1>10. Received(h) = Len(a) /\ Received(h)' = Len(a) + One(leaves)
  BY <1>8 DEF Received, a
<1>11. Forwarded(h)' = Forwarded(h) + One(acc)
  <2>1. Forwarded(h) = Len(a) + n /\ Forwarded(h)' = Len(a) + One(leaves) + Len(port')
    BY <1>10 DEF Forwarded
  <2>2. PICK x \in 0 .. 1, y \in 0 .. 1, z \in Nat, u \in Nat :
           x = One(leaves) /\ y = One(acc) /\ z = Len(a) /\ u = n
    BY <1>2, <1>6 DEF a
  <2>3. Forwarded(h) = z + u /\ Forwarded(h)' = z + x + (u - x + y)
    BY <1>9, <2>1, <2>2
  <2>4. z + x + (u - x + y) = (z + u) + y
    OBVIOUS
  <2> QED
    BY <2>2, <2>3, <2>4
<1> QED
  BY <1>1, <1>7, <1>8, <1>9, <1>10, <1>11 DEF W

(* A word leaves the read buffer unless m_axis is stalled, and one that    *)
(* enters finds room.                                                      *)
LEMMA ReadBufferMoves ==
    ASSUME TypeInv, NEW tready \in BOOLEAN, ReadBuffer(tready),
           NEW pop \in BOOLEAN,
           pop <=> ~write_stall(tready) /\ read_buffer.rd_data_count >= 1,
           NEW push \in BOOLEAN,
           push <=> read_buffer_write /\ read_buffer.rd_data_count < 4
    PROVE  /\ read_buffer'.rd_data_count =
                 read_buffer.rd_data_count - One(pop) + One(push)
           /\ \A k \in 1 .. read_buffer'.rd_data_count :
                 Held(read_buffer')[k] =
                    IF k + One(pop) <= read_buffer.rd_data_count
                    THEN Held(read_buffer)[k + One(pop)] ELSE read_buffer_data_in
<1>1. Typed /\ Sound(read_buffer)
  BY TypeFacts DEF TypeInv, ReadSound
<1>2. PICK wr \in BOOLEAN, rd \in BOOLEAN :
         /\ wr = read_buffer_write /\ rd = ~write_stall(tready)
  BY <1>1, Zenon DEF Typed
<1>3. PICK d \in Byte : d = read_buffer_data_in
  BY <1>1 DEF Typed
<1>4. PICK f, g : f = read_buffer /\ g = read_buffer'
  OBVIOUS
<1>5. g = Fifo!Clock(f, wr, rd, d) /\ Sound(f)
  BY <1>1, <1>2, <1>3, <1>4 DEF ReadBuffer
<1>6. /\ pop <=> rd /\ f.rd_data_count >= 1
      /\ push <=> wr /\ f.rd_data_count < 4
  BY <1>2, <1>4
<1>7. /\ Sound(g)
      /\ g.rd_data_count = f.rd_data_count - One(pop) + One(push)
      /\ \A k \in 1 .. g.rd_data_count :
            Held(g)[k] = IF k + One(pop) <= f.rd_data_count
                         THEN Held(f)[k + One(pop)] ELSE d
  BY <1>5, <1>6, BufferClock
<1> QED
  BY <1>3, <1>4, <1>7

(* Outside a read nothing moves but the words in the switch.  A read       *)
(* begins with the last byte of its command.                               *)
LEMMA QuietKept ==
    ASSUME NEW h, Host = {h}, NEW cmd \in Command, NEW first \in 0 .. FifoWords - 1,
           TypeInv, Serving(h, cmd, first), ~Answering,
           NEW take \in BOOLEAN, NEW byte \in Byte, NEW tready \in BOOLEAN,
           NEW drains \in BOOLEAN, EdgeFor(h, take, byte, tready, drains)
    PROVE  WordsInPlace(h, cmd, first)' /\ Reading(h, cmd, first)'
<1> DEFINE p == Preamble(cmd)
           m == cmd.length
<1>1. /\ Decoding(h, cmd) /\ WordsInPlace(h, cmd, first) /\ Reading(h, cmd, first)
      /\ Typed
  BY TypeFacts DEF Serving, TypeInv
<1>2. /\ Decode(take, byte, h, tready) /\ Readback(tready) /\ ReadBuffer(tready)
      /\ RegisterFile
  BY DEF EdgeFor
<1>3. /\ read_buffer.rd_data_count = 0 /\ ~m_axis_tvalid /\ ~m_axis_tlast
      /\ ~read_buffer_write /\ ~rfg_read_valid
      /\ ~cmd.write /\ todo[h] = <<>> => Forwarded(h) = m
      /\ cmd.write \/ todo[h] # <<>> => Forwarded(h) = 0
      /\ ~cmd.write /\ todo[h] # <<>> => fifo_words = first
  BY <1>1 DEF Reading, Quiet
<1>0. PICK leaves \in BOOLEAN : leaves <=> Leaves
  BY LeavesFacts
<1>4. /\ Forwarded(h)' = Forwarded(h)
      /\ \A k \in 1 .. Received(h)' : answer'[h][k] = WordOf(h, cmd, first, k)
      /\ \A k \in 1 .. Len(port') :
            port'[k] = WordOf(h, cmd, first, Received(h)' + k)
  <2> DEFINE acc == m_axis_tvalid /\ tready
  <2>1. acc \in BOOLEAN /\ ~acc /\ (acc <=> m_axis_tvalid /\ tready)
        /\ (m_axis_tvalid => m_axis_tdest = h)
    BY <1>3
  <2> HIDE DEF acc
  <2>2. /\ Received(h)' = Received(h) + One(leaves)
        /\ Len(port') = Len(port) - One(leaves) + One(acc)
        /\ Forwarded(h)' = Forwarded(h) + One(acc)
        /\ \A k \in 1 .. Received(h)' : answer'[h][k] = WordOf(h, cmd, first, k)
        /\ \A k \in 1 .. Len(port') :
              port'[k] = WordOf(h, cmd, first, Received(h)' + k)
        /\ leaves => Len(port) >= 1
        /\ tready <=> Len(port) < PortDepth
    BY <1>0, <1>1, <2>1, PortMoves
  <2>3. One(acc) = 0
    BY <2>1 DEF One
  <2>4. Forwarded(h) + 0 = Forwarded(h)
    <3>1. answer[h] \in Seq(Words) /\ port \in Seq(Words)
      BY DEF TypeInv
    <3>2. Forwarded(h) \in Nat
      BY <3>1 DEF Forwarded, Received
    <3> QED
      BY <3>2
  <2> QED
    BY <2>2, <2>3, <2>4
<1>5. ~m_axis_tvalid' /\ ~m_axis_tlast' /\ read_buffer_read' = TRUE
  BY <1>2, <1>3 DEF Readback, m_invalid, m_axis
<1>6. read_buffer'.rd_data_count = 0
  <2>1. PICK pop \in BOOLEAN, push \in BOOLEAN : ~pop /\ ~push
    OBVIOUS
  <2>2. /\ pop <=> ~write_stall(tready) /\ read_buffer.rd_data_count >= 1
        /\ push <=> read_buffer_write /\ read_buffer.rd_data_count < 4
    BY <1>3, <2>1
  <2>3. read_buffer'.rd_data_count =
           read_buffer.rd_data_count - One(pop) + One(push)
    BY <1>2, <2>2, ReadBufferMoves
  <2>4. One(pop) = 0 /\ One(push) = 0
    BY <2>1 DEF One
  <2>5. read_buffer'.rd_data_count = 0 - 0 + 0
    BY <1>3, <2>3, <2>4
  <2> QED
    BY <2>5
<1>7. ~read_buffer_write' /\ ~rfg_read_valid' /\ fifo_words' = fifo_words
  <2>1. ~rfg_read
    BY DEF rfg_read, Answering
  <2>2. ~read_buffer_write'
    BY <1>2, <1>3 DEF Decode, RfpHeader, RfpAddress, RfpAddressB, RfpLengthA,
                      RfpLengthB, RfpWriteValue, RfpRead, RfpReadFinish,
                      buffer, Answering
  <2> QED
    BY <1>2, <2>1, <2>2 DEF RegisterFile
<1>8. WordsInPlace(h, cmd, first)'
  <2>1. \A k \in 1 .. read_buffer'.rd_data_count : FALSE
    BY <1>6
  <2> QED
    BY <1>4, <1>5, <1>7, <2>1 DEF WordsInPlace
<1>9. Quiet'
  BY <1>5, <1>6, <1>7 DEF Quiet
<1>10. todo'[h] # <<>> => todo[h] # <<>>
  BY DEF EdgeFor
<1>11. m \in Nat /\ m >= 1 /\ cmd.write \in BOOLEAN
  BY CommandType, WordRange
<1>14. ~take => todo'[h] = todo[h]
  BY DEF EdgeFor
<1>12. CASE ~Answering'
  <2>1. ~cmd.write /\ todo[h] # <<>> => todo'[h] # <<>>
    <3> SUFFICES ASSUME ~cmd.write, todo[h] # <<>>
                 PROVE  todo'[h] # <<>>
      OBVIOUS
    <3>1. rfp_state # "RFP_WRITE_VALUE"
      BY <1>1 DEF Decoding
    <3>2. PICK n \in 0 .. p - 1 :
             todo[h] = Rest(cmd, n) /\ (n = p - 1 => rfp_state = "RFP_LENGTHB")
      BY <1>1, <3>1, StillSending
    <3>3. /\ p \in 4 .. 5 /\ Total(cmd) = p
          /\ \A k \in 0 .. Total(cmd) - 1 : Rest(cmd, k) # <<>>
      BY RestFacts
    <3>4. n \in 0 .. Total(cmd) - 1
      BY <3>3
    <3>5. CASE ~take
      BY <1>14, <3>5
    <3>6. CASE take
      <4>1. n # p - 1
        <5> SUFFICES ASSUME n = p - 1
                     PROVE  FALSE
          OBVIOUS
        <5>1. rfp_state' = "RFP_READ"
          BY <1>1, <3>2, <3>6, LengthTaken
        <5> QED
          BY <1>12, <5>1 DEF Answering
      <4>2. n + 1 \in 0 .. Total(cmd) - 1
        <5> HIDE DEF p
        <5> QED
          BY <3>3, <4>1
      <4>3. todo'[h] = Rest(cmd, n) \/ todo'[h] = Rest(cmd, n + 1)
        BY <3>2, <3>4, ByteTaken
      <4> QED
        BY <3>3, <3>4, <4>2, <4>3
    <3> QED
      BY <3>5, <3>6
  <2> QED
    BY <1>3, <1>4, <1>5, <1>7, <1>8, <1>9, <1>10, <1>11, <1>12, <2>1 DEF Reading
<1>13. CASE Answering'
  <2>1. /\ take /\ rfp_state = "RFP_LENGTHB" /\ rfp_state' = "RFP_READ"
        /\ ~cmd.write
    <3>1. rfp_state = "RFP_LENGTHB" /\ RfpLengthB(take, byte)
      BY <1>2, <1>13 DEF Decode, RfpHeader, RfpAddress, RfpAddressB, RfpLengthA,
                         RfpLengthB, RfpWriteValue, RfpRead, RfpReadFinish,
                         Answering
    <3>2. take
      BY <1>13, <3>1 DEF RfpLengthB, Answering
    <3>3. rfp_state' = IF cmd.write THEN "RFP_WRITE_VALUE" ELSE "RFP_READ"
      BY <1>1, <3>1, <3>2, LengthTaken
    <3> QED
      BY <1>11, <1>13, <3>1, <3>2, <3>3 DEF Answering
  <2>2. /\ rfg_current_length' = m /\ rfg_master_length' = m
        /\ rfg_address' = cmd.address
    BY <1>1, <2>1, LengthTaken
  <2>3. Forwarded(h)' = 0 /\ fifo_words' = first
    <3>1. todo[h] # <<>>
      BY <2>1 DEF EdgeFor
    <3> QED
      BY <1>3, <1>4, <1>7, <2>1, <3>1
  <2>4. One(m_axis_tvalid') = 0 /\ One(read_buffer_write') = 0 /\ One(rfg_read_valid') = 0
    BY <1>5, <1>7 DEF One
  <2>5. Offered(h)' = 0 /\ ReadOut(h)' = 0
    <3>1. Offered(h)' = 0 + 0 /\ ReadOut(h)' = Offered(h)' + 0 + 0 + 0
      BY <1>6, <2>3, <2>4 DEF Offered, Buffered, Entering, ReadOut
    <3> QED
      BY <3>1
  <2>6. AddressAt(cmd, 1) = cmd.address
    <3>1. 1 \in Nat /\ 1 >= 1
      OBVIOUS
    <3> QED
      BY <3>1, AddressFacts
  <2>7. (first + 0) % FifoWords = first
    <3>1. FifoWords \in Nat /\ FifoWords >= 1
      BY RfgAssumption
    <3>2. first \in Nat /\ first < FifoWords /\ first + 0 = first
      BY <3>1
    <3> QED
      BY <3>1, <3>2, SmallRemainder
  <2>8. m + 0 = m /\ 0 + 1 = 1
    BY <1>11
  <2>9. ReadOn(h, cmd, first)'
    BY <1>11, <2>1, <2>2, <2>3, <2>5, <2>6, <2>7, <2>8 DEF ReadOn
  <2>10. SuppliedNow'
    BY <1>5, <1>6, <1>7, <2>1, <2>4 DEF SuppliedNow, Supplied
  <2>11. ~transmitting'
    <3>1. Forwarded(h) = 0
      <4>1. todo[h] # <<>>
        BY <2>1 DEF EdgeFor
      <4> QED
        BY <1>3, <4>1
    <3>2. Len(answer[h]) \in Nat /\ Len(port) \in Nat /\ port \in Seq(Words)
      BY DEF TypeInv
    <3>3. Len(port) = 0
      BY <3>1, <3>2 DEF Forwarded, Received
    <3>4. ~Request
      BY <3>2, <3>3, EmptySeq DEF Request
    <3>5. transmitting => Forwarded(h) >= 1
      BY DEF Serving, Switching
    <3>6. ~transmitting
      BY <3>1, <3>5
    <3>7. transmitting' = IF Request /\ grant THEN TRUE ELSE transmitting /\ ~last_data
      BY DEF EdgeFor, Switch
    <3> QED
      BY <3>4, <3>6, <3>7
  <2> QED
    BY <1>5, <1>8, <1>13, <2>3, <2>9, <2>10, <2>11 DEF Reading
<1> QED
  BY <1>8, <1>12, <1>13

(* A word is read from the register file.                                  *)
LEMMA WordRead ==
    ASSUME NEW h, NEW cmd \in Command, NEW first \in 0 .. FifoWords - 1,
           TypeInv, ReadOn(h, cmd, first), rfg_read, RegisterFile,
           NEW r \in Nat, r = ReadOut(h), r + 1 <= cmd.length
    PROVE  /\ rfg_read_value' = Value(cmd, first, r + 1)
           /\ cmd.increment /\ (\A k \in 1 .. r + 1 : AddressAt(cmd, k) # FifoAddress)
                 => fifo_words' = first
           /\ ~cmd.increment /\ cmd.address = FifoAddress
                 => fifo_words' = (first + (r + 1)) % FifoWords
<1> DEFINE at == AddressAt(cmd, r + 1)
<1>1. /\ cmd.length \in Nat /\ cmd.length <= 65535
      /\ cmd.increment \in BOOLEAN
  BY CommandType, WordRange
<1>2. /\ rfg_address = at
      /\ cmd.increment /\ (\A k \in 1 .. r : AddressAt(cmd, k) # FifoAddress)
            => fifo_words = first
      /\ ~cmd.increment /\ cmd.address = FifoAddress
            => fifo_words = (first + r) % FifoWords
  BY DEF ReadOn, rfg_read
<1>3. /\ rfg_read_value' = IF at = FifoAddress THEN fifo_words ELSE at % 256
      /\ fifo_words' = IF at = FifoAddress THEN (fifo_words + 1) % FifoWords
                                           ELSE fifo_words
  BY <1>2 DEF RegisterFile
<1>4. r + 1 \in Nat /\ r + 1 >= 1
  OBVIOUS
<1>5. ~cmd.increment => at = cmd.address
  BY <1>4, AddressFacts
<1>6. Value(cmd, first, r + 1) =
          IF at # FifoAddress THEN at % 256
          ELSE IF cmd.increment THEN first ELSE (first + (r + 1) - 1) % FifoWords
  BY DEF Value, Answer
<1>7. (first + (r + 1) - 1) = first + r /\ first \in Nat
  BY RfgAssumption
<1>8. cmd.increment /\ at = FifoAddress => fifo_words = first
  <2> SUFFICES ASSUME cmd.increment, at = FifoAddress
               PROVE  \A k \in 1 .. r : AddressAt(cmd, k) # FifoAddress
    BY <1>2
  <2> TAKE k \in 1 .. r
  <2>1. /\ k \in Nat /\ 1 <= k /\ k < r + 1 /\ r + 1 <= 65535
    BY <1>1
  <2>2. AddressAt(cmd, k) # AddressAt(cmd, r + 1)
    BY <1>4, <2>1, AddressesDiffer
  <2> QED
    BY <2>2
<1>9. rfg_read_value' = Value(cmd, first, r + 1)
  <2>1. CASE at # FifoAddress
    BY <1>3, <1>6, <2>1
  <2>2. CASE at = FifoAddress /\ cmd.increment
    BY <1>3, <1>6, <1>8, <2>2
  <2>3. CASE at = FifoAddress /\ ~cmd.increment
    <3>1. fifo_words = (first + r) % FifoWords
      BY <1>2, <1>5, <2>3
    <3> QED
      BY <1>3, <1>6, <1>7, <2>3, <3>1
  <2> QED
    BY <1>1, <2>1, <2>2, <2>3
<1>10. ASSUME cmd.increment, \A k \in 1 .. r + 1 : AddressAt(cmd, k) # FifoAddress
       PROVE  fifo_words' = first
  <2>1. r + 1 \in 1 .. r + 1 /\ \A k \in 1 .. r : k \in 1 .. r + 1
    OBVIOUS
  <2>2. at # FifoAddress /\ fifo_words = first
    BY <1>2, <1>10, <2>1
  <2> QED
    BY <1>3, <2>2
<1>11. ASSUME ~cmd.increment, cmd.address = FifoAddress
       PROVE  fifo_words' = (first + (r + 1)) % FifoWords
  <2>1. fifo_words' = (((first + r) % FifoWords) + 1) % FifoWords
    BY <1>2, <1>3, <1>5, <1>11
  <2>2. first + r \in Nat /\ FifoWords \in Nat /\ FifoWords >= 1
        /\ (first + r) + 1 = first + (r + 1)
    BY <1>7, RfgAssumption
  <2>3. (((first + r) % FifoWords) + 1) % FifoWords = ((first + r) + 1) % FifoWords
    BY <2>2, RemainderOfNext
  <2> QED
    BY <2>1, <2>2, <2>3
<1> QED
  BY <1>9, <1>10, <1>11

(* What an edge does to the words on m_axis and into the read buffer.      *)
LEMMA AnswerMoves ==
    ASSUME NEW h, NEW cmd \in Command, TypeInv, Decoding(h, cmd), Answering,
           ~m_axis_tvalid => read_buffer_read,
           NEW take \in BOOLEAN, NEW byte \in Byte, NEW tready \in BOOLEAN,
           NEW drains \in BOOLEAN, EdgeFor(h, take, byte, tready, drains),
           NEW acc \in BOOLEAN, acc <=> m_axis_tvalid /\ tready,
           NEW pop \in BOOLEAN,
           pop <=> ~write_stall(tready) /\ read_buffer.rd_data_count >= 1,
           NEW done \in BOOLEAN,
           done <=> rfp_state = "RFP_READ_FINISH" /\ acc /\ read_buffer.rd_data_count = 0,
           NEW rd \in BOOLEAN,
           rd <=> rfp_state = "RFP_READ" /\ read_buffer.rd_data_count < 3
    PROVE  /\ todo'[h] = <<>> /\ read_buffer_read' = tready
           /\ pop => /\ m_axis_tvalid' /\ m_axis_tdata' = Held(read_buffer)[1]
                     /\ m_axis_tlast' = (m_axis_tlast \/ rfg_master_length = 1)
                     /\ rfg_master_length' = Down(rfg_master_length)
           /\ ~pop => rfg_master_length' = rfg_master_length
           /\ ~pop /\ ~done => /\ m_axis_tvalid' = m_axis_tvalid
                               /\ m_axis_tdata' = m_axis_tdata
                               /\ m_axis_tlast' = m_axis_tlast
           /\ done => ~m_axis_tvalid' /\ ~m_axis_tlast'
           /\ read_buffer_write' <=>
                 rfg_read_valid \/ (read_buffer_write /\ read_buffer.rd_data_count = 4)
           /\ read_buffer_data_in' = IF rfg_read_valid THEN rfg_read_value
                                                       ELSE read_buffer_data_in
           /\ rd => /\ rfg_current_length' = Down(rfg_current_length)
                    /\ rfg_address' = IF cmd.increment THEN Up(rfg_address)
                                                       ELSE rfg_address
           /\ ~rd => /\ rfg_current_length' = rfg_current_length
                     /\ rfg_address' = rfg_address
           /\ rfp_state' = IF done THEN "RFP_HEADER"
                           ELSE IF rd /\ rfg_current_length = 1 THEN "RFP_READ_FINISH"
                           ELSE rfp_state
           /\ rfg_read <=> rd
           /\ rfg_read_valid' = rfg_read
<1>1. /\ Decode(take, byte, h, tready) /\ Readback(tready) /\ RegisterFile
      /\ take => todo[h] # <<>>
      /\ todo'[h] = IF take THEN Tail(todo[h]) ELSE todo[h]
  BY DEF EdgeFor
<1>2. Typed /\ ReadSound
  BY TypeFacts DEF TypeInv
<1>3. /\ todo[h] = <<>> /\ HeaderKept(cmd)
      /\ rfp_state = "RFP_READ" \/ rfp_state = "RFP_READ_FINISH"
  BY DEF Decoding, Answering
<1>4. todo'[h] = <<>>
  BY <1>1, <1>3
<1>5. /\ empty <=> read_buffer.rd_data_count = 0
      /\ full <=> read_buffer.rd_data_count = 4
      /\ read_buffer.flags.almost_full <=> read_buffer.rd_data_count >= 3
      /\ read_buffer.rd_data_count \in 0 .. 4
      /\ read_buffer.rd_data_count >= 1 => read_buffer.data_out = Held(read_buffer)[1]
  BY <1>2, BufferOutputs DEF ReadSound, empty, full
<1>6. rfg_read <=> rd
  BY <1>5 DEF rfg_read
<1>7. /\ write_valid(tready) <=> acc
      /\ ~empty <=> read_buffer.rd_data_count >= 1
      /\ pop <=> ~write_stall(tready) /\ ~empty
      /\ done <=> empty /\ write_valid(tready) /\ rfp_state = "RFP_READ_FINISH"
  BY <1>5 DEF write_valid
<1>8. /\ pop => m_write_start /\ rfg_master_length' = Down(rfg_master_length)
      /\ ~pop => rfg_master_length' = rfg_master_length
      /\ ~pop /\ ~done => UNCHANGED m_axis
      /\ done => m_invalid
      /\ read_buffer_read' = tready
  <2>1. /\ read_buffer_read' = tready
        /\ rfg_master_length' = CountDown(tready)
        /\ IF empty /\ write_valid(tready) /\ rfp_state = "RFP_READ_FINISH"
           THEN m_invalid
           ELSE IF /\ ~empty
                   /\ \/ write_valid(tready)
                      \/ read_buffer_read /\ ~m_axis_tvalid
           THEN m_write_start
           ELSE UNCHANGED m_axis
    BY <1>1 DEF Readback
  <2>2. rfg_master_length' = IF pop THEN Down(rfg_master_length)
                                    ELSE rfg_master_length
    BY <1>7, <2>1 DEF CountDown
  <2>3. pop <=> /\ ~empty
                /\ \/ write_valid(tready)
                   \/ read_buffer_read /\ ~m_axis_tvalid
    BY <1>7 DEF write_stall, write_valid
  <2> QED
    BY <1>7, <2>1, <2>2, <2>3
<1>9. /\ pop => /\ m_axis_tvalid' /\ m_axis_tdata' = Held(read_buffer)[1]
                /\ m_axis_tlast' = (m_axis_tlast \/ rfg_master_length = 1)
      /\ ~pop /\ ~done => /\ m_axis_tvalid' = m_axis_tvalid
                          /\ m_axis_tdata' = m_axis_tdata
                          /\ m_axis_tlast' = m_axis_tlast
      /\ done => ~m_axis_tvalid' /\ ~m_axis_tlast'
  BY <1>5, <1>8 DEF m_write_start, m_invalid, m_axis
<1>10. /\ read_buffer_write' <=>
             rfg_read_valid \/ (read_buffer_write /\ read_buffer.rd_data_count = 4)
       /\ read_buffer_data_in' = IF rfg_read_valid THEN rfg_read_value
                                                   ELSE read_buffer_data_in
  <2>1. IF rfg_read_valid
        THEN read_buffer_write' = TRUE /\ read_buffer_data_in' = rfg_read_value
        ELSE /\ read_buffer_write' = (read_buffer_write /\ full)
             /\ read_buffer_data_in' = read_buffer_data_in
    BY <1>1, <1>3 DEF Decode, RfpHeader, RfpAddress, RfpAddressB, RfpLengthA,
                      RfpLengthB, RfpWriteValue, RfpRead, RfpReadFinish
  <2> QED
    BY <1>5, <2>1
<1>11. CASE rfp_state = "RFP_READ"
  <2>1. RfpRead /\ ~done
    BY <1>1, <1>11 DEF Decode, RfpHeader, RfpAddress, RfpAddressB, RfpLengthA,
                       RfpLengthB, RfpWriteValue, RfpRead, RfpReadFinish
  <2>2. rfg_header.increment <=> cmd.increment
    BY <1>3 DEF HeaderKept
  <2>3. /\ rd => /\ rfg_current_length' = Down(rfg_current_length)
                 /\ rfg_address' = IF cmd.increment THEN Up(rfg_address)
                                                    ELSE rfg_address
        /\ ~rd => /\ rfg_current_length' = rfg_current_length
                  /\ rfg_address' = rfg_address
        /\ rfp_state' = IF rd /\ rfg_current_length = 1 THEN "RFP_READ_FINISH"
                                                        ELSE "RFP_READ"
    BY <1>6, <2>1, <2>2 DEF RfpRead, LastRead
  <2> QED
    BY <1>1, <1>4, <1>6, <1>8, <1>9, <1>10, <1>11, <2>1, <2>3 DEF RegisterFile
<1>12. CASE rfp_state = "RFP_READ_FINISH"
  <2>1. RfpReadFinish(tready) /\ ~rd
    BY <1>1, <1>12 DEF Decode, RfpHeader, RfpAddress, RfpAddressB, RfpLengthA,
                       RfpLengthB, RfpWriteValue, RfpRead, RfpReadFinish
  <2>2. /\ rfg_current_length' = rfg_current_length /\ rfg_address' = rfg_address
        /\ rfp_state' = IF done THEN "RFP_HEADER" ELSE "RFP_READ_FINISH"
    BY <1>7, <1>12, <2>1 DEF RfpReadFinish, lengths
  <2> QED
    BY <1>1, <1>4, <1>6, <1>8, <1>9, <1>10, <1>12, <2>1, <2>2 DEF RegisterFile
<1> QED
  BY <1>3, <1>11, <1>12

(* What an edge does to the switch and to the egress FIFO: with room for   *)
(* three words the switch transmits before its input FIFO is full, and the *)
(* egress FIFO loses a word at every second edge at most.                  *)
Room == PortDepth - Len(port)
Free == EgressDepth - egress

LEMMA SwitchMoves ==
    ASSUME TypeInv, DrainGap >= 1, PortDepth >= 3,
           NEW tready \in BOOLEAN, NEW drains \in BOOLEAN,
           Switch(tready), Egress(drains), Receive,
           routed = transmitting, grant => Request,
           NEW acc \in BOOLEAN, Len(port') = Len(port) - One(Leaves) + One(acc)
    PROVE  /\ Room' \in Nat /\ Free' \in Nat /\ pace' \in Nat
           /\ transmitting' \in BOOLEAN /\ Ahead' \in 1 .. 3
           /\ Room' = Room + One(Leaves) - One(acc)
           /\ \E d \in 0 .. 1 : /\ Free' = Free - One(Leaves) + d
                                /\ d = 1 => pace = 0 /\ pace' >= 1
           /\ Leaves => transmitting /\ Free >= 1
           /\ transmitting /\ Room <= 1 /\ Free >= 1 => Leaves
           /\ transmitting /\ ~last_data => transmitting'
           /\ ~transmitting /\ acc /\ Room >= Ahead /\ Free >= 1
                 => transmitting' \/ (Room' >= Ahead' /\ Free' >= 1)
           /\ ~transmitting /\ ~acc /\ port = <<>> /\ egress = 0
                 => Room' >= Ahead' /\ Free' >= 1
<1>01. PICK leaves \in BOOLEAN, last \in BOOLEAN :
          (leaves <=> Leaves) /\ (last <=> last_data)
  <2>1. \A b : \E y \in BOOLEAN : y <=> b
    OBVIOUS
  <2> QED
    BY <2>1
<1>02. PICK l \in 0 .. 1, a \in 0 .. 1 :
          l = One(Leaves) /\ a = One(acc) /\ (l = 1 <=> leaves) /\ (a = 1 <=> acc)
  BY <1>01 DEF One
<1>03. PICK room \in Nat, free \in Nat, wait \in Nat :
          room = Room /\ free = Free /\ wait = pace
  <2>1. /\ Len(port) \in Nat /\ PortDepth \in Nat /\ Len(port) <= PortDepth
        /\ egress \in 0 .. EgressDepth /\ EgressDepth \in Nat /\ pace \in Nat
    BY RfgAssumption DEF TypeInv, TypeOK
  <2> QED
    BY <2>1 DEF Room, Free
<1>04. PICK moving \in BOOLEAN, ahead \in 1 .. 3 : moving = transmitting /\ ahead = Ahead
  <2>1. Ahead \in 1 .. 3
    BY DEF Ahead
  <2>2. transmitting \in BOOLEAN
    BY TypeFacts DEF TypeInv, Typed
  <2> QED
    BY <2>1, <2>2, Zenon
<1>0. /\ (leaves <=> Leaves) /\ (l = 1 <=> leaves) /\ (last <=> last_data)
      /\ room = PortDepth - Len(port) /\ (moving <=> transmitting)
      /\ ahead = Ahead /\ free = EgressDepth - egress /\ wait = pace
      /\ Len(port') = Len(port) - l + a
  <2>1. moving <=> transmitting
    BY <1>04
  <2> QED
    BY <1>01, <1>02, <1>03, <1>04, <2>1 DEF Room, Free
<1>1. /\ port' \in Seq(Words) /\ Len(port') <= PortDepth /\ pace' \in Nat
      /\ egress' \in 0 .. EgressDepth /\ transmitting' \in BOOLEAN
  BY PortTypes
<1>2. /\ port \in Seq(Words) /\ Len(port) <= PortDepth /\ egress \in 0 .. EgressDepth
  BY DEF TypeInv, TypeOK
<1>3. /\ PortDepth \in Nat /\ EgressDepth \in Nat /\ EgressDepth >= 1
      /\ DrainGap \in Nat
  BY RfgAssumption
<1>4. PICK n \in Nat, n2 \in Nat : n = Len(port) /\ n2 = Len(port')
  BY <1>1, <1>2, LenProperties
<1>5. (n = 0 <=> port = <<>>) /\ (n2 = 0 <=> port' = <<>>)
  BY <1>1, <1>2, <1>4, EmptySeq
<1>6. PICK d \in 0 .. 1 : d = 1 <=> drains
  <2>1. CASE drains
    BY <2>1
  <2>2. CASE ~drains
    BY <2>2
  <2> QED
    BY <2>1, <2>2
<1>7. /\ egress' = egress + (IF leaves THEN 1 ELSE 0) - (IF drains THEN 1 ELSE 0)
      /\ drains => egress > 0 /\ pace = 0
      /\ drains => pace' = DrainGap
  BY <1>0 DEF Egress, MayDrain
<1>8. egress' = egress + l - d
  BY <1>0, <1>2, <1>6, <1>7
<1>9. PICK free2 \in Nat : free2 = EgressDepth - egress' /\ free2 = free - l + d
  <2>1. PICK x \in Nat, y \in Nat, z \in Nat :
           x = egress /\ y = egress' /\ z = EgressDepth /\ y <= z
    BY <1>1, <1>2, <1>3
  <2>2. y = x + l - d /\ free = z - x
    BY <1>0, <1>8, <2>1
  <2>3. z - y \in Nat /\ z - y = free - l + d
    BY <2>1, <2>2
  <2> QED
    BY <2>1, <2>3
<1>10. PICK room2 \in Nat : room2 = PortDepth - n2 /\ room2 = room + l - a
  <2>1. n2 = n - l + a /\ room = PortDepth - n /\ n2 <= PortDepth
    BY <1>0, <1>1, <1>4
  <2>2. PortDepth - n2 \in Nat /\ PortDepth - n2 = room + l - a
    BY <1>3, <2>1
  <2> QED
    BY <2>2
<1>11. PICK ahead2 \in 1 .. 3 :
          /\ ahead2 = Ahead' /\ ahead2 = IF grant' THEN 1 ELSE IF n2 = 0 THEN 3 ELSE 2
  <2>1. Ahead' = IF grant' THEN 1 ELSE IF n2 = 0 THEN 3 ELSE 2
    BY <1>5 DEF Ahead
  <2>2. Ahead' \in 1 .. 3
    BY <2>1
  <2> QED
    BY <2>1, <2>2
<1>12. ahead = IF grant THEN 1 ELSE IF n = 0 THEN 3 ELSE 2
  BY <1>0, <1>5 DEF Ahead
<1>13. PICK wait2 \in Nat : wait2 = pace' /\ (d = 1 => wait = 0 /\ wait2 >= 1)
  BY <1>0, <1>1, <1>3, <1>6, <1>7
<1>14. PICK moving2 \in BOOLEAN : moving2 = transmitting'
  BY <1>1
<1>15. l = 1 => moving /\ free >= 1
  <2>1. leaves => transmitting /\ egress < EgressDepth
    BY <1>0, LeavesFacts
  <2> QED
    BY <1>0, <1>2, <1>3, <2>1
<1>16. moving /\ room <= 1 /\ free >= 1 => l = 1
  <2> SUFFICES ASSUME moving, room <= 1, free >= 1
               PROVE  Leaves
    BY <1>0
  <2>1. n >= 1
    BY <1>0, <1>3, <1>4
  <2>2. egress < EgressDepth
    BY <1>0, <1>2, <1>3
  <2> QED
    BY <1>0, <1>5, <2>1, <2>2 DEF Leaves, Shown, Ready
<1>17. /\ grant' = IF transmitting /\ ~last_data THEN grant ELSE Request /\ ~grant
       /\ transmitting' = IF Request /\ grant THEN TRUE ELSE transmitting /\ ~last_data
       /\ Request <=> n # 0 /\ ~transmitting /\ free >= 1
  <2>1. Ready <=> free >= 1
    BY <1>0, <1>2, <1>3 DEF Ready
  <2> QED
    BY <1>5, <2>1 DEF Switch, Request
<1>18. moving /\ ~last => moving2
  BY <1>0, <1>14, <1>17
<1>19. ASSUME ~moving, a = 1, room >= ahead, free >= 1
       PROVE  moving2 \/ (room2 >= ahead2 /\ free2 >= 1)
  <2>1. l = 0 /\ room2 = room - 1 /\ free2 >= 1
    BY <1>9, <1>10, <1>15, <1>19
  <2>2. CASE grant
    BY <1>14, <1>17, <2>2
  <2>3. CASE ~grant /\ n # 0
    <3>1. grant' /\ room >= 2
      BY <1>0, <1>12, <1>17, <1>19, <2>3
    <3> QED
      BY <1>11, <2>1, <3>1
  <2>4. CASE ~grant /\ n = 0
    <3>1. room >= 3
      BY <1>12, <1>19, <2>4
    <3>2. n2 = n - l + a
      BY <1>0, <1>4
    <3>3. n2 = 1
      BY <1>19, <2>1, <2>4, <3>2
    <3>4. ahead2 <= 2
      BY <1>11, <3>3
    <3> QED
      BY <2>1, <3>1, <3>4
  <2> QED
    BY <2>2, <2>3, <2>4
<1>20. ASSUME ~moving, a = 0, port = <<>>, egress = 0
       PROVE  room2 >= ahead2 /\ free2 >= 1
  <2>1. l = 0
    BY <1>15, <1>20
  <2>2. room >= 3
    BY <1>0, <1>3, <1>4, <1>5, <1>20
  <2>3. free >= 1
    BY <1>0, <1>3, <1>20
  <2>4. room2 = room /\ free2 >= free
    BY <1>9, <1>10, <1>20, <2>1
  <2> QED
    BY <2>2, <2>3, <2>4
<1>21. room2 = Room' /\ free2 = Free'
  BY <1>4, <1>9, <1>10 DEF Room, Free
<1>22. Room' \in Nat /\ Free' \in Nat /\ pace' \in Nat /\ Ahead' \in 1 .. 3
  BY <1>1, <1>11, <1>21
<1>23. Room' = Room + One(Leaves) - One(acc)
  BY <1>02, <1>03, <1>10, <1>21
<1>24. \E y \in 0 .. 1 : /\ Free' = Free - One(Leaves) + y
                         /\ y = 1 => pace = 0 /\ pace' >= 1
  BY <1>02, <1>03, <1>9, <1>13, <1>21
<1>25. /\ Leaves => transmitting /\ Free >= 1
       /\ transmitting /\ Room <= 1 /\ Free >= 1 => Leaves
       /\ transmitting /\ ~last_data => transmitting'
  BY <1>0, <1>03, <1>14, <1>15, <1>16, <1>18
<1>26. ~transmitting /\ acc /\ Room >= Ahead /\ Free >= 1
          => transmitting' \/ (Room' >= Ahead' /\ Free' >= 1)
  BY <1>0, <1>02, <1>03, <1>11, <1>14, <1>19, <1>21
<1>27. ~transmitting /\ ~acc /\ port = <<>> /\ egress = 0
          => Room' >= Ahead' /\ Free' >= 1
  BY <1>0, <1>02, <1>11, <1>20, <1>21
<1> QED
  BY <1>1, <1>22, <1>23, <1>24, <1>25, <1>26, <1>27

(* No more words are forwarded than were asked for.                        *)
LEMMA ForwardedFits ==
    ASSUME NEW h, Host = {h}, NEW cmd \in Command, NEW first, TypeInv,
           Serving(h, cmd, first)
    PROVE  Forwarded(h) \in Nat /\ Forwarded(h) <= cmd.length
<1>1. Reading(h, cmd, first) /\ Decoding(h, cmd)
  BY DEF Serving
<1>2. cmd.length \in Nat /\ cmd.length >= 1 /\ cmd.write \in BOOLEAN
  BY CommandType, WordRange
<1>3. Len(port) \in Nat /\ Len(answer[h]) \in Nat
  BY DEF TypeInv
<1>4. PICK f \in Nat : f = Forwarded(h)
  BY <1>3 DEF Forwarded, Received
<1>5. CASE Answering
  <2>1. ReadOn(h, cmd, first)
    BY <1>1, <1>5 DEF Reading
  <2>2. PICK n \in Nat : n = rfg_master_length
    BY TypeFacts, WordRange DEF TypeInv, Typed
  <2>3. n + (f + One(m_axis_tvalid)) = cmd.length /\ One(m_axis_tvalid) \in 0 .. 1
    BY <1>4, <2>1, <2>2 DEF ReadOn, Offered, One
  <2> QED
    BY <1>2, <1>4, <2>2, <2>3
<1>6. CASE ~Answering
  <2>1. Forwarded(h) = 0 \/ Forwarded(h) = cmd.length
    BY <1>1, <1>2, <1>6 DEF Reading
  <2> QED
    BY <1>2, <2>1
<1> QED
  BY <1>5, <1>6

(* The switch stays in step with the answer.                               *)
LEMMA SwitchingKept ==
    ASSUME NEW h, Host = {h}, NEW cmd \in Command, NEW first \in 0 .. FifoWords - 1,
           TypeInv, Serving(h, cmd, first), m_axis_tvalid => m_axis_tdest = h,
           NEW take \in BOOLEAN, NEW byte \in Byte, NEW tready \in BOOLEAN,
           NEW drains \in BOOLEAN, EdgeFor(h, take, byte, tready, drains)
    PROVE  Switching(h, cmd)'
<1>1. /\ WordsInPlace(h, cmd, first) /\ Switching(h, cmd) /\ Typed
      /\ Switch(tready) /\ Egress(drains)
  BY TypeFacts DEF Serving, TypeInv, EdgeFor
<1>2. PICK leaves \in BOOLEAN, acc \in BOOLEAN :
         (leaves <=> Leaves) /\ (acc <=> m_axis_tvalid /\ tready)
  <2>1. \A b : \E x \in BOOLEAN : x <=> b
    OBVIOUS
  <2> QED
    BY <2>1
<1>3. /\ Received(h)' = Received(h) + One(leaves)
      /\ Len(port') = Len(port) - One(leaves) + One(acc)
      /\ Forwarded(h)' = Forwarded(h) + One(acc)
  BY <1>1, <1>2, PortMoves
<1>4. PICK l \in 0 .. 1, a \in 0 .. 1 :
         l = One(leaves) /\ a = One(acc) /\ (l = 1 <=> leaves)
  BY DEF One
<1>5. PICK r \in Nat, n \in Nat : r = Received(h) /\ n = Len(port)
  <2>1. Len(answer[h]) \in Nat /\ Len(port) \in Nat
    BY DEF TypeInv
  <2> QED
    BY <2>1 DEF Received
<1>6. cmd.length \in Nat /\ r + n <= cmd.length
  <2>1. Forwarded(h) = r + n
    BY <1>5 DEF Forwarded
  <2> QED
    BY <2>1, ForwardedFits, CommandType, WordRange
<1>7. /\ Received(h)' = r + l /\ Len(port') = n - l + a
      /\ Forwarded(h) = r + n /\ Forwarded(h)' = r + n + a
  BY <1>3, <1>4, <1>5 DEF Forwarded
<1>8. /\ grant' = IF transmitting /\ ~last_data THEN grant ELSE Request /\ ~grant
      /\ transmitting' = IF Request /\ grant THEN TRUE ELSE transmitting /\ ~last_data
      /\ routed' = (grant \/ (routed /\ ~last_data))
      /\ routed = transmitting /\ (grant => Request)
      /\ transmitting => r < cmd.length /\ r + n >= 1
      /\ r = 0 => egress = 0
  BY <1>1, <1>5, <1>7 DEF Switch, Switching
<1>9. routed' = transmitting'
  <2>1. grant \in BOOLEAN /\ transmitting \in BOOLEAN /\ routed \in BOOLEAN
    BY <1>1 DEF Typed
  <2> QED
    BY <1>8, <2>1, Zenon
<1>10. n \in Nat /\ (n = 0 <=> port = <<>>)
  <2>1. port \in Seq(Words)
    BY DEF TypeInv
  <2> QED
    BY <1>5, <2>1, EmptySeq
<1>11. Request => n >= 1 /\ ~transmitting /\ egress < EgressDepth /\ l = 0
  <2>1. Request => ~Leaves
    BY LeavesFacts DEF Request
  <2> QED
    BY <1>2, <1>4, <1>10, <2>1 DEF Request, Ready
<1>12. /\ egress' = egress + l - (IF drains THEN 1 ELSE 0)
       /\ drains => egress > 0
       /\ egress \in 0 .. EgressDepth /\ EgressDepth \in Nat
  <2>1. egress \in 0 .. EgressDepth /\ EgressDepth \in Nat
    BY <1>1, RfgAssumption DEF Typed
  <2>2. l = IF Leaves THEN 1 ELSE 0
    BY <1>2, <1>4
  <2>3. /\ egress' = egress + (IF Leaves THEN 1 ELSE 0) - (IF drains THEN 1 ELSE 0)
        /\ drains => egress > 0
    BY <1>1 DEF Egress, MayDrain
  <2> QED
    BY <2>1, <2>2, <2>3
<1>13. grant' => Request'
  <2> SUFFICES ASSUME grant'
               PROVE  Request'
    OBVIOUS
  <2>1. Request /\ ~grant
    BY <1>8, <1>11
  <2>2. ~transmitting' /\ l = 0 /\ n >= 1
    BY <1>8, <1>11, <2>1
  <2>3. egress' < EgressDepth
    BY <1>11, <1>12, <2>1, <2>2
  <2>4. port' # <<>>
    <3>1. Len(port') >= 1
      BY <1>7, <2>2
    <3>2. Len(<<>>) = 0
      BY EmptySeq
    <3> QED
      BY <3>1, <3>2
  <2> QED
    BY <2>2, <2>3, <2>4 DEF Request, Ready
<1>14. transmitting' => Received(h)' < cmd.length /\ Forwarded(h)' >= 1
  <2> SUFFICES ASSUME transmitting'
               PROVE  r + l < cmd.length /\ r + n + a >= 1
    BY <1>7
  <2>1. CASE Request /\ grant
    BY <1>6, <1>11, <2>1
  <2>2. CASE ~(Request /\ grant)
    <3>1. transmitting /\ ~last_data
      BY <1>8, <2>2
    <3>2. l = 1 => r + 1 # cmd.length
      <4> SUFFICES ASSUME Leaves
                   PROVE  r + 1 # cmd.length
        BY <1>2, <1>4
      <4>1. Shown /\ ~Head(port).last
        BY <3>1 DEF Leaves, Shown, last_data
      <4>2. n >= 1 /\ Head(port) = port[1]
        <5>1. port # <<>> /\ port \in Seq(Words)
          BY <4>1 DEF Shown, TypeInv
        <5>2. n >= 1
          BY <1>10, <5>1
        <5>3. Head(port) = port[1]
          BY <5>1, HeadTailProperties
        <5> QED
          BY <5>2, <5>3
      <4>3. port[1] = WordOf(h, cmd, first, r + 1)
        BY <1>1, <1>5, <4>2 DEF WordsInPlace
      <4>4. port[1].last = (r + 1 = cmd.length)
        BY <4>3 DEF WordOf
      <4> QED
        BY <4>1, <4>2, <4>4
    <3> QED
      BY <1>6, <1>8, <3>1, <3>2
  <2> QED
    BY <2>1, <2>2
<1>15. Received(h)' = 0 => egress' = 0
  <2> SUFFICES ASSUME r + l = 0
               PROVE  egress' = 0
    BY <1>7
  <2>1. r = 0 /\ l = 0
    OBVIOUS
  <2>2. egress = 0 /\ ~drains
    BY <1>8, <1>12, <2>1
  <2>3. egress' = 0 + 0 - 0
    BY <1>12, <2>1, <2>2
  <2> QED
    BY <2>3
<1> QED
  BY <1>9, <1>13, <1>14, <1>15 DEF Switching

(* During a read the words move on without loss, repetition or exchange,   *)
(* until the last is accepted.                                             *)
LEMMA AnswerKept ==
    ASSUME NEW h, Host = {h}, DrainGap >= 1, PortDepth >= 3,
           NEW cmd \in Command, NEW first \in 0 .. FifoWords - 1,
           TypeInv, Serving(h, cmd, first), Answering,
           NEW take \in BOOLEAN, NEW byte \in Byte, NEW tready \in BOOLEAN,
           NEW drains \in BOOLEAN, EdgeFor(h, take, byte, tready, drains)
    PROVE  WordsInPlace(h, cmd, first)' /\ Reading(h, cmd, first)'
<1> DEFINE m == cmd.length
           fin == rfp_state = "RFP_READ_FINISH"
<1>0. PICK leaves \in BOOLEAN : leaves <=> Leaves
  BY LeavesFacts
<1>1. /\ Decoding(h, cmd) /\ WordsInPlace(h, cmd, first)
      /\ ReadOn(h, cmd, first) /\ SuppliedNow /\ Typed /\ Switching(h, cmd)
      /\ ~m_axis_tvalid => Forwarded(h) = 0 /\ read_buffer_read
      /\ transmitting /\ rfp_state = "RFP_READ" => port # <<>>
      /\ m_axis_tlast => m_axis_tvalid
      /\ rfp_state = "RFP_READ" \/ rfp_state = "RFP_READ_FINISH"
      /\ ReadBuffer(tready) /\ RegisterFile
  BY TypeFacts DEF Serving, TypeInv, Reading, Answering, EdgeFor
<1>2. /\ m_axis_tdest = h /\ ~cmd.write /\ m \in Nat /\ m >= 1 /\ m <= 65535
  BY <1>1, CommandType, WordRange DEF Decoding
<1>3. PICK q \in 0 .. 4 : q = read_buffer.rd_data_count
  BY <1>1 DEF Typed
<1>4. PICK acc \in BOOLEAN, pop \in BOOLEAN, push \in BOOLEAN,
           done \in BOOLEAN, rd \in BOOLEAN :
         /\ acc <=> m_axis_tvalid /\ tready
         /\ pop <=> ~write_stall(tready) /\ read_buffer.rd_data_count >= 1
         /\ push <=> read_buffer_write /\ read_buffer.rd_data_count < 4
         /\ done <=> rfp_state = "RFP_READ_FINISH" /\ acc
                         /\ read_buffer.rd_data_count = 0
         /\ rd <=> rfp_state = "RFP_READ" /\ read_buffer.rd_data_count < 3
  <2>1. \A b : \E x \in BOOLEAN : x <=> b
    OBVIOUS
  <2>2. PICK acc \in BOOLEAN : acc <=> m_axis_tvalid /\ tready
    BY <2>1
  <2>3. PICK pop \in BOOLEAN :
           pop <=> ~write_stall(tready) /\ read_buffer.rd_data_count >= 1
    BY <2>1
  <2>4. PICK push \in BOOLEAN : push <=> read_buffer_write /\ read_buffer.rd_data_count < 4
    BY <2>1
  <2>5. PICK done \in BOOLEAN : done <=> rfp_state = "RFP_READ_FINISH" /\ acc
                                             /\ read_buffer.rd_data_count = 0
    BY <2>1
  <2>6. PICK rd \in BOOLEAN :
           rd <=> rfp_state = "RFP_READ" /\ read_buffer.rd_data_count < 3
    BY <2>1
  <2> QED
    BY <2>2, <2>3, <2>4, <2>5, <2>6
<1>5. /\ todo'[h] = <<>> /\ read_buffer_read' = tready
      /\ pop => /\ m_axis_tvalid' /\ m_axis_tdata' = Held(read_buffer)[1]
                /\ m_axis_tlast' = (m_axis_tlast \/ rfg_master_length = 1)
                /\ rfg_master_length' = Down(rfg_master_length)
      /\ ~pop => rfg_master_length' = rfg_master_length
      /\ ~pop /\ ~done => /\ m_axis_tvalid' = m_axis_tvalid
                          /\ m_axis_tdata' = m_axis_tdata
                          /\ m_axis_tlast' = m_axis_tlast
      /\ done => ~m_axis_tvalid' /\ ~m_axis_tlast'
      /\ read_buffer_write' <=>
            rfg_read_valid \/ (read_buffer_write /\ read_buffer.rd_data_count = 4)
      /\ read_buffer_data_in' = IF rfg_read_valid THEN rfg_read_value
                                                  ELSE read_buffer_data_in
      /\ rd => /\ rfg_current_length' = Down(rfg_current_length)
               /\ rfg_address' = IF cmd.increment THEN Up(rfg_address)
                                                  ELSE rfg_address
      /\ ~rd => /\ rfg_current_length' = rfg_current_length
                /\ rfg_address' = rfg_address
      /\ rfp_state' = IF done THEN "RFP_HEADER"
                      ELSE IF rd /\ rfg_current_length = 1 THEN "RFP_READ_FINISH"
                      ELSE rfp_state
      /\ rfg_read <=> rd
      /\ rfg_read_valid' = rfg_read
  BY <1>1, <1>4, AnswerMoves
<1>6. /\ Received(h)' = Received(h) + One(leaves)
      /\ Len(port') = Len(port) - One(leaves) + One(acc)
      /\ Forwarded(h)' = Forwarded(h) + One(acc)
      /\ \A k \in 1 .. Received(h)' : answer'[h][k] = WordOf(h, cmd, first, k)
      /\ \A k \in 1 .. Len(port') :
            port'[k] = WordOf(h, cmd, first, Received(h)' + k)
      /\ leaves => Len(port) >= 1
      /\ tready <=> Len(port) < PortDepth
  BY <1>0, <1>1, <1>2, <1>4, PortMoves, SMTT(30)
<1>7. /\ read_buffer'.rd_data_count =
            read_buffer.rd_data_count - One(pop) + One(push)
      /\ \A k \in 1 .. read_buffer'.rd_data_count :
            Held(read_buffer')[k] =
               IF k + One(pop) <= read_buffer.rd_data_count
               THEN Held(read_buffer)[k + One(pop)] ELSE read_buffer_data_in
  BY <1>1, <1>4, ReadBufferMoves
<1>81. PICK o \in BOOLEAN, e \in BOOLEAN : o = m_axis_tvalid /\ e = fin
  BY <1>1, Zenon DEF Typed
<1>82. PICK w \in 0 .. 1, v \in 0 .. 1 :
          w = One(read_buffer_write) /\ v = One(rfg_read_valid)
  BY DEF One
<1>83. PICK room \in Nat : room = PortDepth - Len(port)
  <2>1. Len(port) \in Nat /\ PortDepth \in Nat /\ Len(port) <= PortDepth
    BY <1>1, RfgAssumption DEF Typed, TypeInv
  <2> QED
    BY <2>1
<1>84. PICK wait \in Nat, free \in Nat : wait = pace /\ free = EgressDepth - egress
  <2>1. egress \in 0 .. EgressDepth /\ EgressDepth \in Nat /\ pace \in Nat
    BY <1>1, RfgAssumption DEF Typed, TypeInv
  <2> QED
    BY <2>1
<1>85. PICK moving \in BOOLEAN, ahead \in 1 .. 3 : moving = transmitting /\ ahead = Ahead
  <2>1. Ahead \in 1 .. 3
    BY DEF Ahead
  <2>2. transmitting \in BOOLEAN
    BY <1>1 DEF Typed
  <2> QED
    BY <2>1, <2>2, Zenon
<1>8. /\ (o <=> m_axis_tvalid) /\ (e <=> fin)
      /\ w = One(read_buffer_write) /\ v = One(rfg_read_valid)
      /\ room = PortDepth - Len(port) /\ (moving <=> transmitting)
      /\ ahead = Ahead /\ free = EgressDepth - egress /\ wait = pace
      /\ o \in BOOLEAN /\ e \in BOOLEAN /\ w \in 0 .. 1 /\ v \in 0 .. 1
      /\ room \in Nat /\ moving \in BOOLEAN /\ ahead \in 1 .. 3
      /\ free \in Nat /\ wait \in Nat
      /\ Supplied(o, e, q, w, v, room, moving, ahead, free, wait)
  <2>1. (o <=> m_axis_tvalid) /\ (e <=> fin) /\ (moving <=> transmitting)
    BY <1>81, <1>85
  <2>2. Supplied(o, e, q, w, v, room, moving, ahead, free, wait)
    BY <1>1, <1>3, <1>81, <1>82, <1>83, <1>84, <1>85 DEF SuppliedNow
  <2> QED
    BY <1>81, <1>82, <1>83, <1>84, <1>85, <2>1, <2>2
<1>9. /\ (read_buffer_write <=> w = 1) /\ (rfg_read_valid <=> v = 1)
      /\ tready <=> room >= 1
  <2>1. (read_buffer_write <=> w = 1) /\ (rfg_read_valid <=> v = 1)
    BY <1>8 DEF One
  <2>2. Len(port) \in Nat /\ PortDepth \in Nat
    BY RfgAssumption DEF TypeInv
  <2> QED
    BY <1>6, <1>8, <2>1, <2>2
<1>10. /\ acc /\ ~e => q >= 1
       /\ done => w = 0 /\ v = 0 /\ q = 0 /\ o /\ e /\ acc
       /\ q = 4 => v = 0
  <2>1. /\ o /\ ~e /\ room >= 1 => q >= 1
        /\ o /\ e /\ q = 0 => w = 0 /\ v = 0
        /\ q = 4 => v = 0
    BY <1>8 DEF Supplied, Slow
  <2> QED
    BY <1>3, <1>4, <1>8, <1>9, <2>1
(* The same in numbers.                                                    *)
<1>11. PICK a \in 0 .. 1, p \in 0 .. 1, s \in 0 .. 1, x \in 0 .. 1, t \in 0 .. 1 :
          /\ a = One(acc) /\ p = One(pop) /\ s = One(push) /\ x = One(rd)
          /\ t = One(m_axis_tvalid)
          /\ (a = 1 <=> acc) /\ (p = 1 <=> pop) /\ (s = 1 <=> push) /\ (x = 1 <=> rd)
          /\ (t = 1 <=> o)
  BY <1>8 DEF One
<1>12. /\ a = 1 <=> t = 1 /\ room >= 1
       /\ p = 1 <=> q >= 1 /\ (t = 1 => room >= 1)
       /\ s = 1 <=> w = 1 /\ q < 4
       /\ x = 1 <=> ~e /\ q < 3
       /\ done <=> e /\ a = 1 /\ q = 0
  <2>1. pop <=> q >= 1 /\ (o => tready)
    BY <1>3, <1>4, <1>8 DEF write_stall
  <2> QED
    BY <1>1, <1>3, <1>4, <1>8, <1>9, <1>11, <2>1
<1>13. PICK f \in Nat : f = Forwarded(h)
  <2>1. Len(answer[h]) \in Nat /\ Len(port) \in Nat
    BY DEF TypeInv
  <2> QED
    BY <2>1 DEF Forwarded, Received
<1>14. /\ Offered(h) = f + t /\ Buffered(h) = f + t + q
       /\ Entering(h) = f + t + q + w /\ ReadOut(h) = f + t + q + w + v
  BY <1>3, <1>8, <1>11, <1>13 DEF Offered, Buffered, Entering, ReadOut
<1>15. PICK c \in Nat, n \in Nat :
          /\ c = rfg_current_length /\ n = rfg_master_length
          /\ c <= 65535 /\ n <= 65535
          /\ c + (f + t + q + w + v) = m /\ n + (f + t) = m
          /\ ~e => c >= 1
          /\ e => c = 0
  <2>1. PICK c \in Nat, n \in Nat :
           c = rfg_current_length /\ n = rfg_master_length
           /\ c <= 65535 /\ n <= 65535
    BY <1>1, WordRange DEF Typed
  <2>2. rfp_state = "RFP_READ" <=> ~e
    BY <1>1, <1>8
  <2> QED
    BY <1>1, <1>8, <1>14, <2>1, <2>2 DEF ReadOn
<1>16. /\ rd => c >= 1 /\ Down(rfg_current_length) = c - 1
       /\ pop => n >= 1 /\ Down(rfg_master_length) = n - 1
  <2>1. rd => c >= 1
    <3>1. x = 1 => c >= 1
      BY <1>12, <1>15
    <3> QED
      BY <1>11, <3>1
  <2>2. pop => n >= 1
    <3>1. n + (f + t) = c + (f + t + q + w + v)
      BY <1>15
    <3>2. q >= 1 => n >= 1
      BY <3>1
    <3>3. p = 1 => q >= 1
      BY <1>12
    <3> QED
      BY <1>11, <3>2, <3>3
  <2>3. /\ c >= 1 => Down(rfg_current_length) = c - 1
        /\ n >= 1 => Down(rfg_master_length) = n - 1
    BY <1>15, CountingDown
  <2> QED
    BY <2>1, <2>2, <2>3
<1>17. PICK q2 \in 0 .. 4, w2 \in 0 .. 1 :
          /\ q2 = read_buffer'.rd_data_count /\ w2 = One(read_buffer_write')
          /\ q2 = q - p + s
          /\ w2 = 1 <=> v = 1 \/ (w = 1 /\ q = 4)
          /\ w2 = 1 <=> read_buffer_write'
  <2>1. q - p + s \in 0 .. 4
    BY <1>12
  <2>2. read_buffer'.rd_data_count = q - p + s
    BY <1>3, <1>7, <1>11
  <2>3. PICK w2 \in 0 .. 1 : w2 = One(read_buffer_write') /\ (w2 = 1 <=> read_buffer_write')
    BY DEF One
  <2>4. w2 = 1 <=> v = 1 \/ (w = 1 /\ q = 4)
    BY <1>3, <1>5, <1>9, <2>3
  <2> QED
    BY <2>1, <2>2, <2>3, <2>4
<1>18. One(rfg_read_valid') = x /\ (rfg_read_valid' <=> x = 1)
  BY <1>5, <1>11 DEF One, rfg_read
<1>19. Forwarded(h)' = f + a
  BY <1>6, <1>11, <1>13
<1>20. CASE ~done
  <2>1. PICK u \in 0 .. 1 :
           /\ u = One(m_axis_tvalid') /\ (u = 1 <=> m_axis_tvalid')
           /\ u = 1 <=> t = 1 \/ q >= 1
           /\ a + u = t + p
    <3>1. PICK u \in 0 .. 1 : u = One(m_axis_tvalid') /\ (u = 1 <=> m_axis_tvalid')
      BY DEF One
    <3>2. u = 1 <=> p = 1 \/ t = 1
      BY <1>5, <1>8, <1>11, <1>20, <3>1
    <3>3. a = 1 => q >= 1
      BY <1>10, <1>11, <1>12, <1>20
    <3> QED
      BY <1>12, <3>1, <3>2, <3>3
  <2>2. s + w2 = w + v
    BY <1>10, <1>12, <1>17
  <2>3. /\ Offered(h)' = f + t + p /\ Buffered(h)' = f + t + q + s
        /\ Entering(h)' = f + t + q + w + v /\ ReadOut(h)' = f + t + q + w + v + x
    <3>1. /\ Offered(h)' = f + a + u /\ Buffered(h)' = Offered(h)' + q2
          /\ Entering(h)' = Buffered(h)' + w2 /\ ReadOut(h)' = Entering(h)' + x
      BY <1>17, <1>18, <1>19, <2>1 DEF Offered, Buffered, Entering, ReadOut
    <3>2. f + a + u = f + t + p /\ f + t + p + q2 = f + t + q + s
          /\ f + t + q + s + w2 = f + t + q + w + v
      BY <1>17, <2>1, <2>2
    <3> QED
      BY <3>1, <3>2
  <2>4. ReadOn(h, cmd, first)'
    <3> DEFINE r == f + t + q + w + v
    <3>1. r \in Nat /\ c + r = m /\ r = ReadOut(h) /\ ReadOut(h)' = r + x
      BY <1>14, <1>15, <2>3
    <3>2. /\ cmd.increment /\ (\A k \in 1 .. r : AddressAt(cmd, k) # FifoAddress)
                => fifo_words = first
          /\ ~cmd.increment /\ cmd.address = FifoAddress
                => fifo_words = (first + r) % FifoWords
          /\ rfp_state = "RFP_READ" => rfg_address = AddressAt(cmd, r + 1)
      BY <1>1, <3>1 DEF ReadOn
    <3>3. rfg_master_length' + Offered(h)' = m
      <4>1. CASE pop
        <5>1. p = 1 /\ rfg_master_length' = n - 1
          BY <1>5, <1>11, <1>16, <4>1
        <5> QED
          BY <1>15, <2>3, <5>1
      <4>2. CASE ~pop
        <5>1. p = 0 /\ rfg_master_length' = n
          BY <1>5, <1>11, <1>15, <4>2
        <5> QED
          BY <1>15, <2>3, <5>1
      <4> QED
        BY <4>1, <4>2
    <3> HIDE DEF r
    <3>4. CASE rd
      <4>1. x = 1 /\ rfg_current_length' = c - 1 /\ c >= 1
        BY <1>5, <1>11, <1>16, <3>4
      <4>2. ReadOut(h)' = r + 1 /\ rfg_current_length' + ReadOut(h)' = m
            /\ r + 1 <= m
        BY <1>15, <3>1, <4>1
      <4>3. rfp_state = "RFP_READ" /\ rfg_read
        BY <1>4, <1>5, <3>4
      <4>4. /\ rfp_state' = "RFP_READ" => c # 1
            /\ rfp_state' = "RFP_READ_FINISH" => c = 1
        BY <1>5, <1>15, <1>20, <3>4, <4>3
      <4>5. rfg_address' = AddressAt(cmd, (r + 1) + 1)
        <5>1. r + 1 \in Nat /\ r + 1 >= 1 /\ (r + 1) + 1 \in Nat /\ (r + 1) + 1 >= 1
          BY <3>1
        <5>2. /\ cmd.increment => Up(AddressAt(cmd, r + 1)) = AddressAt(cmd, (r + 1) + 1)
              /\ ~cmd.increment => /\ AddressAt(cmd, r + 1) = cmd.address
                                   /\ AddressAt(cmd, (r + 1) + 1) = cmd.address
          BY <5>1, AddressFacts
        <5>3. rfg_address = AddressAt(cmd, r + 1) /\ cmd.increment \in BOOLEAN
          BY <3>2, <4>3, CommandType
        <5> QED
          BY <1>5, <3>4, <5>2, <5>3
      <4>6. /\ cmd.increment /\ (\A k \in 1 .. r + 1 : AddressAt(cmd, k) # FifoAddress)
                 => fifo_words' = first
            /\ ~cmd.increment /\ cmd.address = FifoAddress
                 => fifo_words' = (first + (r + 1)) % FifoWords
        BY <1>1, <3>1, <4>2, <4>3, WordRead
      <4>7. /\ rfp_state' = "RFP_READ" => rfg_current_length' >= 1
            /\ rfp_state' = "RFP_READ_FINISH" => rfg_current_length' = 0
        BY <1>15, <4>1, <4>4
      <4> QED
        BY <3>3, <4>2, <4>5, <4>6, <4>7 DEF ReadOn
    <3>5. CASE ~rd
      <4>1. x = 0 /\ rfg_current_length' = c /\ rfg_address' = rfg_address
        BY <1>5, <1>11, <1>15, <3>5
      <4>2. ReadOut(h)' = r /\ rfg_current_length' + ReadOut(h)' = m
        BY <1>15, <3>1, <4>1
      <4>3. rfp_state' = rfp_state
        BY <1>5, <1>20, <3>5
      <4>4. fifo_words' = fifo_words
        BY <1>1, <1>5, <3>5 DEF RegisterFile
      <4>5. /\ rfp_state' = "RFP_READ" => rfg_current_length' >= 1
            /\ rfp_state' = "RFP_READ_FINISH" => rfg_current_length' = 0
        BY <1>1, <1>8, <1>15, <4>1, <4>3
      <4> QED
        BY <3>2, <3>3, <4>1, <4>2, <4>3, <4>4, <4>5 DEF ReadOn
    <3> QED
      BY <3>4, <3>5
  <2>5. WordsInPlace(h, cmd, first)'
    <3>1. m_axis_tvalid' => /\ m_axis_tdata' = Value(cmd, first, Offered(h)')
                            /\ m_axis_tlast' = (Offered(h)' = m)
      <4> SUFFICES ASSUME m_axis_tvalid'
                   PROVE  /\ m_axis_tdata' = Value(cmd, first, Offered(h)')
                          /\ m_axis_tlast' = (Offered(h)' = m)
        OBVIOUS
      <4>1. /\ o => /\ m_axis_tdata = Value(cmd, first, f + t)
                    /\ m_axis_tlast = (f + t = m)
            /\ \A k \in 1 .. q : Held(read_buffer)[k] = Value(cmd, first, f + t + k)
        BY <1>1, <1>3, <1>8, <1>14 DEF WordsInPlace
      <4>2. CASE pop
        <5>1. p = 1 /\ q >= 1 /\ Offered(h)' = f + t + 1
          BY <1>11, <1>12, <2>3, <4>2
        <5>2. m_axis_tdata' = Value(cmd, first, f + t + 1)
          <6>1. 1 \in 1 .. q
            BY <5>1
          <6>2. Held(read_buffer)[1] = Value(cmd, first, f + t + 1)
            BY <4>1, <6>1
          <6> QED
            BY <1>5, <4>2, <6>2
        <5>3. ~m_axis_tlast
          <6>1. f + t # m
            BY <1>15, <5>1
          <6> QED
            BY <1>1, <1>8, <4>1, <6>1
        <5>4. (n = 1) = (f + t + 1 = m)
          BY <1>15
        <5>5. m_axis_tlast' = (n = 1)
          <6>1. m_axis_tlast' = (m_axis_tlast \/ rfg_master_length = 1)
            BY <1>5, <4>2, Zenon
          <6>2. (m_axis_tlast \/ rfg_master_length = 1) <=> rfg_master_length = 1
            BY <5>3
          <6>3. (m_axis_tlast \/ rfg_master_length = 1) = (rfg_master_length = 1)
            BY <6>2
          <6> QED
            BY <1>15, <6>1, <6>3
        <5> QED
          BY <5>1, <5>2, <5>4, <5>5
      <4>3. CASE ~pop
        <5>1. /\ m_axis_tvalid' = m_axis_tvalid /\ m_axis_tdata' = m_axis_tdata
              /\ m_axis_tlast' = m_axis_tlast
          BY <1>5, <1>20, <4>3, Zenon
        <5>2. o
          BY <1>8, <5>1, Zenon
        <5>3. Offered(h)' = f + t
          <6>1. p = 0
            BY <1>11, <4>3
          <6> QED
            BY <2>3, <6>1
        <5> QED
          BY <4>1, <5>1, <5>2, <5>3
      <4> QED
        BY <4>2, <4>3
    <3>2. read_buffer_write => read_buffer_data_in = Value(cmd, first, f + t + q + w)
      BY <1>1, <1>14 DEF WordsInPlace
    <3>3. \A k \in 1 .. read_buffer'.rd_data_count :
             Held(read_buffer')[k] = Value(cmd, first, Offered(h)' + k)
      <4> SUFFICES ASSUME NEW k \in 1 .. q2
                   PROVE  Held(read_buffer')[k] = Value(cmd, first, f + t + p + k)
        BY <1>17, <2>3
      <4>1. Held(read_buffer')[k] =
               IF k + p <= q THEN Held(read_buffer)[k + p] ELSE read_buffer_data_in
        BY <1>3, <1>7, <1>11, <1>17
      <4>2. CASE k + p <= q
        <5>1. k + p \in 1 .. q /\ f + t + (k + p) = f + t + p + k
          BY <4>2
        <5>2. Held(read_buffer)[k + p] = Value(cmd, first, f + t + (k + p))
          BY <1>1, <1>3, <1>14, <5>1 DEF WordsInPlace
        <5> QED
          BY <4>1, <4>2, <5>1, <5>2
      <4>3. CASE ~(k + p <= q)
        <5>1. s = 1
          BY <1>17, <4>3
        <5>2. w = 1
          BY <1>12, <5>1
        <5>3. f + t + q + w = f + t + p + k
          BY <1>17, <4>3, <5>1, <5>2
        <5>4. read_buffer_data_in = Value(cmd, first, f + t + p + k)
          BY <1>9, <3>2, <5>2, <5>3
        <5> QED
          BY <4>1, <4>3, <5>4
      <4> QED
        BY <4>2, <4>3
    <3>4. read_buffer_write' => read_buffer_data_in' = Value(cmd, first, Entering(h)')
      <4> SUFFICES ASSUME read_buffer_write'
                   PROVE  read_buffer_data_in' = Value(cmd, first, f + t + q + w + v)
        BY <2>3
      <4>1. CASE rfg_read_valid
        <5>1. rfg_read_value = Value(cmd, first, f + t + q + w + v)
          BY <1>1, <1>14, <4>1 DEF WordsInPlace
        <5> QED
          BY <1>5, <4>1, <5>1
      <4>2. CASE ~rfg_read_valid
        <5>1. read_buffer_write /\ v = 0
          BY <1>5, <1>9, <4>2
        <5>2. f + t + q + w = f + t + q + w + v
          BY <5>1
        <5> QED
          BY <1>5, <3>2, <4>2, <5>1, <5>2
      <4> QED
        BY <4>1, <4>2
    <3>5. rfg_read_valid' => rfg_read_value' = Value(cmd, first, ReadOut(h)')
      <4> SUFFICES ASSUME rfg_read_valid'
                   PROVE  rfg_read_value' = Value(cmd, first, ReadOut(h)')
        OBVIOUS
      <4>1. rd /\ x = 1 /\ rfg_read
        BY <1>5, <1>11
      <4>2. PICK r \in Nat : r = f + t + q + w + v
        OBVIOUS
      <4>3. r = ReadOut(h) /\ ReadOut(h)' = r + 1 /\ r + 1 <= m
        BY <1>12, <1>14, <1>15, <2>3, <4>1, <4>2
      <4>4. rfg_read_value' = Value(cmd, first, r + 1)
        BY <1>1, <4>1, <4>3, WordRead
      <4> QED
        BY <4>3, <4>4
    <3> QED
      BY <1>6, <3>1, <3>3, <3>4, <3>5 DEF WordsInPlace
  <2>6. SuppliedNow'
    <3>1. PICK o2 \in BOOLEAN, e2 \in BOOLEAN :
             /\ o2 = m_axis_tvalid' /\ e2 = (rfp_state' = "RFP_READ_FINISH")
      <4>1. m_axis_tvalid' \in BOOLEAN
        BY <1>5, <1>1, <1>20 DEF Typed
      <4>2. PICK o2 \in BOOLEAN : o2 = m_axis_tvalid'
        BY <4>1
      <4>3. (rfp_state' = "RFP_READ_FINISH") \in BOOLEAN
        OBVIOUS
      <4>4. PICK e2 \in BOOLEAN : e2 = (rfp_state' = "RFP_READ_FINISH")
        BY <4>3
      <4> QED
        BY <4>2, <4>4
    <3>2. o2 <=> o \/ q >= 1
      BY <1>11, <2>1, <3>1
    <3>3. (e => e2) /\ (e2 /\ ~e => x = 1)
      <4>1. e => ~rd
        BY <1>4, <1>8
      <4>2. e => e2
        BY <1>5, <1>8, <1>20, <3>1, <4>1
      <4>3. e2 /\ ~e => rd
        BY <1>5, <1>8, <1>20, <3>1
      <4> QED
        BY <1>11, <4>2, <4>3
    <3>4. PICK l \in 0 .. 1 : l = One(leaves) /\ (l = 1 <=> leaves)
      BY DEF One
    <3>5. PICK last \in BOOLEAN : last <=> last_data
      <4>1. \A b : \E y \in BOOLEAN : y <=> b
        OBVIOUS
      <4> QED
        BY <4>1
    <3>6. ~e => ~last
      <4> SUFFICES ASSUME last_data, ~e
                   PROVE  FALSE
        BY <3>5
      <4>1. port # <<>> /\ Head(port).last
        BY <1>1, <1>8 DEF last_data
      <4>2. Len(answer[h]) \in Nat /\ Len(port) \in Nat /\ port \in Seq(Words)
        BY DEF TypeInv
      <4>3. PICK r \in Nat, y \in Nat : r = Received(h) /\ y = Len(port)
        BY <4>2 DEF Received
      <4>4. y >= 1 /\ Head(port) = port[1]
        BY <4>1, <4>2, <4>3, EmptySeq, HeadTailProperties
      <4>5. port[1] = WordOf(h, cmd, first, r + 1)
        BY <1>1, <4>3, <4>4 DEF WordsInPlace
      <4>6. r + 1 = m
        <5>1. port[1].last = (r + 1 = m)
          BY <4>5 DEF WordOf
        <5> QED
          BY <4>1, <4>4, <5>1
      <4>7. f = r + y
        BY <1>13, <4>3 DEF Forwarded
      <4> QED
        BY <1>2, <1>15, <4>4, <4>6, <4>7
    <3>7. PICK room2 \in Nat, moving2 \in BOOLEAN, ahead2 \in 1 .. 3,
               free2 \in Nat, wait2 \in Nat, d \in 0 .. 1 :
             /\ room2 = PortDepth - Len(port') /\ moving2 = transmitting'
             /\ ahead2 = Ahead' /\ free2 = EgressDepth - egress' /\ wait2 = pace'
             /\ room2 = room + l - a /\ free2 = free - l + d
             /\ d = 1 => wait = 0 /\ wait2 >= 1
             /\ l = 1 => moving /\ free >= 1
             /\ moving /\ room <= 1 /\ free >= 1 => l = 1
             /\ moving /\ ~last => moving2
             /\ ~moving /\ a = 1 /\ room >= ahead /\ free >= 1
                   => moving2 \/ (room2 >= ahead2 /\ free2 >= 1)
             /\ ~moving /\ a = 0 /\ port = <<>> /\ egress = 0
                   => room2 >= ahead2 /\ free2 >= 1
      <4>1. /\ Switch(tready) /\ Egress(drains) /\ Receive
            /\ routed = transmitting /\ (grant => Request)
        BY <1>1 DEF EdgeFor, Switching
      <4>2. PICK d \in 0 .. 1 : /\ Free' = Free - One(Leaves) + d
                                /\ d = 1 => pace = 0 /\ pace' >= 1
        BY <1>0, <1>6, <4>1, SwitchMoves
      <4>3. /\ Room' \in Nat /\ Free' \in Nat /\ pace' \in Nat
            /\ transmitting' \in BOOLEAN /\ Ahead' \in 1 .. 3
            /\ Room' = Room + One(Leaves) - One(acc)
            /\ Leaves => transmitting /\ Free >= 1
            /\ transmitting /\ Room <= 1 /\ Free >= 1 => Leaves
            /\ transmitting /\ ~last_data => transmitting'
            /\ ~transmitting /\ acc /\ Room >= Ahead /\ Free >= 1
                  => transmitting' \/ (Room' >= Ahead' /\ Free' >= 1)
            /\ ~transmitting /\ ~acc /\ port = <<>> /\ egress = 0
                  => Room' >= Ahead' /\ Free' >= 1
        BY <1>0, <1>6, <4>1, SwitchMoves
      <4>4. /\ room = Room /\ free = Free /\ ahead = Ahead /\ wait = pace
            /\ l = One(Leaves) /\ a = One(acc)
        <5>1. room = Room /\ free = Free /\ ahead = Ahead /\ wait = pace
          BY <1>8 DEF Room, Free
        <5>2. One(Leaves) = One(leaves)
          BY <1>0 DEF One
        <5> QED
          BY <1>11, <3>4, <5>1, <5>2
      <4>5. /\ (moving <=> transmitting) /\ (l = 1 <=> Leaves) /\ (last <=> last_data)
            /\ (a = 1 <=> acc)
        BY <1>0, <1>8, <3>4, <3>5, <4>4 DEF One
      <4>6. PICK moving2 \in BOOLEAN : moving2 = transmitting'
        BY <4>3
      <4>7. PICK room2 \in Nat, ahead2 \in 1 .. 3, free2 \in Nat, wait2 \in Nat :
               room2 = Room' /\ ahead2 = Ahead' /\ free2 = Free' /\ wait2 = pace'
        BY <4>3
      <4>8. room2 = PortDepth - Len(port') /\ free2 = EgressDepth - egress'
        BY <4>7 DEF Room, Free
      <4>9. /\ room2 = room + l - a /\ free2 = free - l + d
            /\ d = 1 => wait = 0 /\ wait2 >= 1
        <5>1. Room' = room + l - a
          BY <4>3, <4>4
        <5>2. Free' = free - l + d
          BY <4>2, <4>4
        <5>3. d = 1 => wait = 0 /\ wait2 >= 1
          BY <4>2, <4>4, <4>7
        <5> QED
          BY <4>7, <5>1, <5>2, <5>3
      <4>10. /\ l = 1 => moving /\ free >= 1
             /\ moving /\ room <= 1 /\ free >= 1 => l = 1
             /\ moving /\ ~last => moving2
        BY <4>3, <4>4, <4>5, <4>6
      <4>11. ~moving /\ a = 1 /\ room >= ahead /\ free >= 1
                => moving2 \/ (room2 >= ahead2 /\ free2 >= 1)
        BY <4>3, <4>4, <4>5, <4>6, <4>7
      <4>12. ~moving /\ a = 0 /\ port = <<>> /\ egress = 0
                => room2 >= ahead2 /\ free2 >= 1
        BY <4>3, <4>4, <4>5, <4>7
      <4> QED
        BY <4>6, <4>7, <4>8, <4>9, <4>10, <4>11, <4>12
    <3>11. ~o => ~moving /\ a = 0 /\ port = <<>> /\ egress = 0
      <4> SUFFICES ASSUME ~o
                   PROVE  ~moving /\ a = 0 /\ port = <<>> /\ egress = 0
        OBVIOUS
      <4>1. Forwarded(h) = 0 /\ a = 0
        BY <1>1, <1>8, <1>11, <1>12
      <4>2. Len(answer[h]) \in Nat /\ Len(port) \in Nat /\ port \in Seq(Words)
        BY DEF TypeInv
      <4>3. Received(h) = 0 /\ Len(port) = 0
        BY <4>1, <4>2 DEF Forwarded, Received
      <4>4. ~(Forwarded(h) >= 1)
        BY <4>1
      <4> QED
        BY <1>1, <1>8, <4>1, <4>2, <4>3, <4>4, EmptySeq DEF Switching
    <3>8. ~o => room >= 1
      <4>1. ~o => tready
        <5> SUFFICES ASSUME ~o
                     PROVE  tready
          OBVIOUS
        <5>1. f = 0
          BY <1>1, <1>8, <1>13
        <5>2. Len(answer[h]) \in Nat /\ Len(port) \in Nat
          BY DEF TypeInv
        <5>3. Len(port) = 0
          BY <1>13, <5>1, <5>2 DEF Forwarded, Received
        <5> QED
          BY <1>6, <5>3, RfgAssumption
      <4> QED
        BY <1>9, <4>1
    <3>9. /\ a = 1 <=> o /\ room >= 1
          /\ p = 1 <=> q >= 1 /\ (o => room >= 1)
          /\ ~(o /\ room >= 1 /\ e /\ q = 0)
      BY <1>11, <1>12, <1>20
    <3>10. Supplied(o2, e2, q2, w2, x, room2, moving2, ahead2, free2, wait2)
      <4>1. /\ Supplied(o, e, q, w, v, room, moving, ahead, free, wait)
            /\ s = 1 <=> w = 1 /\ q < 4
            /\ x = 1 <=> ~e /\ q < 3
            /\ q2 = q - p + s
            /\ w2 = 1 <=> v = 1 \/ (w = 1 /\ q = 4)
            /\ room2 = room + l - a
        BY <1>8, <1>12, <1>17, <3>7
      <4>2. /\ free2 = free - l + d
            /\ d = 1 => wait = 0 /\ wait2 >= 1
            /\ l = 1 => moving /\ free >= 1
            /\ moving /\ room <= 1 /\ free >= 1 => l = 1
            /\ moving /\ ~e => moving2
            /\ ~moving /\ a = 1 /\ room >= ahead /\ free >= 1
                  => moving2 \/ (room2 >= ahead2 /\ free2 >= 1)
            /\ ~o => room2 >= ahead2 /\ free2 >= 1
        BY <3>6, <3>7, <3>11
      <4>3. CASE o /\ e
        BY ONLY <3>2, <3>3, <3>9, <4>1, <4>3 DEF Supplied
      <4>4. CASE o /\ ~e
        BY ONLY <3>2, <3>3, <3>9, <4>1, <4>2, <4>4 DEF Supplied, Slow
      <4>5. CASE ~o /\ e
        BY ONLY <3>2, <3>3, <3>8, <3>9, <4>1, <4>2, <4>5 DEF Supplied
      <4>6. CASE ~o /\ ~e
        BY ONLY <3>2, <3>3, <3>8, <3>9, <4>1, <4>2, <4>6 DEF Supplied
      <4> QED
        BY <4>3, <4>4, <4>5, <4>6
    <3> QED
      BY <1>17, <1>18, <3>1, <3>7, <3>10, Zenon DEF SuppliedNow
  <2>7. ~m_axis_tvalid' => Forwarded(h)' = 0 /\ read_buffer_read'
    <3> SUFFICES ASSUME ~m_axis_tvalid'
                 PROVE  Forwarded(h)' = 0 /\ read_buffer_read'
      OBVIOUS
    <3>1. t = 0 /\ a = 0
      BY <1>12, <2>1
    <3>2. f = 0
      BY <1>1, <1>8, <1>11, <1>13, <3>1
    <3>3. Forwarded(h)' = 0
      BY <1>19, <3>1, <3>2
    <3>4. Len(port) = 0
      <4>1. Len(answer[h]) \in Nat /\ Len(port) \in Nat
        BY DEF TypeInv
      <4> QED
        BY <1>13, <3>2, <4>1 DEF Forwarded, Received
    <3>5. tready
      BY <1>6, <3>4, RfgAssumption
    <3> QED
      BY <1>5, <3>3, <3>5
  <2>8. Answering'
    BY <1>1, <1>5, <1>20 DEF Answering
  <2>9. m_axis_tlast' => m_axis_tvalid'
    <3>1. CASE pop
      BY <1>5, <3>1
    <3>2. CASE ~pop
      <4>1. m_axis_tvalid' = m_axis_tvalid /\ m_axis_tlast' = m_axis_tlast
        BY <1>5, <1>20, <3>2, Zenon
      <4>2. m_axis_tlast => m_axis_tvalid
        BY <1>1
      <4> QED
        BY <4>1, <4>2, Zenon
    <3> QED
      BY <3>1, <3>2
  <2>10. transmitting' /\ rfp_state' = "RFP_READ" => port' # <<>>
    <3> SUFFICES ASSUME transmitting', rfp_state' = "RFP_READ"
                 PROVE  port' # <<>>
      OBVIOUS
    <3>1. rfp_state = "RFP_READ"
      BY <1>1, <1>5, <1>20
    <3>2. PICK y \in Nat, y2 \in Nat : y = Len(port) /\ y2 = Len(port')
      <4>1. port \in Seq(Words) /\ port' \in Seq(Words)
        BY <1>1, PortTypes DEF TypeInv, EdgeFor
      <4> QED
        BY <4>1, LenProperties
    <3>3. y >= 1
      <4>1. Switch(tready)
        BY DEF EdgeFor
      <4>2. transmitting \/ Request
        BY <4>1 DEF Switch
      <4>3. port # <<>>
        BY <1>1, <3>1, <4>2 DEF Request
      <4> QED
        BY <3>2, <4>3, EmptySeq DEF TypeInv
    <3>4. y2 = y - One(leaves) + One(acc)
      BY <1>6, <3>2
    <3>5. acc \/ y >= 3
      <4>1. m_axis_tvalid
        <5>1. Len(answer[h]) \in Nat
          BY DEF TypeInv
        <5>2. Forwarded(h) >= 1
          BY <3>2, <3>3, <5>1 DEF Forwarded, Received
        <5> QED
          BY <1>1, <5>2
      <4>2. tready <=> y < PortDepth
        BY <1>6, <3>2
      <4>3. PortDepth \in Nat
        BY RfgAssumption
      <4> QED
        BY <1>4, <3>2, <4>1, <4>2, <4>3
    <3>6. y2 >= 1
      BY <3>2, <3>3, <3>4, <3>5 DEF One
    <3> QED
      BY <3>2, <3>6, EmptySeq
  <2> QED
    BY <2>4, <2>5, <2>6, <2>7, <2>8, <2>9, <2>10 DEF Reading
<1>21. CASE done
  <2>1. /\ ~m_axis_tvalid' /\ ~m_axis_tlast' /\ rfp_state' = "RFP_HEADER"
        /\ todo'[h] = <<>>
    BY <1>5, <1>21
  <2>2. w = 0 /\ v = 0 /\ q = 0 /\ o /\ e /\ acc
    BY <1>10, <1>21
  <2>3. /\ a = 1 /\ t = 1 /\ p = 0 /\ s = 0 /\ x = 0 /\ w2 = 0 /\ q2 = 0
    <3>1. a = 1 /\ t = 1
      BY <1>11, <2>2
    <3>2. p = 0 /\ s = 0 /\ x = 0
      BY <1>12, <2>2
    <3>3. w2 = 0
      BY <1>17, <2>2
    <3>4. q2 = 0
      BY <1>17, <2>2, <3>2
    <3> QED
      BY <3>1, <3>2, <3>3, <3>4
  <2>4. Quiet'
    BY <1>17, <1>18, <2>1, <2>3 DEF Quiet
  <2>5. f + a = m
    BY <1>15, <2>2, <2>3
  <2>6. WordsInPlace(h, cmd, first)'
    <3>1. \A k \in 1 .. read_buffer'.rd_data_count : FALSE
      BY <1>17, <2>3
    <3> QED
      BY <1>6, <2>4, <3>1 DEF WordsInPlace, Quiet
  <2>7. ~Answering'
    BY <2>1 DEF Answering
  <2>8. Forwarded(h)' = m
    BY <1>19, <2>5
  <2> QED
    BY <1>2, <2>1, <2>4, <2>6, <2>7, <2>8 DEF Reading
<1> QED
  BY <1>20, <1>21

-----------------------------------------------------------------------------
(* Between two commands.                                                   *)

Resting(h) ==
    /\ rfp_state = "RFP_HEADER" /\ todo[h] = <<>> /\ port = <<>>
    /\ Quiet /\ ~m_axis_tlast
    /\ due \in Seq(Write) /\ WritesAsCommanded /\ Left = <<>>
    /\ ~grant /\ ~transmitting /\ ~routed

LEMMA UnaskedRests == ASSUME NEW h, TypeInv, Unasked(h) PROVE Resting(h)
<1>1. due = <<>> /\ ~rfg_write
  BY DEF Unasked
<1>2. due \in Seq(Write)
  BY <1>1, EmptySeq
<1>3. WritesAsCommanded /\ Left = <<>>
  BY <1>1 DEF WritesAsCommanded, Left
<1> QED
  BY <1>2, <1>3 DEF Unasked, Resting

(* A host asks again only when its last command was sent and, if that was  *)
(* a read, answered: nothing of it is left anywhere.                       *)
LEMMA ServedRests ==
    ASSUME NEW h, NEW cmd \in Command, NEW first, TypeInv,
           Serving(h, cmd, first), todo[h] = <<>>,
           cmd.write \/ ~(Received(h) < cmd.length)
    PROVE  Resting(h)
<1>1. /\ Decoding(h, cmd) /\ WritesDue(h, cmd) /\ Reading(h, cmd, first) /\ Typed
  BY TypeFacts DEF Serving, TypeInv
<1>2. /\ cmd.length \in Nat /\ cmd.length >= 1 /\ cmd.write \in BOOLEAN
  BY CommandType, WordRange
<1>3. PICK r \in Nat, p \in Nat : r = Received(h) /\ p = Len(port)
  <2>1. Len(answer[h]) \in Nat /\ Len(port) \in Nat
    BY DEF TypeInv
  <2> QED
    BY <2>1 DEF Received
<1>4. Forwarded(h) = r + p
  BY <1>3 DEF Forwarded
<1>5. ~Answering
  <2> SUFFICES ASSUME Answering
               PROVE  FALSE
    OBVIOUS
  <2>1. /\ ReadOn(h, cmd, first) /\ ~cmd.write
        /\ ~m_axis_tvalid => Forwarded(h) = 0
    BY <1>1 DEF Decoding, Reading
  <2>2. r >= cmd.length
    BY <1>2, <1>3, <2>1
  <2>3. CASE m_axis_tvalid
    <3>1. Offered(h) = r + p + 1
      BY <1>4, <2>3 DEF Offered, One
    <3>2. PICK n \in Nat : n = rfg_master_length
      BY <1>1, WordRange DEF Typed
    <3>3. n + (r + p + 1) = cmd.length
      BY <2>1, <3>1, <3>2 DEF ReadOn
    <3> QED
      BY <1>2, <2>2, <3>3
  <2>4. CASE ~m_axis_tvalid
    <3>1. r + p = 0
      BY <1>4, <2>1, <2>4
    <3> QED
      BY <1>2, <2>2, <3>1
  <2> QED
    BY <2>3, <2>4
<1>6. rfp_state # "RFP_WRITE_VALUE"
  <2> SUFFICES ASSUME rfp_state = "RFP_WRITE_VALUE"
               PROVE  FALSE
    OBVIOUS
  <2>1. /\ cmd.write /\ rfg_current_length >= 1
        /\ Rest(cmd, Preamble(cmd) + Taking(cmd)) = <<>>
        /\ rfg_current_length <= cmd.length
    BY <1>1 DEF Decoding
  <2>2. PICK c \in Nat, b \in Nat : c = rfg_current_length /\ b = Preamble(cmd)
    <3>1. rfg_current_length \in Nat
      BY <1>1, WordRange DEF Typed
    <3>2. Preamble(cmd) \in Nat
      BY RestFacts
    <3> QED
      BY <3>1, <3>2
  <2>3. b + Taking(cmd) \in 0 .. Total(cmd) - 1
    <3>1. Taking(cmd) = cmd.length - c /\ Total(cmd) = b + cmd.length
          /\ c >= 1 /\ c <= cmd.length
      BY <2>1, <2>2, RestFacts DEF Taking
    <3> QED
      BY <1>2, <3>1
  <2> QED
    BY <2>1, <2>2, <2>3, RestFacts
<1>7. rfp_state = "RFP_HEADER"
  <2> SUFFICES ASSUME rfp_state # "RFP_HEADER"
               PROVE  FALSE
    OBVIOUS
  <2>1. PICK n \in 0 .. Preamble(cmd) - 1 : todo[h] = Rest(cmd, n)
    BY <1>1, <1>5, <1>6, StillSending
  <2>2. n \in 0 .. Total(cmd) - 1
    <3>1. PICK b \in Nat, z \in Nat : b = Preamble(cmd) /\ z = Total(cmd)
      BY RestFacts
    <3>2. b <= z
      BY <1>2, <3>1, RestFacts
    <3> QED
      BY <2>1, <3>1, <3>2
  <2> QED
    BY <2>1, <2>2, RestFacts
<1>8. Left = <<>>
  <2>1. Begun(h, cmd) = cmd.length
    BY <1>7 DEF Begun
  <2> QED
    BY <1>1, <2>1, RestOfWritesFacts DEF WritesDue
<1>9. port = <<>>
  <2>1. p = 0
    <3>1. Forwarded(h) = IF cmd.write THEN 0 ELSE cmd.length
      BY <1>1, <1>2, <1>5 DEF Reading
    <3>2. ~cmd.write => r >= cmd.length
      BY <1>2, <1>3
    <3> QED
      BY <1>2, <1>4, <3>1, <3>2
  <2>2. port \in Seq(Words)
    BY DEF TypeInv
  <2> QED
    BY <1>3, <2>1, <2>2, EmptySeq
<1>10. Quiet /\ ~m_axis_tlast
  BY <1>1, <1>5 DEF Reading, Quiet
<1>11. ~grant /\ ~transmitting /\ ~routed
  <2>1. /\ routed = transmitting /\ (grant => Request)
        /\ transmitting => r < cmd.length /\ r + p >= 1
    BY <1>3, <1>4 DEF Serving, Switching
  <2>2. ~grant
    BY <1>9, <2>1 DEF Request
  <2>3. ~transmitting
    <3>1. Forwarded(h) = IF cmd.write THEN 0 ELSE cmd.length
      BY <1>1, <1>2, <1>5 DEF Reading
    <3>2. ~cmd.write => ~(r < cmd.length)
      BY <1>2, <1>3
    <3> QED
      BY <1>2, <1>4, <2>1, <3>1, <3>2
  <2> QED
    BY <2>1, <2>2, <2>3
<1> QED
  BY <1>1, <1>7, <1>8, <1>9, <1>10, <1>11 DEF Resting, WritesDue

LEMMA HeadAndRest ==
    ASSUME NEW S, NEW s \in Seq(S), s # <<>>, Tail(s) = <<>>, NEW t \in Seq(S)
    PROVE  s \o t # <<>> /\ Head(s \o t) = Head(s) /\ Tail(s \o t) = t
<1>1. Len(s) = 1 /\ Head(s) = s[1]
  <2>1. Len(<<>>) = 0
    BY EmptySeq
  <2>2. Len(Tail(s)) = Len(s) - 1
    BY HeadTailProperties
  <2>3. Len(s) \in Nat
    BY LenProperties
  <2>4. Len(s) = 1
    <3>1. PICK u : u = Tail(s)
      OBVIOUS
    <3>2. Len(u) = Len(s) - 1
      BY <2>2, <3>1
    <3>3. Len(u) = 0
      BY <2>1, <3>1
    <3> QED
      BY <2>3, <3>2, <3>3
  <2>5. Head(s) = s[1]
    BY <2>4
  <2> QED
    BY <2>4, <2>5
<1>2. PICK n \in Nat : n = Len(t)
  BY LenProperties
<1>3. /\ s \o t \in Seq(S) /\ Len(s \o t) = 1 + n
      /\ \A i \in 1 .. 1 + n : (s \o t)[i] = IF i <= 1 THEN s[i] ELSE t[i - 1]
  <2>1. /\ s \o t \in Seq(S) /\ Len(s \o t) = Len(s) + Len(t)
        /\ \A i \in 1 .. Len(s) + Len(t) :
              (s \o t)[i] = IF i <= Len(s) THEN s[i] ELSE t[i - Len(s)]
    BY ConcatProperties, Zenon
  <2> QED
    BY ONLY <1>1, <1>2, <2>1
<1>4. PICK st \in Seq(S) : st = s \o t
  BY <1>3
<1>5. st # <<>>
  <2>1. Len(<<>>) = 0
    BY EmptySeq
  <2>2. Len(st) # 0
    BY <1>3, <1>4
  <2> QED
    BY <2>1, <2>2
<1>6. Head(st) = Head(s)
  <2>1. 1 \in 1 .. 1 + n
    OBVIOUS
  <2>2. Head(st) = st[1]
    BY <1>5
  <2> QED
    BY <1>1, <1>3, <1>4, <2>1, <2>2
<1>7. Tail(st) = t
  <2>1. /\ Tail(st) \in Seq(S) /\ Len(Tail(st)) = Len(st) - 1
        /\ \A i \in 1 .. Len(Tail(st)) : Tail(st)[i] = st[i + 1]
    BY <1>5, HeadTailProperties
  <2>2. Len(Tail(st)) = n
    BY <1>3, <1>4, <2>1
  <2>3. \A i \in 1 .. n : Tail(st)[i] = t[i]
    <3> TAKE i \in 1 .. n
    <3>1. i + 1 \in 1 .. 1 + n /\ ~(i + 1 <= 1) /\ (i + 1) - 1 = i
      OBVIOUS
    <3>2. st[i + 1] = t[i]
      BY <1>3, <1>4, <3>1
    <3> QED
      BY <2>1, <2>2, <3>2
  <2>4. PICK r \in Seq(S) : r = Tail(st)
    BY <2>1
  <2>5. Len(r) = Len(t) /\ \A i \in 1 .. Len(r) : r[i] = t[i]
    BY <1>2, <2>2, <2>3, <2>4
  <2>6. r = t
    BY <2>5, SeqEqual
  <2> QED
    BY <2>4, <2>6
<1> QED
  BY <1>4, <1>5, <1>6, <1>7

(* The host asks: the decoder sees nothing of it yet.                      *)
LEMMA AskServed ==
    ASSUME NEW h, Host = {h}, Waits, NEW cmd \in Command, TypeInv, Resting(h),
           Ask(h, cmd), NEW first, first = fifo_words
    PROVE  Serving(h, cmd, first)'
<1>1. /\ todo' = [todo EXCEPT ![h] = BytesOf(cmd)]
      /\ answer' = [answer EXCEPT ![h] = <<>>]
      /\ due' = IF cmd.write THEN due \o Writes(cmd) ELSE due
      /\ UNCHANGED <<decoder, rfg, switch>>
  BY DEF Ask
<1>2. /\ rfp_state' = "RFP_HEADER" /\ port' = <<>> /\ Quiet' /\ ~m_axis_tlast'
      /\ rfg_write' = rfg_write /\ rfg_address' = rfg_address
      /\ rfg_write_value' = rfg_write_value /\ rfg_write_last' = rfg_write_last
      /\ fifo_words' = fifo_words
  BY <1>1 DEF Resting, Quiet, decoder, lengths, write, buffer, m_axis, rfg, switch
<1>3. todo'[h] = BytesOf(cmd) /\ answer'[h] = <<>>
  BY <1>1 DEF TypeInv
<1>4. todo'[h] = Rest(cmd, 0) /\ todo'[h] # <<>>
  BY <1>3, RestFacts
<1>5. Decoding(h, cmd)'
  BY <1>2, <1>4 DEF Decoding, Answering
<1>6. Begun(h, cmd)' = 0
  BY <1>2, <1>4 DEF Begun
<1>7. WritesDue(h, cmd)'
  <2>1. due \in Seq(Write) /\ WritesAsCommanded /\ Left = <<>>
    BY DEF Resting
  <2>2. Writes(cmd) \in Seq(Write)
    BY WritesFacts
  <2>3. due' \in Seq(Write)
    BY <1>1, <2>1, <2>2, ConcatProperties
  <2>4. CASE rfg_write
    <3>1. due # <<>> /\ Tail(due) = <<>>
          /\ Head(due) = [address |-> rfg_address, value |-> rfg_write_value,
                          last |-> rfg_write_last]
      BY <2>1, <2>4 DEF WritesAsCommanded, Left
    <3>2. /\ due \o Writes(cmd) # <<>> /\ Head(due \o Writes(cmd)) = Head(due)
          /\ Tail(due \o Writes(cmd)) = Writes(cmd)
      BY <2>1, <2>2, <3>1, HeadAndRest
    <3>4. due' # <<>> /\ Head(due') = Head(due)
          /\ Tail(due') = IF cmd.write THEN Writes(cmd) ELSE <<>>
      BY <1>1, <3>1, <3>2
    <3>5. WritesAsCommanded'
      BY <1>2, <3>1, <3>4 DEF WritesAsCommanded
    <3>6. Left' = IF cmd.write THEN RestOfWrites(cmd, 0) ELSE <<>>
      BY <1>2, <2>4, <3>4, RestOfWritesFacts DEF Left
    <3> QED
      BY <1>2, <1>6, <2>3, <3>5, <3>6 DEF WritesDue
  <2>5. CASE ~rfg_write
    <3>1. due = <<>>
      BY <2>1, <2>5 DEF Left
    <3>2. due' = IF cmd.write THEN Writes(cmd) ELSE <<>>
      <4>1. due \o Writes(cmd) = Writes(cmd)
        BY <2>2, <3>1
      <4> QED
        BY <1>1, <3>1, <4>1
    <3>3. WritesAsCommanded' /\ Left' = due'
      BY <1>2, <2>5 DEF WritesAsCommanded, Left
    <3> QED
      BY <1>2, <1>6, <2>3, <2>5, <3>2, <3>3, RestOfWritesFacts DEF WritesDue
  <2> QED
    BY <2>4, <2>5
<1>8. Received(h)' = 0 /\ Len(port') = 0 /\ Forwarded(h)' = 0
  <2>1. Len(<<>>) = 0
    BY EmptySeq
  <2>2. Received(h)' = 0 /\ Len(port') = 0
    BY <1>2, <1>3, <2>1 DEF Received
  <2> QED
    BY <2>2 DEF Forwarded
<1>9. WordsInPlace(h, cmd, first)'
  <2>1. read_buffer'.rd_data_count = 0
    BY <1>2 DEF Quiet
  <2>2. /\ \A k \in 1 .. Received(h)' : FALSE
        /\ \A k \in 1 .. Len(port') : FALSE
        /\ \A k \in 1 .. read_buffer'.rd_data_count : FALSE
    BY <1>8, <2>1
  <2> QED
    BY <1>2, <2>2 DEF WordsInPlace, Quiet
<1>10. Reading(h, cmd, first)'
  <2>1. ~Answering'
    BY <1>2 DEF Answering
  <2> QED
    BY <1>2, <1>4, <1>8, <2>1 DEF Reading
<1>11. Switching(h, cmd)'
  <2>1. ~grant /\ ~transmitting /\ ~routed /\ egress = 0
    BY DEF Resting, Ask
  <2>2. /\ grant' = grant /\ transmitting' = transmitting /\ routed' = routed
        /\ egress' = egress
    BY <1>1 DEF switch
  <2>3. routed' = transmitting'
    <3>1. grant \in BOOLEAN /\ transmitting \in BOOLEAN /\ routed \in BOOLEAN
      BY TypeFacts DEF TypeInv, Typed
    <3> QED
      BY <2>1, <2>2, <3>1, Zenon
  <2> QED
    BY <2>1, <2>2, <2>3 DEF Switching
<1> QED
  BY <1>5, <1>7, <1>9, <1>10, <1>11 DEF Serving

(* Nothing comes of what was not asked.                                    *)
LEMMA UnaskedKept ==
    ASSUME NEW h, TypeInv, Unasked(h),
           NEW take \in BOOLEAN, NEW byte \in Byte, NEW tready \in BOOLEAN,
           NEW drains \in BOOLEAN, EdgeFor(h, take, byte, tready, drains)
    PROVE  Unasked(h)'
<1>1. /\ todo[h] = <<>> /\ answer[h] = <<>> /\ port = <<>> /\ due = <<>>
      /\ rfp_state = "RFP_HEADER" /\ ~rfg_write /\ Quiet
      /\ ~grant /\ ~transmitting /\ ~routed /\ egress = 0
  BY DEF Unasked
<1>2. /\ Readback(tready) /\ ReadBuffer(tready) /\ Decode(take, byte, h, tready)
      /\ RegisterFile /\ Switch(tready) /\ Egress(drains) /\ Receive
      /\ due' = Left /\ (take => todo[h] # <<>>)
      /\ todo'[h] = IF take THEN Tail(todo[h]) ELSE todo[h]
  BY DEF EdgeFor
<1>3. ~take /\ ~Leaves /\ ~Request /\ ~drains
  BY <1>1, <1>2, LeavesFacts DEF Request, Egress, MayDrain
<1>4. RfpHeader(take, byte, h)
  BY <1>1, <1>2 DEF Decode, RfpHeader, RfpAddress, RfpAddressB, RfpLengthA,
                    RfpLengthB, RfpWriteValue, RfpRead, RfpReadFinish
<1>5. rfp_state' = "RFP_HEADER" /\ ~rfg_write' /\ ~read_buffer_write'
  BY <1>1, <1>3, <1>4 DEF RfpHeader, buffer, Quiet
<1>6. ~m_axis_tvalid' /\ ~m_axis_tlast'
  BY <1>1, <1>2 DEF Readback, Answering, m_invalid
<1>7. ~rfg_read_valid'
  BY <1>1, <1>2 DEF RegisterFile, rfg_read
<1>8. read_buffer'.rd_data_count = 0
  <2>1. PICK pop \in BOOLEAN, push \in BOOLEAN :
           /\ pop <=> ~write_stall(tready) /\ read_buffer.rd_data_count >= 1
           /\ push <=> read_buffer_write /\ read_buffer.rd_data_count < 4
    <3>1. \A b : \E x \in BOOLEAN : x <=> b
      OBVIOUS
    <3> QED
      BY <3>1
  <2>2. read_buffer'.rd_data_count = read_buffer.rd_data_count - One(pop) + One(push)
    BY <1>2, <2>1, ReadBufferMoves
  <2>3. read_buffer.rd_data_count = 0 /\ ~read_buffer_write
    BY <1>1 DEF Quiet
  <2>4. ~pop /\ ~push
    BY <2>1, <2>3
  <2> QED
    BY <2>2, <2>3, <2>4 DEF One
<1>9. port' = <<>> /\ answer'[h] = <<>>
  BY <1>1, <1>2, <1>3 DEF Switch, Receive, write_valid, Quiet
<1>10. todo'[h] = <<>> /\ due' = <<>>
  BY <1>1, <1>2, <1>3 DEF Left
<1>11. ~grant' /\ ~transmitting' /\ ~routed' /\ egress' = 0
  BY <1>1, <1>2, <1>3 DEF Switch, Egress
<1> QED
  BY <1>5, <1>6, <1>7, <1>8, <1>9, <1>10, <1>11 DEF Unasked, Quiet

LEMMA EdgeKeeps ==
    ASSUME NEW h, Host = {h}, DrainGap >= 1, PortDepth >= 3,
           IInv(h), TypeInv',
           NEW take \in BOOLEAN, NEW byte \in Byte, NEW tready \in BOOLEAN,
           NEW drains \in BOOLEAN, EdgeFor(h, take, byte, tready, drains)
    PROVE  IInv(h)'
<1>1. TypeInv /\ asked' = asked
  BY DEF IInv, EdgeFor
<1>2. CASE asked[h] = <<>> /\ Unasked(h)
  <2>1. Unasked(h)'
    BY <1>1, <1>2, UnaskedKept
  <2> QED
    BY <1>1, <1>2, <2>1 DEF IInv
<1>3. ASSUME NEW cmd \in Command, NEW first \in 0 .. FifoWords - 1,
             asked[h] = <<cmd, first>>, Serving(h, cmd, first)
      PROVE  IInv(h)'
  <2>1. Decoding(h, cmd) /\ WritesDue(h, cmd)
    BY <1>3 DEF Serving
  <2>2. Decoding(h, cmd)' /\ WritesDue(h, cmd)'
    BY <1>1, <2>1, DecodingKept, WritesKept
  <2>3. WordsInPlace(h, cmd, first)' /\ Reading(h, cmd, first)'
    <3>1. CASE Answering
      BY <1>1, <1>3, <3>1, AnswerKept
    <3>2. CASE ~Answering
      BY <1>1, <1>3, <3>2, QuietKept
    <3> QED
      BY <3>1, <3>2
  <2>6. Switching(h, cmd)'
    <3>1. m_axis_tvalid => m_axis_tdest = h
      <4>1. m_axis_tvalid => Answering
        BY <1>3 DEF Serving, Reading, Quiet
      <4> QED
        BY <2>1, <4>1 DEF Decoding, Answering
    <3> QED
      BY <1>1, <1>3, <3>1, SwitchingKept
  <2>4. Serving(h, cmd, first)'
    BY <2>2, <2>3, <2>6 DEF Serving
  <2>5. asked'[h] = <<cmd, first>>
    BY <1>1, <1>3
  <2> QED
    BY <2>4, <2>5 DEF IInv
<1> QED
  BY <1>2, <1>3 DEF IInv

LEMMA AskKeeps ==
    ASSUME NEW h, Host = {h}, Waits, IInv(h), TypeInv', NEW cmd \in Command, Ask(h, cmd)
    PROVE  IInv(h)'
<1>1. TypeInv /\ todo[h] = <<>> /\ ~Unanswered(h)
  BY DEF IInv, Ask
<1>2. Resting(h)
  <2>1. CASE asked[h] = <<>> /\ Unasked(h)
    BY <1>1, <2>1, UnaskedRests
  <2>2. ASSUME NEW old \in Command, NEW first \in 0 .. FifoWords - 1,
               asked[h] = <<old, first>>, Serving(h, old, first)
        PROVE  Resting(h)
    <3>1. asked[h] # <<>> /\ asked[h][1] = old
      BY <2>2
    <3>2. old.write \/ ~(Received(h) < old.length)
      BY <1>1, <3>1 DEF Unanswered, Received
    <3> QED
      BY <1>1, <2>2, <3>2, ServedRests
  <2> QED
    BY <2>1, <2>2 DEF IInv
<1>3. PICK first \in 0 .. FifoWords - 1 : first = fifo_words
  BY <1>1 DEF TypeInv
<1>4. Serving(h, cmd, first)'
  BY <1>1, <1>2, <1>3, AskServed
<1>5. asked'[h] = <<cmd, first>>
  <2>1. asked' = [asked EXCEPT ![h] = <<cmd, fifo_words>>]
    BY DEF Ask
  <2> QED
    BY <1>1, <1>3, <2>1 DEF TypeInv
<1> QED
  BY <1>4, <1>5 DEF IInv

LEMMA InitKeeps == ASSUME NEW h, h \in Host, Init PROVE IInv(h)
<1>1. TypeInv
  BY InitTypes
<1>2. /\ asked[h] = <<>> /\ todo[h] = <<>> /\ answer[h] = <<>> /\ port = <<>>
      /\ due = <<>> /\ rfp_state = "RFP_HEADER" /\ ~rfg_write /\ ~m_axis_tlast
      /\ ~m_axis_tvalid /\ ~read_buffer_write /\ ~rfg_read_valid
  BY DEF Init
<1>3. read_buffer.rd_data_count = 0
  BY DEF Init, Fifo!FreshFifo
<1>4. ~grant /\ ~transmitting /\ ~routed /\ egress = 0
  BY DEF Init
<1> QED
  BY <1>1, <1>2, <1>3, <1>4 DEF IInv, Unasked, Quiet

LEMMA StutterKeeps == ASSUME NEW h, IInv(h), UNCHANGED vars PROVE IInv(h)'
<1>1. asked' = asked /\ TypeInv' /\ (Unasked(h) => Unasked(h)')
  BY StepTypes DEF vars, decoder, lengths, write, buffer, m_axis, rfg, switch, hosts,
                   Unasked, Quiet, IInv
<1>2. ASSUME NEW cmd, NEW first, Serving(h, cmd, first)
      PROVE  Serving(h, cmd, first)'
  <2>1. Decoding(h, cmd)'
    <3>1. /\ rfp_state' = rfp_state /\ todo' = todo /\ rfg_address' = rfg_address
          /\ rfg_length' = rfg_length /\ rfg_header' = rfg_header
          /\ rfg_current_length' = rfg_current_length /\ rfg_write' = rfg_write
          /\ m_axis_tdest' = m_axis_tdest
      BY DEF vars, decoder, lengths, write, hosts
    <3>2. Taking(cmd)' = Taking(cmd) /\ (Answering' <=> Answering)
          /\ (HeaderKept(cmd)' <=> HeaderKept(cmd))
      BY <3>1 DEF Taking, Answering, HeaderKept
    <3>3. Decoding(h, cmd)
      BY <1>2 DEF Serving
    <3> QED
      BY <3>1, <3>2, <3>3 DEF Decoding
  <2>2. WritesDue(h, cmd)'
    BY <1>2 DEF vars, decoder, lengths, write, hosts, Serving, WritesDue,
                WritesAsCommanded, Left, Begun, Taking
  <2>3. WordsInPlace(h, cmd, first)'
    BY <1>2 DEF vars, decoder, buffer, m_axis, rfg, switch, hosts, Serving, WordsInPlace,
                Received, Forwarded, Offered, Buffered, Entering, ReadOut
  <2>4. Reading(h, cmd, first)'
    BY <1>2 DEF vars, decoder, lengths, buffer, m_axis, rfg, switch, hosts, Serving,
                Reading, ReadOn, SuppliedNow, Ahead, Quiet, Answering,
                Received, Forwarded, Offered, Buffered, Entering, ReadOut
  <2>5. Switching(h, cmd)'
    BY <1>2 DEF vars, switch, hosts, Serving, Switching, Request, Ready,
                Received, Forwarded
  <2> QED
    BY <2>1, <2>2, <2>3, <2>4, <2>5 DEF Serving
<1> QED
  BY <1>1, <1>2 DEF IInv

LEMMA StepKeeps ==
    ASSUME NEW h, Host = {h}, Waits, DrainGap >= 1, PortDepth >= 3,
           IInv(h), [Next]_vars
    PROVE  IInv(h)'
<1>1. TypeInv /\ TypeInv'
  BY StepTypes DEF IInv
<1>2. ASSUME NEW drains \in BOOLEAN, Running(drains)
      PROVE  IInv(h)'
  <2>1. PICK take \in BOOLEAN, byte \in Byte, tready \in BOOLEAN :
           EdgeFor(h, take, byte, tready, drains)
    BY <1>1, <1>2, RunningOfOne
  <2> QED
    BY <1>1, <2>1, EdgeKeeps
<1>3. ASSUME NEW cmd \in Command, Ask(h, cmd)
      PROVE  IInv(h)'
  BY <1>1, <1>3, AskKeeps
<1>4. CASE UNCHANGED vars
  BY <1>4, StutterKeeps
<1> QED
  BY <1>2, <1>3, <1>4 DEF Next

LEMMA InvariantAlways ==
    ASSUME NEW h, Host = {h}, Waits, DrainGap >= 1, PortDepth >= 3
    PROVE  Spec => []IInv(h)
<1>1. Init => IInv(h)
  BY InitKeeps
<1>2. IInv(h) /\ [Next]_vars => IInv(h)'
  BY StepKeeps
<1> QED
  BY <1>1, <1>2, PTL DEF Spec

(* No host receives more than it asked for, and nothing else.             *)
LEMMA AnswersFit ==
    ASSUME NEW h, Host = {h}, IInv(h)
    PROVE  AnswerInOrder
<1>1. TypeInv
  BY DEF IInv
<1> SUFFICES ASSUME NEW k \in DOMAIN answer[h]
             PROVE  /\ k <= asked[h][1].length
                    /\ [value |-> answer[h][k].value, last |-> answer[h][k].last]
                          = Answer(asked[h][1], asked[h][2], k)
  BY DEF AnswerInOrder
<1>2. k \in 1 .. Received(h) /\ Received(h) \in Nat
  <2>1. answer[h] \in Seq(Words)
    BY <1>1 DEF TypeInv
  <2> QED
    BY <2>1 DEF Received
<1>3. asked[h] # <<>>
  <2> SUFFICES ASSUME asked[h] = <<>>
               PROVE  FALSE
    OBVIOUS
  <2>1. Unasked(h) \/ \E cmd, first : <<>> = <<cmd, first>>
    BY DEF IInv
  <2>2. answer[h] = <<>>
    BY <2>1 DEF Unasked
  <2>3. Received(h) = 0
    BY <2>2, EmptySeq DEF Received
  <2> QED
    BY <1>2, <2>3
<1>4. PICK cmd \in Command, first \in 0 .. FifoWords - 1 :
         asked[h] = <<cmd, first>> /\ Serving(h, cmd, first)
  BY <1>3 DEF IInv
<1>5. asked[h][1] = cmd /\ asked[h][2] = first
  BY <1>4
<1>6. answer[h][k] = WordOf(h, cmd, first, k)
  BY <1>2, <1>4 DEF Serving, WordsInPlace
<1>7. Received(h) <= cmd.length
  <2>1. Forwarded(h) <= cmd.length /\ cmd.length \in Nat /\ Len(port) \in Nat
    BY <1>1, <1>4, ForwardedFits, CommandType, WordRange DEF TypeInv
  <2> QED
    BY <1>2, <2>1 DEF Forwarded
<1>8. k <= cmd.length
  BY <1>2, <1>7, CommandType, WordRange
<1>9. Answer(cmd, first, k) = [value |-> Value(cmd, first, k), last |-> k = cmd.length]
  BY DEF Answer, Value
<1> QED
  BY <1>5, <1>6, <1>8, <1>9 DEF WordOf

(* A host that awaits its answers receives, for every read, exactly the    *)
(* bytes the register file held, each once, in order and with tlast on the *)
(* last: whatever rfg_axis_protocol.sv does with its read buffer when the  *)
(* switch stalls m_axis, with a switch that passes a word on at every edge *)
(* while the egress FIFO is not full, for any depth of that FIFO, as long  *)
(* as the host's link takes no words out of it on consecutive edges.       *)
THEOREM AnswerAsAsked ==
    ASSUME NEW h, Host = {h}, Waits, DrainGap >= 1, PortDepth >= 3
    PROVE  Spec => []AnswerInOrder
<1>1. IInv(h) => AnswerInOrder
  BY AnswersFit
<1> QED
  BY <1>1, InvariantAlways, PTL

(* The register file sees the writes the host commanded, each value once,  *)
(* at its address and with rfg_write_last on the last, and no other.       *)
THEOREM WritesExact ==
    ASSUME NEW h, Host = {h}, Waits, DrainGap >= 1, PortDepth >= 3
    PROVE  Spec => []WritesAsCommanded
<1>1. IInv(h) => WritesAsCommanded
  BY DEF IInv, Unasked, Serving, WritesDue, WritesAsCommanded
<1> QED
  BY <1>1, InvariantAlways, PTL

=============================================================================
