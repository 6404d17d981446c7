------------------------------- MODULE Sht3x -------------------------------
(***************************************************************************)
(* What SS1 makes of the six bytes the SHT3x sends: two 16-bit words, each *)
(* with a checksum (blinky/src/main.c).                                    *)
(*                                                                         *)
(* External: the sensor, and the bus, which may change one of the bytes.   *)
(***************************************************************************)
EXTENDS Integers, Sequences, Bitwise
LOCAL INSTANCE SequencesExt

Byte == 0..255

ShiftBit(crc) == IF crc >= 128 THEN ((2 * crc) % 256) ^^ 49 ELSE 2 * crc

sht3x_crc8(data) ==
    LET ShiftByte(crc) == FoldLeft(LAMBDA x, bit : ShiftBit(x), crc, [bit \in 1..8 |-> bit])
    IN  FoldLeft(LAMBDA crc, byte : ShiftByte(crc ^^ byte), 255, data)

ChecksHold(rx) == /\ sht3x_crc8(SubSeq(rx, 1, 2)) = rx[3]
                  /\ sht3x_crc8(SubSeq(rx, 4, 5)) = rx[6]

Raw(high, low) == 256 * high + low
TempCdeg(raw) == -4500 + (17500 * raw) \div 65535
HumCpercent(raw) == (10000 * raw) \div 65535

(* The word <<high, low>> as the sensor sends it. *)
WithChecksum(word) == Append(word, sht3x_crc8(word))

Frame(t, h) == WithChecksum(t) \o WithChecksum(h)

(* One of the bytes with some of its bits inverted. *)
Damaged(frame, byte, mask) == [frame EXCEPT ![byte] = @ ^^ mask]

NoSample == [valid |-> FALSE, temp |-> 0, hum |-> 0, genuine |-> FALSE]

(* read_sht3x_sample(): what SS1 makes of the bytes rx, and whether it is what
   the sensor sent as frame. *)
Reading(frame, rx) ==
    IF ChecksHold(rx)
    THEN [valid |-> TRUE,
          temp |-> TempCdeg(Raw(rx[1], rx[2])), hum |-> HumCpercent(Raw(rx[4], rx[5])),
          genuine |-> \A byte \in {1, 2, 4, 5} : rx[byte] = frame[byte]]
    ELSE NoSample

(* The readings frame leads to, with any damage to one of its bytes. *)
DamagedReadings(frame) ==
    {Reading(frame, Damaged(frame, byte, mask)) : byte \in 1..6, mask \in 1..255}
=============================================================================
