------------------------------ MODULE AuxUart ------------------------------
(***************************************************************************)
(* The packets of SS1's auxiliary UART (blinky/src/aux_uart.c): the text   *)
(* of a value, and the sequence number the packets share.  A packet stands *)
(* for its sequence number and its message; the rest of its text is fixed. *)
(***************************************************************************)
EXTENDS Integers, Sequences

CONSTANT SeqNumbers         \* values of the uint8_t aux_seq (256)

ASSUME SeqNumbersAssumption == SeqNumbers \in Nat \ {0, 1}

(* C's division, which truncates. *)
Quotient(a, b) == IF a >= 0 THEN a \div b ELSE -((-a) \div b)
Remainder(a, b) == a - b * Quotient(a, b)
Magnitude(n) == IF n < 0 THEN -n ELSE n

(* A message: a sign, two digits, a point and a digit; of the status packet
   only its kind. *)
Message(kind, minus, deci) ==
    [kind |-> kind, minus |-> minus,
     whole |-> IF Magnitude(deci) \div 10 > 99 THEN 99 ELSE Magnitude(deci) \div 10,
     frac |-> Magnitude(deci) % 10]
aux_status_msg == [kind |-> "status", minus |-> FALSE, whole |-> 0, frac |-> 0]

TempDeci(temp_cdeg) == Quotient(IF temp_cdeg >= 0 THEN temp_cdeg + 5 ELSE temp_cdeg - 5, 10)
HumDeci(hum_cpercent) == (hum_cpercent + 5) \div 10

format_temp_msg(temp_cdeg) ==
    Message("temp", TempDeci(temp_cdeg) < 0, TempDeci(temp_cdeg))
format_hum_msg(hum_cpercent) == Message("hum", FALSE, HumDeci(hum_cpercent))

Packet(seq, msg) == [seq |-> seq, msg |-> msg]
Successor(seq) == (seq + 1) % SeqNumbers

(* send_packet() and advance_sequence(): the packets that go out with msg, and
   the sequence number after them.  A number that wraps goes to a status packet. *)
Packets(seq, msg) ==
    IF Successor(seq) = 0 THEN <<Packet(seq, msg), Packet(0, aux_status_msg)>>
    ELSE <<Packet(seq, msg)>>

(* Mutant of NextSeq: the next data packet repeats the status packet's number. *)
NextSeqReused(seq) == Successor(seq)
NextSeq(seq) == IF Successor(seq) = 0 THEN Successor(0) ELSE Successor(seq)

(* What a message says, in tenths. *)
Tenths(msg) == (10 * msg.whole + msg.frac) * (IF msg.minus THEN -1 ELSE 1)
=============================================================================
