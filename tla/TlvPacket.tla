------------------------------ MODULE TlvPacket ------------------------------
(***************************************************************************)
(* What the temperature client puts on the wire, tlv/client_clv.c: packets *)
(*                                                                         *)
(*     header | tag | length | value ... | CRC (2 bytes)                   *)
(*                                                                         *)
(* where length counts the whole packet.  A byte is a number in 0..255;    *)
(* the checksum is a parameter.                                            *)
(***************************************************************************)
EXTENDS Integers, SequencesExt

CONSTANT Crc(_)     \* crc_itu_t(MAGIC_CRC, ...) of a sequence of bytes

PACK_HEADER    == 255
TEMPRATURE     == 3
TLV_FIXED_SIZE == 5

byte(n)   == n % 256                              \* assignment to a char
signed(b) == IF b < 128 THEN b ELSE b - 256       \* its value in an expression

ushort_to_bytes(v) == <<v \div 256, v % 256>>
bytes_to_ushort(b) == b[1] * 256 + b[2]

Sealed(p) == p \o ushort_to_bytes(Crc(p))

packtlv(data, packtype) ==
    Sealed(<<PACK_HEADER, byte(packtype), byte(TLV_FIXED_SIZE + Len(data))>> \o data)

(* The temperature is split into whole degrees and hundredths, both of its *)
(* sign.  (get_tep returns -1 when it cannot read the sensor.)             *)
pack_tep(degrees, hundredths) ==
    Sealed(<<PACK_HEADER, TEMPRATURE, TLV_FIXED_SIZE + 2, byte(degrees), byte(hundredths)>>)

(* main() writes strlen(tep) bytes: up to the first zero, which may be in  *)
(* the packet, or only behind it in what the stack held there.             *)
Written(packet, stack) ==
    LET s == packet \o stack \o <<0>>
    IN SubSeq(s, 1, SelectInSeq(s, LAMBDA b : b = 0) - 1)
=============================================================================
