----------------------------- MODULE MCTlvServer -----------------------------
(* The instances of TlvServer that TLC checks, with the real checksum.      *)
EXTENDS TlvServer

LOCAL C == INSTANCE CrcItuT

(* C!crc_itu_t(C!MAGIC_CRC, p), with each register evaluated once: TLC would *)
(* do so twice for every byte when it decides what is enabled.              *)
crc_of(p) ==
    LET after[n \in 0..Len(p)] ==
            IF n = 0 THEN C!MAGIC_CRC
            ELSE CHOOSE r \in {C!crc_itu_t_byte(q, p[n]) : q \in {after[n - 1]}} : TRUE
    IN after[Len(p)]

(* The checksum is right on all messages of two bytes; asked in the initial *)
(* states.                                                                  *)
TableDivides == Init => C!TableDivides((0..255) \X (0..255))

(* The checksums of the packets below, evaluated once.                      *)
Heads == {<<255, 3, 7, byte(s[1]), byte(s[2])>> :
             s \in {<<21, 50>>, <<-1, -25>>, <<7, 7>>, <<21, 0>>, <<0, 50>>}}
         \cup {<<255, 4, 6, 1>>, <<255, 3, 13, 9, 8, 1, 1, 1, 1, 1, 1>>}
Known == [p \in Heads |-> crc_of(p)]

CrcItu(p) == IF p \in Heads THEN Known[p] ELSE crc_of(p)

(* Readings: one of them holds a header byte in its value (-1 degrees).     *)
Samples == {<<21, 50>>, <<-1, -25>>, <<7, 7>>}
Reading(s) == [bytes |-> pack_tep(s[1], s[2]), reading |-> s]
Packets == {Reading(s) : s \in Samples}

(* A temperature of a length that is not awaited; with another first byte   *)
(* it is noise, of which the buffer keeps the rest; and its first bytes.    *)
Long   == [bytes |-> packtlv(<<9, 8, 1, 1, 1, 1, 1, 1>>, TEMPRATURE), reading |-> <<9, 8>>]
Shadow == [bytes |-> [Long.bytes EXCEPT ![1] = 0], reading |-> <<>>]
Begun  == [bytes |-> SubSeq(Long.bytes, 1, 6), reading |-> <<>>]
StaleStreams == {<<Shadow, Begun>>}

(* Other traffic: noise, a lone header, a length below the fixed size, a    *)
(* packet with another tag, one of a length that is not awaited, and one    *)
(* with a longer temperature.                                               *)
Unknown == [bytes |-> packtlv(<<1>>, 4), reading |-> <<>>]

Noise == {[bytes |-> b, reading |-> <<>>] :
             b \in {<<0, 1>>, <<255>>, <<255, 3, 4, 9, 9, 9>>,
                    packtlv(<<1, 1, 1, 1, 1, 1, 1, 1, 1>>, 1)}}
         \cup {Unknown}
         \cup {[bytes |-> packtlv(<<1, 2, 1, 1, 1, 1>>, TEMPRATURE), reading |-> <<1, 2>>]}

(* What client_clv.c writes, one packet to a connection: the packet itself  *)
(* if its stack holds a zero behind it, more bytes otherwise, and fewer, so *)
(* that it carries no reading, if a zero is in it.                          *)
ClientStreams ==
    {<<[bytes |-> Written(Reading(s).bytes, stack), reading |-> s]>> :
        s \in Samples, stack \in {<<1>>, <<255, 1>>}}
    \cup {<<[bytes |-> Written(Reading(s).bytes, <<1>>), reading |-> <<>>]>> :
             s \in {<<21, 0>>, <<0, 50>>}}

AllStreams == StaleStreams \cup ClientStreams \cup {<<Long>>, <<Long, Begun>>} \cup
              {<<m>> : m \in Packets \cup Noise}
              \cup (Packets \cup Noise) \X (Packets \cup Noise)
              \cup Packets \X (Packets \cup Noise) \X Packets
              \cup (Packets \ {Reading(<<7, 7>>)}) \X Packets \X Packets \X Packets

=============================================================================
